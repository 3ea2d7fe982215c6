-------------------------- MODULE UnwindingProofs --------------------------
(***************************************************************************)
(* What unwinding keeps, for any number of fibers, frames and run loops.   *)
(*                                                                         *)
(* The idea: the running context and the ones it was resumed from form a   *)
(* chain, and the host's stack is that chain cut into run loops: a loop    *)
(* for every frame a native started and for every fiber a native resumed,  *)
(* the loops of a context after those of the contexts that wait for it.    *)
(* So the innermost loop is always that of the frame or the fiber that     *)
(* goes next.                                                              *)
(***************************************************************************)
EXTENDS Unwinding, TLAPS, SequenceTheorems, FiniteSetTheorems, WellFoundedInduction

(* The chain of resumers, of any context, along a function to who resumed. *)

Closed(p, s) == \A c \in s \ {Root} : p[c] # None => p[c] \in s
Chain(p, c) == {d \in Contexts : \A s \in SUBSET Contexts : c \in s /\ Closed(p, s) => d \in s}
Prev == [c \in Contexts |-> ctx[c].prev]

---------------------------------------------------------------------------
(* The invariant. *)

Statuses == {None, "created", "running", "resumed", "suspended", "transferred", "terminated"}
FrameIds == 1..MaxFrames
Leavings == [kind : {"unwind"}, idx : Nat \ {0}, id : FrameIds]
Jumps == [kind : {"jump"}, to : Nat]
Things == {Nothing, Raising, Rescuing} \cup Leavings \cup Jumps
Items == [kind : {"rescue", "ensure"}] \cup [kind : {"body"}, then : Things]
Frames == [id : FrameIds, cci : {"none", "skip"}, nest : Seq(Items)]
States == [status : Statuses, prev : Contexts \cup {None}, vmexec : BOOLEAN,
           pending : 0..MaxFrames, ci : Seq(Frames)]
Loops == [lc : Contexts, stop : Nat \ {0}, home : Contexts, frames : Seq(FrameIds)]
Answers == {Value, Raising} \cup Leavings
Flights == {Nothing, Raising} \cup Leavings \cup [kind : {"native"}, what : Answers]

Typed ==
  /\ ctx \in [Contexts -> States] /\ cur \in Contexts
  /\ host \in Seq(Loops) /\ flight \in Flights

\* A fiber has frames from its first resume to its end; the first frame of a
\* fiber is not a native's, the first of the root is.
Lives ==
  /\ \A c \in Fibers : /\ ctx[c].ci = <<>> <=> ctx[c].status \in {None, "created", "terminated"}
                       /\ ctx[c].ci = <<>> => ctx[c].prev = None /\ ~ctx[c].vmexec
                       /\ ctx[c].ci # <<>> => ctx[c].ci[1].cci = "none"
  /\ ctx[Root].ci # <<>> => ctx[Root].ci[1].cci = "skip"
  /\ ctx[Root].prev = None /\ ~ctx[Root].vmexec

\* The contexts of the chain wait for each other, and no context for itself.
Chained ==
  /\ \A c \in Contexts : ctx[c].status = "running" => c = cur
  /\ ctx[cur].status = "running" \/ (cur = Root /\ ctx[cur].status = "created")
  /\ \A c \in Chain(Prev, cur) \ {cur} : ctx[c].status = "resumed"
  /\ host = <<>> => cur = Root
  /\ \A c \in Chain(Prev, cur) \ {Root} : ctx[c].prev # None => c \notin Chain(Prev, ctx[c].prev)

\* What a loop's native finds when it gets control back.
Found(lo, n) ==
  /\ Len(lo.frames) = n /\ n <= Len(ctx[lo.home].ci)
  /\ \A i \in 1..n : lo.frames[i] = ctx[lo.home].ci[i].id

OfFrame(lo) ==
  /\ lo.lc = lo.home /\ lo.stop <= Len(ctx[lo.lc].ci) /\ ctx[lo.lc].ci[lo.stop].cci = "skip"
  /\ Found(lo, lo.stop - 1)
OfFiber(lo) ==
  /\ lo.lc # lo.home /\ ctx[lo.lc].vmexec /\ lo.stop = 1 /\ lo.home = ctx[lo.lc].prev
  /\ Found(lo, Len(ctx[lo.home].ci))

LoopsMatch == \A l \in 1..Len(host) : OfFrame(host[l]) \/ OfFiber(host[l])

FramesMatch ==
  \A c \in Contexts :
    /\ \A i \in 1..Len(ctx[c].ci) : ctx[c].ci[i].cci = "skip" =>
         \E l \in 1..Len(host) : host[l].lc = c /\ host[l].home = c /\ host[l].stop = i
    /\ ctx[c].vmexec => \E l \in 1..Len(host) : host[l].lc = c /\ host[l].home # c

\* The first loop is the program's; the others stand in the chain's order, a
\* context's own in the order of its frames.
LoopsInOrder ==
  /\ host # <<>> => host[1].lc = Root
  /\ \A l \in 2..Len(host) : host[l].lc \in Chain(Prev, cur)
  /\ \A l, m \in 1..Len(host) : l < m =>
       /\ l # 1 => host[l].lc \in Chain(Prev, host[m].lc)
       /\ host[l].lc = host[m].lc =>
            /\ host[m].home = host[m].lc
            /\ host[l].home = host[l].lc => host[l].stop < host[m].stop

Looped == LoopsMatch /\ FramesMatch /\ LoopsInOrder

Distinct ==
  \A c, d \in Contexts : \A i \in 1..Len(ctx[c].ci), j \in 1..Len(ctx[d].ci) :
    ctx[c].ci[i].id = ctx[d].ci[j].id => c = d /\ i = j

\* What is under way has its frame where it looks for it.
Aims(c, thing) ==
  thing.kind = "unwind" => thing.idx <= Len(ctx[c].ci) /\ ctx[c].ci[thing.idx].id = thing.id
Sound(c, i, n, thing) ==
  /\ Aims(c, thing)
  /\ thing.kind = "unwind" => thing.idx <= i
  /\ thing.kind = "jump" => thing.to < n
Aimed ==
  /\ Aims(cur, flight)
  /\ flight.kind = "native" => Aims(cur, flight.what)
  /\ flight.kind \in {"raise", "unwind"} => host # <<>>
  /\ \A c \in Contexts : \A i \in 1..Len(ctx[c].ci) : \A n \in 1..Len(ctx[c].ci[i].nest) :
       ctx[c].ci[i].nest[n].kind = "body" => Sound(c, i, n, ctx[c].ci[i].nest[n].then)

\* Who is waited for by value.
Awaits(c) == ctx[c].ci # <<>> /\ ctx[c].pending = ctx[c].ci[Len(ctx[c].ci)].id
Awaiting ==
  /\ \A c \in Contexts : ctx[c].status \in {"suspended", "transferred"} => Awaits(c)
  /\ \A c \in Chain(Prev, cur) \ {Root} : ctx[c].prev # None /\ ~ctx[c].vmexec => Awaits(ctx[c].prev)
  /\ Root \notin Chain(Prev, cur) => Awaits(Root)

IInv == Typed /\ Lives /\ Chained /\ Looped /\ Distinct /\ Aimed /\ Awaiting

---------------------------------------------------------------------------
(* Sequences. *)

LEMMA TopFacts ==
  ASSUME NEW S, NEW s \in Seq(S)
  PROVE  /\ Len(s) \in Nat /\ DOMAIN s = 1..Len(s)
         /\ s # <<>> <=> Len(s) >= 1
         /\ \A i \in 1..Len(s) : s[i] \in S
         /\ s # <<>> => /\ Last(s) = s[Len(s)] /\ Last(s) \in S /\ Front(s) \in Seq(S)
                        /\ Len(Front(s)) = Len(s) - 1
                        /\ \A i \in 1..(Len(s) - 1) : Front(s)[i] = s[i]
<1>1. Len(s) \in Nat /\ DOMAIN s = 1..Len(s) /\ \A i \in 1..Len(s) : s[i] \in S
  BY LenProperties, ElementOfSeq
<1>2. s # <<>> <=> Len(s) >= 1
  BY <1>1, EmptySeq
<1>3. ASSUME s # <<>>
      PROVE  /\ Front(s) \in Seq(S) /\ Len(Front(s)) = Len(s) - 1
             /\ \A i \in 1..(Len(s) - 1) : Front(s)[i] = s[i]
  <2>1. 1 \in Int /\ Len(s) - 1 \in Int /\ \A i \in 1..(Len(s) - 1) : s[i] \in S
    BY <1>1
  <2>2. /\ SubSeq(s, 1, Len(s) - 1) \in Seq(S)
        /\ Len(SubSeq(s, 1, Len(s) - 1)) = IF 1 <= Len(s) - 1 THEN Len(s) - 1 - 1 + 1 ELSE 0
        /\ \A i \in 1..(Len(s) - 1 - 1 + 1) : SubSeq(s, 1, Len(s) - 1)[i] = s[1 + i - 1]
    BY <2>1, SubSeqProperties
  <2> QED  BY <1>1, <1>2, <1>3, <2>2 DEF Front
<1>4. s # <<>> => Last(s) = s[Len(s)] /\ Last(s) \in S
  <2>1. s # <<>> => Len(s) \in 1..Len(s)
    BY <1>1, <1>2
  <2> QED  BY <1>1, <2>1 DEF Last
<1> HIDE DEF Front, Last
<1> QED  BY <1>1, <1>2, <1>3, <1>4

LEMMA AppendFacts ==
  ASSUME NEW S, NEW s \in Seq(S), NEW e \in S
  PROVE  /\ Append(s, e) \in Seq(S) /\ Len(Append(s, e)) = Len(s) + 1
         /\ Append(s, e)[Len(s) + 1] = e
         /\ \A i \in 1..Len(s) : Append(s, e)[i] = s[i]
BY AppendProperties

LEMMA OneFacts ==
  ASSUME NEW S, NEW e \in S
  PROVE  <<e>> \in Seq(S) /\ Len(<<e>>) = 1 /\ <<e>>[1] = e
OBVIOUS

LEMMA CutFacts ==
  ASSUME NEW S, NEW s \in Seq(S), NEW n \in Nat, n <= Len(s)
  PROVE  /\ SubSeq(s, 1, n) \in Seq(S) /\ Len(SubSeq(s, 1, n)) = n
         /\ \A i \in 1..n : SubSeq(s, 1, n)[i] = s[i]
<1>1. 1 \in Int /\ n \in Int /\ \A i \in 1..n : s[i] \in S
  BY TopFacts
<1>2. /\ SubSeq(s, 1, n) \in Seq(S)
      /\ Len(SubSeq(s, 1, n)) = IF 1 <= n THEN n - 1 + 1 ELSE 0
      /\ \A i \in 1..(n - 1 + 1) : SubSeq(s, 1, n)[i] = s[1 + i - 1]
  BY <1>1, SubSeqProperties
<1> QED  BY <1>2

LEMMA IdsFacts ==
  ASSUME NEW s \in Seq(Frames)
  PROVE  /\ Ids(s) \in Seq(FrameIds) /\ Len(Ids(s)) = Len(s)
         /\ \A i \in 1..Len(s) : Ids(s)[i] = s[i].id
<1>0. Len(s) \in Nat /\ \A i \in 1..Len(s) : s[i] \in Frames
  BY TopFacts
<1>1. Len(s) \in Nat /\ \A i \in 1..Len(s) : s[i].id \in FrameIds
  BY <1>0 DEF Frames
<1>2. Ids(s) \in [1..Len(s) -> FrameIds] /\ \A i \in 1..Len(s) : Ids(s)[i] = s[i].id
  BY <1>1 DEF Ids
<1>3. Ids(s) \in Seq(FrameIds)
  BY <1>1, <1>2, SeqDef
<1>4. DOMAIN Ids(s) = 1..Len(s) /\ DOMAIN Ids(s) = 1..Len(Ids(s)) /\ Len(Ids(s)) \in Nat
  BY <1>2, <1>3, LenProperties
<1>5. Len(Ids(s)) = Len(s)
  BY <1>1, <1>4
<1> QED  BY <1>2, <1>3, <1>5

---------------------------------------------------------------------------
(* Chains. *)

LEMMA ResumersAreTheChain == Resumers = Chain(Prev, cur)
<1>1. \A s \in SUBSET Contexts : IsClosed(s) <=> Closed(Prev, s)
  BY DEF IsClosed, Closed, Prev
<1> QED  BY <1>1 DEF Resumers, Chain

LEMMA ChainSelf ==
  ASSUME NEW p, NEW c \in Contexts
  PROVE  c \in Chain(p, c) /\ Chain(p, c) \subseteq Contexts
BY DEF Chain

LEMMA ChainClosed ==
  ASSUME NEW p \in [Contexts -> Contexts \cup {None}], NEW c
  PROVE  Closed(p, Chain(p, c))
BY DEF Chain, Closed

LEMMA ChainWithin ==
  ASSUME NEW p, NEW c, NEW s \in SUBSET Contexts, c \in s, Closed(p, s)
  PROVE  Chain(p, c) \subseteq s
BY DEF Chain

LEMMA ChainTrans ==
  ASSUME NEW p \in [Contexts -> Contexts \cup {None}], NEW c, NEW d \in Chain(p, c)
  PROVE  Chain(p, d) \subseteq Chain(p, c)
BY ChainClosed, ChainWithin DEF Chain

LEMMA ChainEnd ==
  ASSUME NEW p \in [Contexts -> Contexts \cup {None}], NEW c \in Contexts, c = Root \/ p[c] = None
  PROVE  Chain(p, c) = {c}
<1>1. Closed(p, {c})
  BY DEF Closed
<1> QED  BY <1>1, ChainSelf, ChainWithin

LEMMA ChainStep ==
  ASSUME NEW p \in [Contexts -> Contexts \cup {None}], NEW c \in Contexts, c # Root, p[c] # None
  PROVE  Chain(p, c) = {c} \cup Chain(p, p[c])
<1>0. p[c] \in Contexts
  OBVIOUS
<1>1. Closed(p, {c} \cup Chain(p, p[c]))
  <2>1. Closed(p, Chain(p, p[c])) /\ p[c] \in Chain(p, p[c])
    BY <1>0, ChainClosed, ChainSelf
  <2> QED  BY <2>1 DEF Closed
<1>2. Chain(p, c) \subseteq {c} \cup Chain(p, p[c])
  BY <1>0, <1>1, ChainWithin, ChainSelf
<1>3. p[c] \in Chain(p, c) /\ c \in Chain(p, c)
  BY ChainSelf, ChainClosed DEF Closed
<1> QED  BY <1>2, <1>3, ChainTrans

\* A chain depends on the contexts in it alone.
LEMMA ChainLocal ==
  ASSUME NEW p \in [Contexts -> Contexts \cup {None}], NEW q \in [Contexts -> Contexts \cup {None}],
         NEW c \in Contexts, \A d \in Chain(p, c) : q[d] = p[d]
  PROVE  Chain(q, c) = Chain(p, c)
<1>1. Chain(q, c) \subseteq Chain(p, c)
  <2>1. Closed(q, Chain(p, c)) /\ c \in Chain(p, c) /\ Chain(p, c) \in SUBSET Contexts
    BY ChainClosed, ChainSelf DEF Closed
  <2> QED  BY <2>1, ChainWithin
<1>2. Chain(p, c) \subseteq Chain(q, c)
  <2>1. Closed(p, Chain(q, c)) /\ c \in Chain(q, c) /\ Chain(q, c) \in SUBSET Contexts
    BY <1>1, ChainClosed, ChainSelf DEF Closed
  <2> QED  BY <2>1, ChainWithin
<1> QED  BY <1>1, <1>2

\* The root is the last of a chain: another context of it was resumed by it.
LEMMA ChainToRoot ==
  ASSUME NEW p \in [Contexts -> Contexts \cup {None}], NEW c \in Contexts, c # Root,
         Root \in Chain(p, c), Root \in Contexts
  PROVE  \E d \in Chain(p, c) \ {Root} : p[d] = Root
<1> SUFFICES ASSUME \A d \in Chain(p, c) \ {Root} : p[d] # Root PROVE FALSE
  OBVIOUS
<1>1. Closed(p, Chain(p, c)) /\ c \in Chain(p, c) /\ Chain(p, c) \subseteq Contexts
  BY ChainClosed, ChainSelf
<1>2. Closed(p, Chain(p, c) \ {Root})
  BY <1>1 DEF Closed
<1> QED  BY <1>1, <1>2, ChainWithin

\* Two contexts of a chain without cycles do not wait for each other.
LEMMA ChainAnti ==
  ASSUME NEW p \in [Contexts -> Contexts \cup {None}], NEW c \in Contexts,
         \A d \in Chain(p, c) \ {Root} : p[d] # None => d \notin Chain(p, p[d]),
         NEW x \in Chain(p, c), NEW y \in Chain(p, c), x \in Chain(p, y), y \in Chain(p, x)
  PROVE  x = y
<1> SUFFICES ASSUME x # y PROVE FALSE
  OBVIOUS
<1>0. x \in Contexts /\ y \in Contexts
  BY ChainSelf
<1>1. y # Root /\ p[y] # None
  BY <1>0, ChainEnd
<1>2. x \in Chain(p, p[y])
  BY <1>0, <1>1, ChainStep
<1>3. Chain(p, x) \subseteq Chain(p, p[y])
  BY <1>2, ChainTrans
<1> QED  BY <1>1, <1>3

---------------------------------------------------------------------------
(* States. *)

LEMMA Names ==
  /\ Root \in Contexts /\ Fibers \subseteq Contexts /\ None \notin Contexts /\ Root \notin Fibers
  /\ \A c \in Contexts : c # Root <=> c \in Fibers
BY ContextsAssumption DEF Contexts

LEMMA PrevFacts ==
  ASSUME Typed
  PROVE  /\ Prev \in [Contexts -> Contexts \cup {None}] /\ cur \in Contexts
         /\ \A c \in Contexts : Prev[c] = ctx[c].prev
         /\ cur \in Chain(Prev, cur) /\ Chain(Prev, cur) \subseteq Contexts
<1>1. \A c \in Contexts : ctx[c].prev \in Contexts \cup {None}
  BY DEF Typed, States
<1>2. cur \in Contexts
  BY DEF Typed
<1> QED  BY <1>1, <1>2, ChainSelf DEF Prev

LEMMA CiFacts ==
  ASSUME Typed, NEW c \in Contexts
  PROVE  /\ ctx[c].ci \in Seq(Frames) /\ Len(ctx[c].ci) \in Nat /\ DOMAIN ctx[c].ci = 1..Len(ctx[c].ci)
         /\ ctx[c].ci # <<>> <=> Len(ctx[c].ci) >= 1
         /\ \A i \in 1..Len(ctx[c].ci) : ctx[c].ci[i] \in Frames
         /\ ctx[c].ci # <<>> => Last(ctx[c].ci) = ctx[c].ci[Len(ctx[c].ci)]
<1>1. ctx[c].ci \in Seq(Frames)
  BY DEF Typed, States
<1> QED  BY <1>1, TopFacts

LEMMA NestFacts ==
  ASSUME NEW f \in Frames
  PROVE  /\ f.id \in FrameIds /\ f.cci \in {"none", "skip"}
         /\ f.nest \in Seq(Items) /\ Len(f.nest) \in Nat /\ DOMAIN f.nest = 1..Len(f.nest)
         /\ f.nest # <<>> <=> Len(f.nest) >= 1
         /\ \A n \in 1..Len(f.nest) : f.nest[n] \in Items
         /\ f.nest # <<>> => Last(f.nest) = f.nest[Len(f.nest)]
<1>1. f.nest \in Seq(Items) /\ f.id \in FrameIds /\ f.cci \in {"none", "skip"}
  BY DEF Frames
<1> QED  BY <1>1, TopFacts

LEMMA HostFacts ==
  ASSUME Typed
  PROVE  /\ host \in Seq(Loops) /\ Len(host) \in Nat
         /\ host # <<>> <=> Len(host) >= 1
         /\ \A l \in 1..Len(host) : host[l] \in Loops
         /\ host # <<>> => /\ Loop = host[Len(host)] /\ Front(host) \in Seq(Loops)
                           /\ Len(Front(host)) = Len(host) - 1
                           /\ \A l \in 1..(Len(host) - 1) : Front(host)[l] = host[l]
<1>1. host \in Seq(Loops)
  BY DEF Typed
<1> QED  BY <1>1, TopFacts DEF Loop

LEMMA ThingFacts ==
  ASSUME NEW t \in Things
  PROVE  /\ t.kind = "unwind" => t \in Leavings
         /\ t.kind = "jump" => t \in Jumps
         /\ t.kind = "raise" => t = Raising
         /\ t.kind = "nothing" => t = Nothing
         /\ t.kind = "rescue" => t = Rescuing
         /\ t.kind \in {"unwind", "jump", "raise", "nothing", "rescue"}
BY DEF Things, Leavings, Jumps, Raising, Nothing, Rescuing

LEMMA FlightFacts ==
  ASSUME NEW t \in Flights
  PROVE  /\ t.kind = "unwind" => t \in Leavings
         /\ t.kind = "raise" => t = Raising
         /\ t.kind = "native" => t.what \in Answers
         /\ t.kind \in {"unwind", "raise", "nothing", "native"}
BY DEF Flights, Leavings, Raising, Nothing

LEMMA AnswerFacts ==
  ASSUME NEW t \in Answers
  PROVE  /\ t.kind = "unwind" => t \in Leavings
         /\ t.kind = "raise" => t = Raising
         /\ t.kind \in {"unwind", "raise", "value"}
BY DEF Answers, Leavings, Raising, Value

LEMMA ItemFacts ==
  ASSUME NEW t \in Items
  PROVE  /\ t.kind \in {"rescue", "ensure", "body"}
         /\ t.kind = "body" => t.then \in Things /\ t = Body(t.then)
BY DEF Items, Body

\* The loops of an unfinished program: its own, and frames in every context
\* of the chain.
LEMMA Alive ==
  ASSUME IInv, host # <<>>
  PROVE  /\ host[1] \in Loops /\ host[1].lc = Root /\ host[1].home = Root /\ host[1].stop = 1
         /\ ctx[Root].ci # <<>>
         /\ \A c \in Chain(Prev, cur) : ctx[c].ci # <<>> /\ Len(ctx[c].ci) >= 1
<1>1. Len(host) >= 1 /\ host[1] \in Loops /\ host[1].lc = Root
  BY HostFacts DEF IInv, Looped, LoopsInOrder
<1>2. OfFrame(host[1])
  <2>1. OfFrame(host[1]) \/ OfFiber(host[1])
    BY <1>1, HostFacts DEF IInv, Looped, LoopsMatch
  <2> QED  BY <1>1, <2>1 DEF OfFiber, IInv, Lives
<1>3. host[1].home = Root /\ host[1].stop \in Nat \ {0} /\ host[1].stop <= Len(ctx[Root].ci)
      /\ ctx[Root].ci[host[1].stop].cci = "skip"
  BY <1>1, <1>2 DEF OfFrame, Loops
<1>4. ctx[Root].ci # <<>> /\ Len(ctx[Root].ci) >= 1 /\ Len(ctx[Root].ci) \in Nat
  BY <1>3, CiFacts, Names DEF IInv
<1>5. host[1].stop = 1
  <2>1. ctx[Root].ci[1].cci = "skip"
    BY <1>4 DEF IInv, Lives
  <2>2. PICK l \in 1..Len(host) : host[l].lc = Root /\ host[l].home = Root /\ host[l].stop = 1
    BY <1>4, <2>1, Names DEF IInv, Looped, FramesMatch
  <2>3. l # 1 => host[1].stop < host[l].stop
    BY <1>1, <1>3, <2>2, HostFacts DEF IInv, Looped, LoopsInOrder
  <2> QED  BY <1>3, <2>2, <2>3
<1>6. ASSUME NEW c \in Chain(Prev, cur) PROVE ctx[c].ci # <<>> /\ Len(ctx[c].ci) >= 1
  <2>1. c \in Contexts
    BY PrevFacts DEF IInv
  <2>2. CASE c = Root
    BY <1>4, <2>2
  <2>3. CASE c # Root
    <3>1. ctx[c].status \in {"running", "resumed"}
      BY <2>3 DEF IInv, Chained
    <3>2. ctx[c].ci # <<>>
      BY <2>1, <2>3, <3>1, Names DEF IInv, Lives, None
    <3> QED  BY <2>1, <3>2, CiFacts DEF IInv
  <2> QED  BY <2>2, <2>3
<1> QED  BY <1>1, <1>3, <1>4, <1>5, <1>6

\* No context waits for one that waits for it.
LEMMA NoCycle ==
  ASSUME IInv, NEW x \in Chain(Prev, cur), NEW y \in Chain(Prev, cur),
         x \in Chain(Prev, y), y \in Chain(Prev, x)
  PROVE  x = y
<1>1. Prev \in [Contexts -> Contexts \cup {None}] /\ cur \in Contexts
      /\ \A c \in Chain(Prev, cur) : c \in Contexts /\ Prev[c] = ctx[c].prev
  BY PrevFacts DEF IInv
<1>2. \A d \in Chain(Prev, cur) \ {Root} : Prev[d] # None => d \notin Chain(Prev, Prev[d])
  BY <1>1 DEF IInv, Chained
<1> QED  BY <1>1, <1>2, ChainAnti

\* A context of the chain does not wait for itself, nor for the running one's.
LEMMA WaitsElsewhere ==
  ASSUME IInv, NEW c \in Chain(Prev, cur) \ {Root}, ctx[c].prev # None
  PROVE  /\ ctx[c].prev # cur /\ ctx[c].prev # c /\ ctx[c].prev \in Chain(Prev, cur)
         /\ ctx[c].prev \in Contexts
<1>1. Prev \in [Contexts -> Contexts \cup {None}] /\ cur \in Contexts /\ c \in Contexts
      /\ Prev[c] = ctx[c].prev /\ ctx[c].prev \in Contexts
  BY PrevFacts DEF IInv
<1>2. c \notin Chain(Prev, ctx[c].prev)
  BY DEF IInv, Chained
<1>3. ctx[c].prev \in Chain(Prev, cur)
  BY <1>1, ChainClosed DEF Closed
<1> QED  BY <1>1, <1>2, <1>3, ChainSelf

\* A loop's context, the program's apart, is in the chain; a fiber a native
\* resumed has been resumed from its loop's home.
LEMMA LoopFacts ==
  ASSUME IInv, NEW l \in 1..Len(host)
  PROVE  /\ host[l] \in Loops /\ host[l].lc \in Contexts /\ host[l].home \in Contexts
         /\ host[l].stop \in Nat \ {0} /\ Len(host) >= 1 /\ Len(host) \in Nat
         /\ l # 1 => host[l].lc \in Chain(Prev, cur)
         /\ host[l].lc # host[l].home =>
              /\ OfFiber(host[l]) /\ l # 1 /\ host[l].lc \in Fibers /\ host[l].lc # Root
              /\ host[l].home # cur /\ host[l].home \in Chain(Prev, cur)
              /\ ctx[host[l].lc].prev = host[l].home
         /\ host[l].lc = host[l].home => OfFrame(host[l])
<1>1. host[l] \in Loops /\ Len(host) \in Nat /\ Len(host) >= 1
  BY HostFacts DEF IInv
<1>2. host[l].lc \in Contexts /\ host[l].home \in Contexts /\ host[l].stop \in Nat \ {0}
  BY <1>1 DEF Loops
<1>3. l # 1 => host[l].lc \in Chain(Prev, cur)
  BY <1>1 DEF IInv, Looped, LoopsInOrder
<1>4. OfFrame(host[l]) \/ OfFiber(host[l])
  BY DEF IInv, Looped, LoopsMatch
<1>5. host[l].lc = host[l].home => OfFrame(host[l])
  BY <1>4 DEF OfFiber
<1>6. ASSUME host[l].lc # host[l].home
      PROVE  /\ OfFiber(host[l]) /\ l # 1 /\ host[l].lc \in Fibers /\ host[l].lc # Root
             /\ host[l].home # cur /\ host[l].home \in Chain(Prev, cur)
             /\ ctx[host[l].lc].prev = host[l].home
  <2>1. OfFiber(host[l])
    BY <1>4, <1>6 DEF OfFrame
  <2>2. host[l].lc # Root /\ host[l].lc \in Fibers /\ ctx[host[l].lc].prev = host[l].home
    BY <1>2, <2>1, Names DEF OfFiber, IInv, Lives
  <2>3. l # 1
    BY <1>1, <2>2, HostFacts DEF IInv, Looped, LoopsInOrder
  <2>4. ctx[host[l].lc].prev # None
    BY <1>2, <2>2, Names
  <2> QED  BY <1>2, <1>3, <2>1, <2>2, <2>3, <2>4, WaitsElsewhere
<1> QED  BY <1>1, <1>2, <1>3, <1>5, <1>6

\* If a loop is the running context's, then the innermost one is.
LEMMA InnermostLoop ==
  ASSUME IInv, NEW l \in 1..Len(host), host[l].lc = cur
  PROVE  Loop = host[Len(host)] /\ Loop.lc = cur /\ Len(host) \in 1..Len(host)
<1> DEFINE m == Len(host)
<1>1. m \in 1..Len(host) /\ Loop = host[m] /\ l <= m /\ m \in Nat /\ l \in Nat
  BY HostFacts DEF IInv
<1>2. CASE l = m
  BY <1>1, <1>2
<1>3. CASE l # m /\ l # 1
  <2>1. cur \in Chain(Prev, host[m].lc)
    BY <1>1, <1>3 DEF IInv, Looped, LoopsInOrder
  <2>2. host[m].lc \in Chain(Prev, cur) /\ cur \in Chain(Prev, cur)
    BY <1>1, <1>3, LoopFacts, PrevFacts DEF IInv
  <2> QED  BY <1>1, <2>1, <2>2, NoCycle
<1>4. CASE l # m /\ l = 1
  <2>1. cur = Root
    BY <1>1, <1>4, HostFacts DEF IInv, Looped, LoopsInOrder
  <2>2. Chain(Prev, cur) = {cur}
    BY <2>1, PrevFacts, ChainEnd DEF IInv
  <2>3. host[m].lc \in Chain(Prev, cur)
    BY <1>1, <1>4, LoopFacts
  <2> QED  BY <1>1, <2>2, <2>3
<1> QED  BY <1>2, <1>3, <1>4

\* A native's frame on top is the innermost loop's, and the other way round.
LEMMA TopIsTheLoops ==
  ASSUME IInv, host # <<>>
  PROVE  /\ Len(ctx[cur].ci) \in Nat /\ Len(ctx[cur].ci) >= 1
         /\ Top = ctx[cur].ci[Len(ctx[cur].ci)] /\ Top \in Frames
         /\ Top.cci = "skip" => Loop.lc = cur /\ Loop.home = cur /\ Loop.stop = Len(ctx[cur].ci)
         /\ cur = Loop.lc /\ Len(ctx[cur].ci) <= Loop.stop =>
              Top.cci = "skip" \/ (Len(ctx[cur].ci) = 1 /\ cur \in Fibers)
<1> DEFINE n == Len(ctx[cur].ci)
<1>1. cur \in Contexts /\ n \in Nat /\ n >= 1 /\ Top = ctx[cur].ci[n] /\ Top \in Frames
  <2>1. cur \in Contexts /\ ctx[cur].ci # <<>>
    BY Alive, PrevFacts DEF IInv
  <2> QED  BY <2>1, CiFacts DEF IInv, Top
<1>2. Len(host) >= 1 /\ Len(host) \in 1..Len(host) /\ Loop = host[Len(host)]
  BY HostFacts DEF IInv
<1>3. ASSUME Top.cci = "skip" PROVE Loop.lc = cur /\ Loop.home = cur /\ Loop.stop = n
  <2>0. n \in 1..n
    BY <1>1
  <2>1. PICK l \in 1..Len(host) : host[l].lc = cur /\ host[l].home = cur /\ host[l].stop = n
    BY <1>1, <1>3, <2>0 DEF IInv, Looped, FramesMatch
  <2> HIDE DEF n
  <2>2. Loop.lc = cur
    BY <2>1, InnermostLoop
  <2>3. l < Len(host) => Loop.home = cur /\ n < Loop.stop
    BY <1>2, <2>1, <2>2 DEF IInv, Looped, LoopsInOrder
  <2>4. Loop.home = cur => Loop.stop <= n
    BY <1>2, <2>2, LoopFacts DEF OfFrame, n
  <2>5. Loop.stop \in Nat
    BY <1>2, LoopFacts
  <2> QED  BY <1>1, <1>2, <2>1, <2>2, <2>3, <2>4, <2>5
<1>4. ASSUME cur = Loop.lc, n <= Loop.stop PROVE Top.cci = "skip" \/ (n = 1 /\ cur \in Fibers)
  <2>1. CASE Loop.home = Loop.lc
    <3>1. Loop.stop <= n /\ ctx[cur].ci[Loop.stop].cci = "skip" /\ Loop.stop \in Nat
      BY <1>2, <1>4, <2>1, LoopFacts DEF OfFrame
    <3> HIDE DEF n
    <3>2. Loop.stop = n
      BY <1>1, <1>4, <3>1
    <3> QED  BY <1>1, <3>1, <3>2
  <2>2. CASE Loop.home # Loop.lc
    <3>1. Loop.stop = 1 /\ cur \in Fibers
      BY <1>2, <1>4, <2>2, LoopFacts DEF OfFiber
    <3> HIDE DEF n
    <3> QED  BY <1>1, <1>4, <3>1
  <2> QED  BY <2>1, <2>2
<1> QED  BY <1>1, <1>3, <1>4

\* A fiber without a native has no loop of a frame.
LEMMA NoNativeNoLoop ==
  ASSUME IInv, NEW c \in Contexts, ~OverNative(c), NEW l \in 2..Len(host), host[l].lc = c
  PROVE  host[l].home # c /\ OfFiber(host[l]) /\ c \in Fibers
<1>1. l \in 1..Len(host) /\ l # 1 /\ 1 \in 1..Len(host)
  BY HostFacts DEF IInv
<1>2. SUFFICES ASSUME host[l].home = c PROVE FALSE
  BY <1>1, LoopFacts
<1>3. /\ host[l].stop \in Nat \ {0} /\ host[l].stop <= Len(ctx[c].ci)
      /\ ctx[c].ci[host[l].stop].cci = "skip" /\ Len(ctx[c].ci) \in Nat
  BY <1>1, <1>2, LoopFacts, CiFacts DEF OfFrame, IInv
<1>4. host[l].stop = 1
  BY <1>3 DEF OverNative
<1>5. c = Root
  <2>1. ctx[c].ci # <<>>
    BY <1>3, CiFacts DEF IInv
  <2> QED  BY <1>3, <1>4, <2>1, Names DEF IInv, Lives
<1>6. host[1].lc = Root /\ host[1].home = Root /\ host[1].stop = 1
  BY <1>1, Alive, HostFacts DEF IInv
<1>7. 1 < l
  OBVIOUS
<1>8. host[1].stop < host[l].stop
  BY <1>1, <1>2, <1>5, <1>6, <1>7 DEF IInv, Looped, LoopsInOrder
<1> QED  BY <1>4, <1>6, <1>8

\* A context with one frame has no native over it.
LEMMA OneFrameNoNative ==
  ASSUME IInv, NEW c \in Contexts, Len(ctx[c].ci) <= 1
  PROVE  ~OverNative(c)
BY CiFacts DEF OverNative, IInv

\* The loop of a fiber a native resumed, as it ends or yields.
LEMMA FiberLoop ==
  ASSUME IInv, cur \in Fibers, ~OverNative(cur), ctx[cur].vmexec
  PROVE  /\ host # <<>> /\ Loop.lc = cur /\ Loop.home = ctx[cur].prev /\ OfFiber(Loop)
         /\ \A l \in 1..(Len(host) - 1) : host[l].lc # cur
         /\ ctx[cur].prev \in Contexts /\ ctx[cur].prev # cur
<1>1. cur \in Contexts /\ cur # Root
  BY Names
<1>2. PICK l \in 1..Len(host) : host[l].lc = cur /\ host[l].home # cur
  BY <1>1 DEF IInv, Looped, FramesMatch
<1>3. Loop = host[Len(host)] /\ Loop.lc = cur /\ Len(host) \in 1..Len(host) /\ host # <<>>
  BY <1>2, InnermostLoop, HostFacts DEF IInv
<1>4. host[1].lc = Root
  BY <1>3, Alive
<1>5. Len(host) \in 2..Len(host)
  BY <1>1, <1>3, <1>4, HostFacts DEF IInv
<1>6. Loop.home # cur /\ OfFiber(Loop)
  BY <1>1, <1>3, <1>5, NoNativeNoLoop
<1>7. Loop.home = ctx[cur].prev /\ Loop.home \in Contexts
  BY <1>3, <1>6, LoopFacts
<1>8. ASSUME NEW m \in 1..(Len(host) - 1), host[m].lc = cur PROVE FALSE
  <2>1. m \in 1..Len(host) /\ m < Len(host)
    BY HostFacts DEF IInv
  <2>2. Loop.home = Loop.lc
    BY <1>3, <1>8, <2>1 DEF IInv, Looped, LoopsInOrder
  <2> QED  BY <1>3, <1>6, <2>2
<1> QED  BY <1>3, <1>6, <1>7, <1>8

\* A fiber that no native resumed, and that has none of its own, has no loop.
LEMMA NoLoop ==
  ASSUME IInv, NEW c \in Contexts, ~OverNative(c), ~ctx[c].vmexec, NEW l \in 2..Len(host)
  PROVE  host[l].lc # c
<1>1. l \in 1..Len(host)
  BY HostFacts DEF IInv
<1> QED  BY <1>1, NoNativeNoLoop DEF OfFiber

---------------------------------------------------------------------------
(* The invariant implies the properties. *)

LEMMA InvType == IInv => TypeOK
<1> SUFFICES ASSUME IInv PROVE TypeOK
  OBVIOUS
<1>1. ASSUME NEW c \in Contexts
      PROVE  /\ ctx[c].status \in Statuses /\ ctx[c].prev \in Contexts \cup {None}
             /\ ctx[c].vmexec \in BOOLEAN /\ ctx[c].pending \in 0..MaxFrames
  BY DEF IInv, Typed, States
<1>2. ASSUME NEW f \in AllFrames
      PROVE  /\ f.id \in 1..MaxFrames /\ f.cci \in {"none", "skip"}
             /\ \A i \in 1..Len(f.nest) : f.nest[i].kind \in {"rescue", "ensure", "body"}
  <2>1. f \in Frames
    BY CiFacts DEF AllFrames, IInv
  <2> QED  BY <2>1, NestFacts, ItemFacts DEF FrameIds
<1>3. flight.kind \in {"nothing", "raise", "unwind", "native"} /\ cur \in Contexts
  BY FlightFacts DEF IInv, Typed
<1>4. ASSUME NEW c \in Fibers
      PROVE  /\ ctx[c].ci = <<>> <=> ctx[c].status \in {None, "created", "terminated"}
             /\ ctx[c].ci = <<>> => ctx[c].prev = None /\ ~ctx[c].vmexec
  BY DEF IInv, Lives
<1> QED  BY <1>1, <1>2, <1>3, <1>4 DEF TypeOK, Statuses

LEMMA InvOneRuns == IInv => OneContextRuns
BY ResumersAreTheChain DEF IInv, Chained, OneContextRuns

\* The native's frames and their loops are as many.
LEMMA InvLoops == IInv => LoopsHaveTheirFrames
<1> SUFFICES ASSUME IInv PROVE LoopsHaveTheirFrames
  OBVIOUS
<1> DEFINE L == {l \in 1..Len(host) : host[l].lc = host[l].home}
           f == [l \in L |-> ctx[host[l].lc].ci[host[l].stop]]
<1>1. ASSUME NEW l \in 1..Len(host)
      PROVE  \/ host[l].lc # host[l].home /\ ctx[host[l].lc].vmexec
             \/ host[l].lc = host[l].home /\ Len(ctx[host[l].lc].ci) >= host[l].stop
                /\ ctx[host[l].lc].ci[host[l].stop].cci = "skip"
  <2>1. /\ host[l].stop \in Nat /\ host[l].lc \in Contexts
        /\ host[l].lc # host[l].home => OfFiber(host[l])
        /\ host[l].lc = host[l].home => OfFrame(host[l])
    BY LoopFacts
  <2>2. Len(ctx[host[l].lc].ci) \in Nat
    BY <2>1, CiFacts DEF IInv
  <2> QED  BY <2>1, <2>2 DEF OfFiber, OfFrame
<1>2. ASSUME NEW l \in L
      PROVE  /\ host[l].lc \in Contexts /\ host[l].stop \in 1..Len(ctx[host[l].lc].ci)
             /\ f[l] = ctx[host[l].lc].ci[host[l].stop] /\ f[l] \in SkipFrames
  <2>1. /\ host[l].lc \in Contexts /\ host[l].stop \in Nat \ {0} /\ OfFrame(host[l])
    BY LoopFacts
  <2>2. Len(ctx[host[l].lc].ci) \in Nat
    BY <2>1, CiFacts DEF IInv
  <2>3. host[l].stop \in 1..Len(ctx[host[l].lc].ci) /\ ctx[host[l].lc].ci[host[l].stop].cci = "skip"
    BY <2>1, <2>2 DEF OfFrame
  <2>4. ctx[host[l].lc].ci[host[l].stop] \in SkipFrames
    BY <2>1, <2>3 DEF SkipFrames, AllFrames
  <2> QED  BY <2>1, <2>3, <2>4
<1>3. ASSUME NEW l \in L, NEW m \in L, f[l] = f[m] PROVE l = m
  <2>1. host[l].lc = host[m].lc /\ host[l].stop = host[m].stop
    <3> DEFINE c == host[l].lc
               d == host[m].lc
               i == host[l].stop
               j == host[m].stop
    <3>1. ctx[c].ci[i].id = ctx[d].ci[j].id
      BY <1>2, <1>3
    <3>2. /\ c \in Contexts /\ i \in 1..Len(ctx[c].ci)
          /\ d \in Contexts /\ j \in 1..Len(ctx[d].ci)
      BY <1>2
    <3> HIDE DEF c, d, i, j
    <3>3. c = d /\ i = j
      BY <3>1, <3>2 DEF IInv, Distinct
    <3> QED  BY <3>3 DEF c, d, i, j
  <2>2. host[l].stop \in Nat /\ host[l].home = host[l].lc /\ host[m].home = host[m].lc
    BY LoopFacts
  <2> HIDE DEF f
  <2>3. ~(l < m) /\ ~(m < l)
    BY <2>1, <2>2 DEF IInv, Looped, LoopsInOrder
  <2> QED  BY <2>3, HostFacts DEF IInv
<1>4. ASSUME NEW g \in SkipFrames PROVE \E l \in L : f[l] = g
  <2>0. PICK c \in Contexts : g \in {ctx[c].ci[j] : j \in 1..Len(ctx[c].ci)} /\ g.cci = "skip"
    BY DEF SkipFrames, AllFrames
  <2>1. PICK i \in 1..Len(ctx[c].ci) : g = ctx[c].ci[i] /\ g.cci = "skip"
    BY <2>0
  <2>2. PICK l \in 1..Len(host) : host[l].lc = c /\ host[l].home = c /\ host[l].stop = i
    BY <2>1 DEF IInv, Looped, FramesMatch
  <2> QED  BY <2>1, <2>2
<1>5. ExistsBijection(L, SkipFrames)
  <2>1. f \in [L -> SkipFrames]
    BY <1>2
  <2> HIDE DEF f, L
  <2>2. f \in Bijection(L, SkipFrames)
    BY <1>3, <1>4, <2>1 DEF Bijection, Injection, Surjection, IsInjective
  <2> QED  BY <2>2 DEF ExistsBijection
<1>6. IsFiniteSet(L)
  <2>1. IsFiniteSet(1..Len(host)) /\ L \in SUBSET (1..Len(host))
    BY HostFacts, FS_Interval DEF IInv
  <2> QED  BY <2>1, FS_Subset
<1>7. Cardinality(SkipFrames) = Cardinality(L)
  <2> HIDE DEF L
  <2> QED  BY <1>5, <1>6, FS_Bijection
<1> QED  BY <1>1, <1>7 DEF LoopsHaveTheirFrames

LEMMA InvAgree == IInv => ContextsAgree
BY InvType, InvOneRuns, InvLoops DEF ContextsAgree

LEMMA InvBreaks == IInv => BreaksKeepTheirTarget
<1> SUFFICES ASSUME IInv PROVE BreaksKeepTheirTarget
  OBVIOUS
<1>1. Aims(cur, flight) /\ (flight.kind = "native" => Aims(cur, flight.what))
  BY DEF IInv, Aimed
<1>2. ASSUME NEW c \in Contexts, NEW i \in 1..Len(ctx[c].ci), NEW n \in 1..Len(ctx[c].ci[i].nest),
             ctx[c].ci[i].nest[n].kind = "body"
      PROVE  Sound(c, i, n, ctx[c].ci[i].nest[n].then)
  BY <1>2 DEF IInv, Aimed
<1> QED  BY <1>1, <1>2 DEF BreaksKeepTheirTarget, Aims, Sound

---------------------------------------------------------------------------
(* The loops, at each kind of step. *)

LEMMA PrevNext ==
  ASSUME Typed'
  PROVE  /\ Prev' \in [Contexts -> Contexts \cup {None}] /\ cur' \in Contexts
         /\ \A c \in Contexts : Prev'[c] = ctx'[c].prev
         /\ cur' \in Chain(Prev', cur') /\ Chain(Prev', cur') \subseteq Contexts
<1>1. \A c \in Contexts : ctx'[c].prev \in Contexts \cup {None}
  BY DEF Typed, States
<1>2. cur' \in Contexts
  BY DEF Typed
<1> QED  BY <1>1, <1>2, ChainSelf DEF Prev

LEMMA CiNext ==
  ASSUME Typed', NEW c \in Contexts
  PROVE  /\ ctx'[c].ci \in Seq(Frames) /\ Len(ctx'[c].ci) \in Nat
         /\ ctx'[c].ci # <<>> <=> Len(ctx'[c].ci) >= 1
         /\ \A i \in 1..Len(ctx'[c].ci) : ctx'[c].ci[i] \in Frames
<1>1. ctx'[c].ci \in Seq(Frames)
  BY DEF Typed, States
<1> QED  BY <1>1, TopFacts

SameLinks(c) == ctx'[c].prev = ctx[c].prev /\ ctx'[c].vmexec = ctx[c].vmexec

\* The first n frames of a context stay.
Keeps(c, n) ==
  /\ n <= Len(ctx'[c].ci)
  /\ \A i \in 1..n : ctx'[c].ci[i].id = ctx[c].ci[i].id /\ ctx'[c].ci[i].cci = ctx[c].ci[i].cci

LEMMA KeepsFewer ==
  ASSUME NEW c, NEW n \in Nat, NEW m \in Nat, Keeps(c, n), m <= n, Len(ctx'[c].ci) \in Nat
  PROVE  Keeps(c, m)
BY DEF Keeps

LEMMA KeepsAll ==
  ASSUME IInv, NEW c \in Contexts, ctx'[c].ci = ctx[c].ci
  PROVE  Keeps(c, Len(ctx[c].ci))
BY CiFacts DEF Keeps, IInv

\* What a loop needs to stay: the frames up to its own, or its fiber's links
\* and all the frames of its home.
Kept(lo) ==
  /\ lo.lc = lo.home => Keeps(lo.lc, lo.stop)
  /\ lo.lc # lo.home => SameLinks(lo.lc) /\ ctx'[lo.home].ci = ctx[lo.home].ci

LEMMA KeptMatches ==
  ASSUME IInv, Typed', NEW l \in 1..Len(host), NEW m, host'[m] = host[l], Kept(host[l])
  PROVE  OfFrame(host[m])' \/ OfFiber(host[m])'
<1> DEFINE lo == host[l]
           c == lo.lc
           n == lo.stop
<1>1. lo \in Loops /\ c \in Contexts /\ lo.home \in Contexts /\ n \in Nat \ {0}
  BY LoopFacts
<1>2. CASE c = lo.home
  <2>1. OfFrame(lo) /\ Keeps(c, n) /\ n \in 1..n /\ n - 1 \in Nat
    BY <1>1, <1>2, LoopFacts DEF Kept
  <2>2. /\ n <= Len(ctx'[c].ci) /\ ctx'[c].ci[n].cci = ctx[c].ci[n].cci
        /\ \A i \in 1..(n - 1) : ctx'[c].ci[i].id = ctx[c].ci[i].id
    <3> HIDE DEF n, c
    <3> QED  BY <1>1, <2>1 DEF Keeps
  <2>3. Len(ctx'[c].ci) \in Nat
    BY <1>1, CiNext
  <2>4. n - 1 <= Len(ctx'[c].ci)
    <3> HIDE DEF n, c
    <3> QED  BY <1>1, <2>2, <2>3
  <2>5. /\ ctx[c].ci[n].cci = "skip" /\ Len(lo.frames) = n - 1
        /\ \A i \in 1..(n - 1) : lo.frames[i] = ctx[c].ci[i].id
    BY <1>2, <2>1 DEF OfFrame, Found
  <2>6. OfFrame(host[m])'
    BY <1>2, <2>2, <2>4, <2>5 DEF OfFrame, Found
  <2> QED  BY <2>6
<1>3. CASE c # lo.home
  <2>1. OfFiber(lo) /\ SameLinks(c) /\ ctx'[lo.home].ci = ctx[lo.home].ci
    BY <1>3, LoopFacts DEF Kept
  <2>2. OfFiber(host[m])'
    BY <1>1, <1>3, <2>1, ZenonT(60) DEF OfFiber, Found, SameLinks
  <2> QED  BY <2>2
<1> QED  BY <1>2, <1>3

\* The native's frames there are were there.
NoNewNative(c) ==
  \A i \in 1..Len(ctx'[c].ci) : ctx'[c].ci[i].cci = "skip" =>
    i \in 1..Len(ctx[c].ci) /\ ctx[c].ci[i].cci = "skip"

\* The loop of a frame that stays in place, and the one of a fiber whose home
\* is not touched.
LEMMA LoopKept ==
  ASSUME IInv, Typed', NEW l \in 1..Len(host),
         \A c \in Contexts : c # cur => ctx'[c].ci = ctx[c].ci,
         host[l].lc # host[l].home => SameLinks(host[l].lc),
         host[l].lc = cur /\ host[l].home = cur => Keeps(cur, host[l].stop)
  PROVE  Kept(host[l])
<1> DEFINE lo == host[l]
           c == lo.lc
           n == lo.stop
<1>1. lo \in Loops /\ c \in Contexts /\ lo.home \in Contexts /\ n \in Nat \ {0}
  BY LoopFacts
<1>2. ASSUME c = lo.home PROVE Keeps(c, n)
  <2>1. CASE c = cur
    BY <1>2, <2>1
  <2>2. CASE c # cur
    <3>1. Keeps(c, Len(ctx[c].ci))
      BY <1>1, <2>2, KeepsAll
    <3>2. OfFrame(lo)
      BY <1>2, LoopFacts
    <3>3. n <= Len(ctx[c].ci) /\ Len(ctx[c].ci) \in Nat /\ Len(ctx'[c].ci) \in Nat
      BY <1>1, <3>2, CiFacts, CiNext DEF OfFrame, IInv
    <3> HIDE DEF c, n
    <3> QED  BY <1>1, <3>1, <3>3, KeepsFewer
  <2> QED  BY <2>1, <2>2
<1>3. ASSUME c # lo.home PROVE SameLinks(c) /\ ctx'[lo.home].ci = ctx[lo.home].ci
  <2>1. lo.home # cur
    BY <1>3, LoopFacts
  <2> QED  BY <1>1, <1>3, <2>1
<1> QED  BY <1>2, <1>3 DEF Kept

\* A step in which no loop ends or begins.
LEMMA LoopsStay ==
  ASSUME IInv, Typed', cur' = cur, host' = host,
         \A c \in Contexts : SameLinks(c) /\ NoNewNative(c) /\ (c # cur => ctx'[c].ci = ctx[c].ci),
         \A i \in 1..Len(ctx[cur].ci) : ctx[cur].ci[i].cci = "skip" => Keeps(cur, i)
  PROVE  Looped'
<1>1. Prev' = Prev
  BY DEF Prev, SameLinks
<1>2. LoopsMatch'
  <2> SUFFICES ASSUME NEW l \in 1..Len(host) PROVE (OfFrame(host[l]) \/ OfFiber(host[l]))'
    BY DEF LoopsMatch
  <2>1. host[l].lc \in Contexts /\ host[l].stop \in Nat \ {0}
    BY LoopFacts
  <2>2. ASSUME host[l].lc = cur, host[l].home = cur PROVE Keeps(cur, host[l].stop)
    <3>1. OfFrame(host[l])
      BY <2>2, LoopFacts
    <3>2. host[l].stop \in 1..Len(ctx[cur].ci) /\ ctx[cur].ci[host[l].stop].cci = "skip"
      BY <2>1, <2>2, <3>1, CiFacts DEF OfFrame, IInv
    <3> QED  BY <3>2
  <2>3. Kept(host[l])
    BY <2>1, <2>2, LoopKept
  <2> QED  BY <2>3, KeptMatches
<1>3. FramesMatch'
  <2> SUFFICES ASSUME NEW c \in Contexts
               PROVE  /\ \A i \in 1..Len(ctx'[c].ci) : ctx'[c].ci[i].cci = "skip" =>
                           \E l \in 1..Len(host) : host[l].lc = c /\ host[l].home = c /\ host[l].stop = i
                      /\ ctx'[c].vmexec => \E l \in 1..Len(host) : host[l].lc = c /\ host[l].home # c
    BY DEF FramesMatch
  <2>1. ctx'[c].vmexec = ctx[c].vmexec /\ NoNewNative(c)
    BY DEF SameLinks
  <2> QED  BY <2>1 DEF IInv, Looped, FramesMatch, NoNewNative
<1>4. LoopsInOrder'
  BY <1>1 DEF IInv, Looped, LoopsInOrder
<1> QED  BY <1>2, <1>3, <1>4 DEF Looped

\* A loop begins for a native's frame.
LEMMA LoopBegins ==
  ASSUME IInv, Typed', cur' = cur, NEW lo \in Loops,
         \A c \in Contexts : SameLinks(c) /\ (c # cur => ctx'[c].ci = ctx[c].ci),
         Keeps(cur, Len(ctx[cur].ci)), OfFrame(lo)', lo.lc = cur, lo.home = cur, Len(ctx[cur].ci) < lo.stop,
         \A i \in 1..Len(ctx'[cur].ci) : i \in 1..Len(ctx[cur].ci) \/ i = lo.stop,
         Len(host') = Len(host) + 1, \A l \in 1..Len(host) : host'[l] = host[l],
         host'[Len(host) + 1] = lo
  PROVE  Looped'
<1> DEFINE h == Len(host) + 1
           n == Len(ctx[cur].ci)
<1>0. /\ Prev' = Prev /\ cur \in Contexts /\ Len(host) \in Nat
      /\ n \in Nat /\ Len(ctx'[cur].ci) \in Nat
  BY PrevFacts, HostFacts, CiFacts, CiNext DEF Prev, SameLinks, IInv
<1>1. \A l \in 1..Len(host') : l \in 1..Len(host) \/ l = h
  BY <1>0
<1>5. ASSUME NEW l \in 1..Len(host), host[l].lc = cur, host[l].home = cur
      PROVE  host[l].stop <= n /\ host[l].stop \in Nat
  BY <1>5, LoopFacts DEF OfFrame
<1>2. LoopsMatch'
  <2> SUFFICES ASSUME NEW l \in 1..Len(host') PROVE (OfFrame(host[l]) \/ OfFiber(host[l]))'
    BY DEF LoopsMatch
  <2>1. CASE l \in 1..Len(host)
    <3>1. ASSUME host[l].lc = cur, host[l].home = cur PROVE Keeps(cur, host[l].stop)
      <4>1. host[l].stop <= n /\ host[l].stop \in Nat
        BY <1>5, <2>1, <3>1
      <4>2. Keeps(cur, n)
        OBVIOUS
      <4> HIDE DEF n
      <4> QED  BY <1>0, <4>1, <4>2, KeepsFewer
    <3>2. Kept(host[l])
      BY <2>1, <3>1, LoopKept, LoopFacts
    <3> QED  BY <2>1, <3>2, KeptMatches
  <2>3. CASE l = h
    <3>1. host'[l] = lo
      BY <2>3
    <3>2. OfFrame(host[l])'
      BY <3>1 DEF OfFrame, Found
    <3> QED  BY <3>2
  <2> QED  BY <1>1, <2>1, <2>3
<1>3. FramesMatch'
  <2> SUFFICES ASSUME NEW c \in Contexts
               PROVE  /\ \A i \in 1..Len(ctx'[c].ci) : ctx'[c].ci[i].cci = "skip" =>
                           \E l \in 1..Len(host') : host'[l].lc = c /\ host'[l].home = c /\ host'[l].stop = i
                      /\ ctx'[c].vmexec => \E l \in 1..Len(host') : host'[l].lc = c /\ host'[l].home # c
    BY DEF FramesMatch
  <2>0. h \in 1..Len(host') /\ host'[h] = lo /\ \A l \in 1..Len(host) : l \in 1..Len(host') /\ host'[l] = host[l]
    BY <1>0
  <2> HIDE DEF h
  <2>1. ASSUME NEW i \in 1..Len(ctx'[c].ci), ctx'[c].ci[i].cci = "skip"
        PROVE  \E l \in 1..Len(host') : host'[l].lc = c /\ host'[l].home = c /\ host'[l].stop = i
    <3>1. CASE c = cur /\ i = lo.stop
      BY <2>0, <3>1
    <3>2. CASE ~(c = cur /\ i = lo.stop)
      <4>0. i \in 1..Len(ctx[c].ci)
        BY <2>1, <3>2
      <4>1. ctx[c].ci[i].cci = "skip"
        <5>1. CASE c = cur
          BY <2>1, <4>0, <5>1 DEF Keeps
        <5>2. CASE c # cur
          BY <2>1, <5>2
        <5> QED  BY <5>1, <5>2
      <4>2. \E l \in 1..Len(host) : host[l].lc = c /\ host[l].home = c /\ host[l].stop = i
        BY <4>0, <4>1 DEF IInv, Looped, FramesMatch
      <4> QED  BY <2>0, <4>2
    <3> QED  BY <3>1, <3>2
  <2>2. ASSUME ctx'[c].vmexec PROVE \E l \in 1..Len(host') : host'[l].lc = c /\ host'[l].home # c
    <3>1. ctx[c].vmexec
      BY <2>2 DEF SameLinks
    <3>2. \E l \in 1..Len(host) : host[l].lc = c /\ host[l].home # c
      BY <3>1 DEF IInv, Looped, FramesMatch
    <3> QED  BY <2>0, <3>2
  <2> QED  BY <2>1, <2>2
<1>4. LoopsInOrder'
  <2>1. host'[1].lc = Root
    <3>1. CASE host = <<>>
      <4>1. Len(host) = 0 /\ cur = Root
        BY <3>1, HostFacts DEF IInv, Chained
      <4> QED  BY <4>1
    <3>2. CASE host # <<>>
      BY <3>2, HostFacts, Alive DEF IInv
    <3> QED  BY <3>1, <3>2
  <2>2. ASSUME NEW l \in 2..Len(host') PROVE host'[l].lc \in Chain(Prev', cur')
    <3>1. CASE l \in 1..Len(host)
      BY <1>0, <3>1, LoopFacts
    <3>2. CASE l = h
      BY <1>0, <3>2, PrevFacts DEF IInv
    <3> QED  BY <1>0, <3>1, <3>2
  <2>3. ASSUME NEW l \in 1..Len(host'), NEW m \in 1..Len(host'), l < m
        PROVE  /\ l # 1 => host'[l].lc \in Chain(Prev', host'[m].lc)
               /\ host'[l].lc = host'[m].lc =>
                    /\ host'[m].home = host'[m].lc
                    /\ host'[l].home = host'[l].lc => host'[l].stop < host'[m].stop
    <3>1. CASE m \in 1..Len(host)
      <4>1. l \in 1..Len(host) /\ host'[l] = host[l] /\ host'[m] = host[m]
        BY <1>0, <2>3, <3>1
      <4> QED  BY <1>0, <2>3, <3>1, <4>1 DEF IInv, Looped, LoopsInOrder
    <3>2. CASE m = h
      <4>1. l \in 1..Len(host) /\ host'[l] = host[l] /\ host'[m] = lo
        BY <1>0, <2>3, <3>2
      <4>2. l # 1 => host[l].lc \in Chain(Prev, cur)
        BY <4>1, LoopFacts
      <4>3. ASSUME host[l].lc = cur, host[l].home = host[l].lc PROVE host[l].stop < lo.stop
        <5>1. host[l].stop <= n /\ host[l].stop \in Nat /\ lo.stop \in Nat /\ n < lo.stop
          BY <1>5, <4>1, <4>3 DEF Loops
        <5> HIDE DEF n
        <5> QED  BY <1>0, <5>1
      <4> QED  BY <1>0, <4>1, <4>2, <4>3
    <3> QED  BY <1>1, <3>1, <3>2
  <2> QED  BY <2>1, <2>2, <2>3 DEF LoopsInOrder
<1> QED  BY <1>2, <1>3, <1>4 DEF Looped

\* The innermost loop ends with its native's frame.
LEMMA LoopEnds ==
  ASSUME IInv, Typed', cur' = cur, host # <<>>, Top.cci = "skip",
         \A c \in Contexts : SameLinks(c) /\ (c # cur => ctx'[c].ci = ctx[c].ci),
         Len(ctx'[cur].ci) = Len(ctx[cur].ci) - 1, Keeps(cur, Len(ctx[cur].ci) - 1),
         Len(host') = Len(host) - 1, \A l \in 1..(Len(host) - 1) : host'[l] = host[l]
  PROVE  Looped'
<1> DEFINE n == Len(ctx[cur].ci)
<1>0. /\ Prev' = Prev /\ cur \in Contexts /\ Len(host) \in Nat /\ Len(host) \in 1..Len(host)
      /\ Loop = host[Len(host)]
      /\ n \in Nat /\ n >= 1 /\ Len(ctx'[cur].ci) \in Nat
      /\ Loop.lc = cur /\ Loop.home = cur /\ Loop.stop = n
  BY PrevFacts, HostFacts, CiFacts, CiNext, TopIsTheLoops DEF Prev, SameLinks, IInv
<1>1. \A l \in 1..Len(host') : l \in 1..Len(host) /\ l < Len(host) /\ host'[l] = host[l]
  BY <1>0
<1>2. LoopsMatch'
  <2> SUFFICES ASSUME NEW l \in 1..Len(host') PROVE (OfFrame(host[l]) \/ OfFiber(host[l]))'
    BY DEF LoopsMatch
  <2>0. l \in 1..Len(host) /\ l < Len(host) /\ host'[l] = host[l]
    BY <1>1
  <2>1. ASSUME host[l].lc = cur, host[l].home = cur PROVE Keeps(cur, host[l].stop)
    <3>1. host[l].stop < n /\ host[l].stop \in Nat
      BY <1>0, <2>0, <2>1, LoopFacts DEF IInv, Looped, LoopsInOrder
    <3>2. Keeps(cur, n - 1)
      OBVIOUS
    <3> HIDE DEF n
    <3>3. n - 1 \in Nat /\ host[l].stop <= n - 1
      BY <1>0, <3>1
    <3> QED  BY <1>0, <3>1, <3>2, <3>3, KeepsFewer
  <2>2. Kept(host[l])
    BY <2>0, <2>1, LoopKept, LoopFacts
  <2> QED  BY <2>0, <2>2, KeptMatches
<1>3. FramesMatch'
  <2> SUFFICES ASSUME NEW c \in Contexts
               PROVE  /\ \A i \in 1..Len(ctx'[c].ci) : ctx'[c].ci[i].cci = "skip" =>
                           \E l \in 1..Len(host') : host'[l].lc = c /\ host'[l].home = c /\ host'[l].stop = i
                      /\ ctx'[c].vmexec => \E l \in 1..Len(host') : host'[l].lc = c /\ host'[l].home # c
    BY DEF FramesMatch
  <2>0. \A l \in 1..Len(host) : l # Len(host) => l \in 1..Len(host') /\ host'[l] = host[l]
    BY <1>0
  <2>1. ASSUME NEW i \in 1..Len(ctx'[c].ci), ctx'[c].ci[i].cci = "skip"
        PROVE  \E l \in 1..Len(host') : host'[l].lc = c /\ host'[l].home = c /\ host'[l].stop = i
    <3>1. i \in 1..Len(ctx[c].ci) /\ ctx[c].ci[i].cci = "skip" /\ (c = cur => i # n)
      <4>1. CASE c = cur
        <5>1. i \in 1..(n - 1)
          BY <2>1, <4>1
        <5>2. ctx[cur].ci[i].cci = "skip"
          BY <2>1, <4>1, <5>1 DEF Keeps
        <5>3. i \in 1..n /\ i # n
          <6> HIDE DEF n
          <6> QED  BY <1>0, <5>1
        <5> QED  BY <4>1, <5>2, <5>3
      <4>2. CASE c # cur
        BY <2>1, <4>2
      <4> QED  BY <4>1, <4>2
    <3>2. PICK l \in 1..Len(host) : host[l].lc = c /\ host[l].home = c /\ host[l].stop = i
      BY <3>1 DEF IInv, Looped, FramesMatch
    <3>3. l # Len(host)
      BY <1>0, <3>1, <3>2
    <3> QED  BY <2>0, <3>2, <3>3
  <2>2. ASSUME ctx'[c].vmexec PROVE \E l \in 1..Len(host') : host'[l].lc = c /\ host'[l].home # c
    <3>1. ctx[c].vmexec
      BY <2>2 DEF SameLinks
    <3>2. PICK l \in 1..Len(host) : host[l].lc = c /\ host[l].home # c
      BY <3>1 DEF IInv, Looped, FramesMatch
    <3>3. l # Len(host)
      BY <1>0, <3>2
    <3> QED  BY <2>0, <3>2, <3>3
  <2> QED  BY <2>1, <2>2
<1>4. LoopsInOrder'
  <2>1. host' # <<>> => host'[1].lc = Root
    <3>1. host' # <<>> => 1 \in 1..Len(host')
      BY TopFacts DEF Typed
    <3> QED  BY <1>1, <3>1, Alive
  <2>2. ASSUME NEW l \in 2..Len(host') PROVE host'[l].lc \in Chain(Prev', cur')
    <3>1. l \in 1..Len(host') /\ l # 1
      BY <1>0
    <3> QED  BY <1>0, <1>1, <3>1, LoopFacts
  <2>3. ASSUME NEW l \in 1..Len(host'), NEW m \in 1..Len(host'), l < m
        PROVE  /\ l # 1 => host'[l].lc \in Chain(Prev', host'[m].lc)
               /\ host'[l].lc = host'[m].lc =>
                    /\ host'[m].home = host'[m].lc
                    /\ host'[l].home = host'[l].lc => host'[l].stop < host'[m].stop
    <3>1. /\ l \in 1..Len(host) /\ host'[l] = host[l]
          /\ m \in 1..Len(host) /\ host'[m] = host[m]
      BY <1>1
    <3> QED  BY <1>0, <2>3, <3>1 DEF IInv, Looped, LoopsInOrder
  <2> QED  BY <2>1, <2>2, <2>3 DEF LoopsInOrder
<1> QED  BY <1>2, <1>3, <1>4 DEF Looped

\* Where the running fiber goes back to, and the chain from there.
LEMMA ChainBack ==
  ASSUME IInv, cur \in Fibers, NEW r \in Contexts,
         IF ctx[cur].prev = None THEN r = Root ELSE r = ctx[cur].prev
  PROVE  /\ r # cur /\ cur \notin Chain(Prev, r)
         /\ ctx[cur].prev # None => Chain(Prev, cur) = {cur} \cup Chain(Prev, r)
         /\ ctx[cur].prev = None => Chain(Prev, cur) = {cur} /\ Chain(Prev, r) = {Root}
<1>1. /\ Prev \in [Contexts -> Contexts \cup {None}] /\ cur \in Contexts /\ cur # Root /\ Root \in Contexts
      /\ Prev[cur] = ctx[cur].prev /\ cur \in Chain(Prev, cur)
  BY PrevFacts, Names DEF IInv
<1>2. CASE ctx[cur].prev = None
  <2>1. Chain(Prev, cur) = {cur} /\ Chain(Prev, Root) = {Root}
    BY <1>1, <1>2, ChainEnd
  <2> QED  BY <1>1, <1>2, <2>1
<1>3. CASE ctx[cur].prev # None
  <2>1. Chain(Prev, cur) = {cur} \cup Chain(Prev, r)
    BY <1>1, <1>3, ChainStep
  <2>2. cur \notin Chain(Prev, r)
    BY <1>1, <1>3 DEF IInv, Chained
  <2>3. r \in Chain(Prev, r)
    BY ChainSelf
  <2> QED  BY <1>3, <2>1, <2>2, <2>3
<1> QED  BY <1>2, <1>3

\* The chain after the running fiber has let go.
LEMMA ChainLeft ==
  ASSUME IInv, Typed', cur \in Fibers, NEW r \in Contexts,
         IF ctx[cur].prev = None THEN r = Root ELSE r = ctx[cur].prev,
         \A c \in Contexts : c # cur => ctx'[c].prev = ctx[c].prev
  PROVE  \A c \in Chain(Prev, r) : Chain(Prev', c) = Chain(Prev, c)
<1> SUFFICES ASSUME NEW c \in Chain(Prev, r) PROVE Chain(Prev', c) = Chain(Prev, c)
  OBVIOUS
<1>1. /\ Prev \in [Contexts -> Contexts \cup {None}] /\ Prev' \in [Contexts -> Contexts \cup {None}]
      /\ \A d \in Contexts : Prev[d] = ctx[d].prev /\ Prev'[d] = ctx'[d].prev
  BY PrevFacts, PrevNext DEF IInv
<1>2. Chain(Prev, c) \subseteq Chain(Prev, r) /\ Chain(Prev, r) \subseteq Contexts
  BY <1>1, ChainTrans, ChainSelf
<1>3. cur \notin Chain(Prev, r)
  BY ChainBack
<1>4. \A d \in Chain(Prev, c) : Prev'[d] = Prev[d]
  BY <1>1, <1>2, <1>3
<1> QED  BY <1>1, <1>2, <1>4, ChainLocal

\* The running fiber ends or yields, with the loop it was resumed in.
LEMMA LoopsLeft ==
  ASSUME IInv, Typed', cur \in Fibers, ~OverNative(cur), cur' \in Contexts,
         IF ctx[cur].prev = None THEN cur' = Root ELSE cur' = ctx[cur].prev,
         \A c \in Contexts : c # cur => SameLinks(c) /\ ctx'[c].ci = ctx[c].ci,
         ~ctx'[cur].vmexec, ctx'[cur].ci = ctx[cur].ci \/ ctx'[cur].ci = <<>>,
         host # <<>>,
         Len(host') = IF ctx[cur].vmexec THEN Len(host) - 1 ELSE Len(host),
         \A l \in 1..Len(host') : host'[l] = host[l]
  PROVE  Looped'
<1>0. /\ cur \in Contexts /\ Len(host) \in Nat /\ Len(host) >= 1 /\ Len(host') \in Nat
      /\ cur # Root /\ host[1].lc = Root
  BY Names, HostFacts, Alive DEF IInv
<1>1. \A l \in 1..Len(host') : l \in 1..Len(host) /\ host'[l] = host[l] /\ host[l].lc # cur
  <2>1. CASE ctx[cur].vmexec
    BY <1>0, <2>1, FiberLoop
  <2>2. CASE ~ctx[cur].vmexec
    BY <1>0, <2>2, NoLoop
  <2> QED  BY <2>1, <2>2
<1>2. /\ Chain(Prev, cur) = {cur} \cup Chain(Prev, cur') \/ Chain(Prev, cur) = {cur}
      /\ cur \notin Chain(Prev, cur')
      /\ \A c \in Chain(Prev, cur') : Chain(Prev', c) = Chain(Prev, c)
      /\ cur' \in Chain(Prev, cur')
  <2>1. \A c \in Contexts : c # cur => ctx'[c].prev = ctx[c].prev
    BY DEF SameLinks
  <2>2. \A c \in Chain(Prev, cur') : Chain(Prev', c) = Chain(Prev, c)
    BY <2>1, ChainLeft
  <2>3. /\ Chain(Prev, cur) = {cur} \cup Chain(Prev, cur') \/ Chain(Prev, cur) = {cur}
        /\ cur \notin Chain(Prev, cur')
    BY ChainBack
  <2> QED  BY <2>2, <2>3, ChainSelf
<1>3. \A l \in 1..Len(host') : l # 1 => host[l].lc \in Chain(Prev, cur')
  BY <1>1, <1>2, LoopFacts
<1>4. LoopsMatch'
  <2> SUFFICES ASSUME NEW l \in 1..Len(host') PROVE (OfFrame(host[l]) \/ OfFiber(host[l]))'
    BY DEF LoopsMatch
  <2>1. l \in 1..Len(host) /\ host'[l] = host[l] /\ host[l].lc # cur /\ host[l].lc \in Contexts
    BY <1>1, LoopFacts
  <2>2. Kept(host[l])
    BY <2>1, LoopKept
  <2> QED  BY <2>1, <2>2, KeptMatches
<1>5. FramesMatch'
  <2> SUFFICES ASSUME NEW c \in Contexts
               PROVE  /\ \A i \in 1..Len(ctx'[c].ci) : ctx'[c].ci[i].cci = "skip" =>
                           \E l \in 1..Len(host') : host'[l].lc = c /\ host'[l].home = c /\ host'[l].stop = i
                      /\ ctx'[c].vmexec => \E l \in 1..Len(host') : host'[l].lc = c /\ host'[l].home # c
    BY DEF FramesMatch
  <2>1. CASE c = cur
    <3>1. ~\E i \in 1..Len(ctx[cur].ci) : ctx[cur].ci[i].cci = "skip"
      <4>1. SUFFICES ASSUME NEW i \in 1..Len(ctx[cur].ci), ctx[cur].ci[i].cci = "skip" PROVE FALSE
        OBVIOUS
      <4>2. i = 1
        BY <1>0, <4>1, CiFacts DEF OverNative, IInv
      <4>3. ctx[cur].ci # <<>>
        BY <1>0, CiFacts DEF IInv
      <4> QED  BY <4>1, <4>2, <4>3 DEF IInv, Lives
    <3>2. CASE ctx'[cur].ci = ctx[cur].ci
      BY <2>1, <3>1, <3>2
    <3>3. CASE ctx'[cur].ci = <<>>
      BY <2>1, <3>3
    <3> QED  BY <2>1, <3>2, <3>3
  <2>2. CASE c # cur
    <3>1. ctx'[c].ci = ctx[c].ci /\ ctx'[c].vmexec = ctx[c].vmexec
      BY <2>2 DEF SameLinks
    <3>2. \A l \in 1..Len(host) : host[l].lc = c => l \in 1..Len(host')
      <4>1. CASE ctx[cur].vmexec
        <5>1. host[Len(host)].lc = cur
          BY <4>1, FiberLoop, HostFacts DEF IInv
        <5> QED  BY <1>0, <2>2, <4>1, <5>1
      <4>2. CASE ~ctx[cur].vmexec
        BY <4>2
      <4> QED  BY <4>1, <4>2
    <3>3. \A l \in 1..Len(host) : host[l].lc = c => l \in 1..Len(host') /\ host'[l] = host[l]
      BY <3>2
    <3> QED  BY <3>1, <3>3 DEF IInv, Looped, FramesMatch
  <2> QED  BY <2>1, <2>2
<1>6. LoopsInOrder'
  <2>1. host' # <<>> => host'[1].lc = Root
    <3>1. host' # <<>> => 1 \in 1..Len(host')
      BY TopFacts DEF Typed
    <3> QED  BY <1>0, <1>1, <3>1
  <2>2. ASSUME NEW l \in 2..Len(host') PROVE host'[l].lc \in Chain(Prev', cur')
    <3>1. l \in 1..Len(host') /\ l # 1
      BY <1>0
    <3> QED  BY <1>1, <1>2, <1>3, <3>1
  <2>3. ASSUME NEW l \in 1..Len(host'), NEW m \in 1..Len(host'), l < m
        PROVE  /\ l # 1 => host'[l].lc \in Chain(Prev', host'[m].lc)
               /\ host'[l].lc = host'[m].lc =>
                    /\ host'[m].home = host'[m].lc
                    /\ host'[l].home = host'[l].lc => host'[l].stop < host'[m].stop
    <3>1. /\ l \in 1..Len(host) /\ host'[l] = host[l]
          /\ m \in 1..Len(host) /\ host'[m] = host[m]
      BY <1>1
    <3>2. m # 1
      BY <2>3
    <3>3. Chain(Prev', host[m].lc) = Chain(Prev, host[m].lc)
      BY <1>2, <1>3, <3>2
    <3> QED  BY <2>3, <3>1, <3>3 DEF IInv, Looped, LoopsInOrder
  <2> QED  BY <2>1, <2>2, <2>3 DEF LoopsInOrder
<1> QED  BY <1>4, <1>5, <1>6 DEF Looped

\* Contexts out of the chain have no loops, and no native resumed them.
LEMMA OutOfTheChain ==
  ASSUME IInv, NEW c \in Contexts, c \notin Chain(Prev, cur)
  PROVE  /\ ~ctx[c].vmexec
         /\ \A l \in 1..Len(host) : host[l].lc = c => l = 1 /\ c = Root
         /\ \A l \in 1..Len(host) : host[l].home = c => l = 1 /\ c = Root
<1>1. ASSUME NEW l \in 1..Len(host), host[l].lc = c PROVE l = 1 /\ c = Root
  BY <1>1, LoopFacts, HostFacts DEF IInv, Looped, LoopsInOrder
<1>2. ASSUME NEW l \in 1..Len(host), host[l].home = c PROVE l = 1 /\ c = Root
  BY <1>1, <1>2, LoopFacts
<1>3. ~ctx[c].vmexec
  <2>1. SUFFICES ASSUME ctx[c].vmexec PROVE FALSE
    OBVIOUS
  <2>2. PICK l \in 1..Len(host) : host[l].lc = c
    BY <2>1 DEF IInv, Looped, FramesMatch
  <2>3. c = Root
    BY <1>1, <2>2
  <2> QED  BY <2>1, <2>3 DEF IInv, Lives
<1> QED  BY <1>1, <1>2, <1>3

\* A context is resumed: the chain grows by one.
LEMMA ChainGrows ==
  ASSUME IInv, Typed', NEW c \in Fibers, c \notin Chain(Prev, cur), ctx'[c].prev = cur,
         \A d \in Contexts : d # c => ctx'[d].prev = ctx[d].prev
  PROVE  /\ Chain(Prev', c) = {c} \cup Chain(Prev, cur)
         /\ \A d \in Chain(Prev, cur) : Chain(Prev', d) = Chain(Prev, d)
<1>1. /\ Prev \in [Contexts -> Contexts \cup {None}] /\ Prev' \in [Contexts -> Contexts \cup {None}]
      /\ \A d \in Contexts : Prev[d] = ctx[d].prev /\ Prev'[d] = ctx'[d].prev
      /\ cur \in Contexts /\ c \in Contexts /\ c # Root /\ None \notin Contexts
      /\ cur \in Chain(Prev, cur) /\ Chain(Prev, cur) \subseteq Contexts
  BY PrevFacts, PrevNext, Names DEF IInv
<1>2. ASSUME NEW d \in Chain(Prev, cur) PROVE Chain(Prev', d) = Chain(Prev, d)
  <2>1. Chain(Prev, d) \subseteq Chain(Prev, cur) /\ d \in Contexts
    BY <1>1, ChainTrans
  <2>2. \A e \in Chain(Prev, d) : Prev'[e] = Prev[e]
    BY <1>1, <2>1
  <2> QED  BY <1>1, <2>1, <2>2, ChainLocal
<1>3. Chain(Prev', c) = {c} \cup Chain(Prev', cur)
  BY <1>1, ChainStep
<1> QED  BY <1>1, <1>2, <1>3

\* A fiber is resumed, in a loop of its own if a native does.
LEMMA LoopsEnter ==
  ASSUME IInv, Typed', NEW c \in Fibers, c \notin Chain(Prev, cur), cur' = c, host # <<>>,
         ctx'[c].prev = cur, NEW vm \in BOOLEAN, ctx'[c].vmexec = vm, NoNewNative(c),
         \A d \in Contexts : d # c => SameLinks(d) /\ ctx'[d].ci = ctx[d].ci,
         NEW lo \in Loops, lo.lc = c, lo.stop = 1, lo.home = cur,
         Len(lo.frames) = Len(ctx[cur].ci),
         \A i \in 1..Len(ctx[cur].ci) : lo.frames[i] = ctx[cur].ci[i].id,
         Len(host') = IF vm THEN Len(host) + 1 ELSE Len(host),
         \A l \in 1..Len(host) : host'[l] = host[l],
         vm => host'[Len(host) + 1] = lo
  PROVE  Looped'
<1> DEFINE h == Len(host) + 1
<1>0. /\ cur \in Contexts /\ c \in Contexts /\ Len(host) \in Nat /\ Len(host) >= 1 /\ c # cur
      /\ cur \in Chain(Prev, cur) /\ Len(ctx[cur].ci) \in Nat /\ host[1].lc = Root /\ c # Root
  BY Names, HostFacts, Alive, PrevFacts, CiFacts DEF IInv
<1>1. \A l \in 1..Len(host') : l \in 1..Len(host) \/ (l = h /\ vm)
  BY <1>0
<1>2. \A l \in 1..Len(host) : host[l].lc # c /\ host[l].home # c
  BY <1>0, OutOfTheChain
<1>3. /\ Chain(Prev', c) = {c} \cup Chain(Prev, cur)
      /\ \A d \in Chain(Prev, cur) : Chain(Prev', d) = Chain(Prev, d)
  <2>1. \A d \in Contexts : d # c => ctx'[d].prev = ctx[d].prev
    BY DEF SameLinks
  <2> QED  BY <2>1, ChainGrows
<1>4. LoopsMatch'
  <2> SUFFICES ASSUME NEW l \in 1..Len(host') PROVE (OfFrame(host[l]) \/ OfFiber(host[l]))'
    BY DEF LoopsMatch
  <2>1. CASE l \in 1..Len(host)
    <3>1. host'[l] = host[l] /\ host[l].lc \in Contexts /\ host[l].lc # c /\ host[l].home # c
          /\ host[l].home \in Contexts /\ host[l].stop \in Nat \ {0}
      BY <1>2, <2>1, LoopFacts
    <3>2. ASSUME host[l].lc = host[l].home PROVE Keeps(host[l].lc, host[l].stop)
      <4>1. Keeps(host[l].lc, Len(ctx[host[l].lc].ci))
        BY <3>1, KeepsAll
      <4>2. OfFrame(host[l]) /\ Len(ctx[host[l].lc].ci) \in Nat /\ Len(ctx'[host[l].lc].ci) \in Nat
        BY <2>1, <3>1, <3>2, LoopFacts, CiFacts, CiNext DEF IInv
      <4>3. host[l].stop <= Len(ctx[host[l].lc].ci)
        BY <4>2 DEF OfFrame
      <4> QED  BY <3>1, <4>1, <4>2, <4>3, KeepsFewer
    <3>3. Kept(host[l])
      BY <3>1, <3>2 DEF Kept
    <3> QED  BY <2>1, <3>1, <3>3, KeptMatches
  <2>2. CASE l = h /\ vm
    <3>1. host'[l] = lo /\ ctx'[cur].ci = ctx[cur].ci
      BY <1>0, <2>2
    <3>2. /\ lo.lc # lo.home /\ ctx'[lo.lc].vmexec /\ lo.stop = 1 /\ lo.home = ctx'[lo.lc].prev
      BY <1>0, <2>2, <3>1
    <3>5. Len(lo.frames) = Len(ctx'[lo.home].ci)
      BY <3>1
    <3>6. Len(ctx'[lo.home].ci) <= Len(ctx'[lo.home].ci)
      BY <1>0, <3>1
    <3>4. \A i \in 1..Len(ctx'[lo.home].ci) : lo.frames[i] = ctx'[lo.home].ci[i].id
      BY <3>1
    <3>3. OfFiber(host[l])'
      BY <3>1, <3>2, <3>4, <3>5, <3>6 DEF OfFiber, Found
    <3> QED  BY <3>3
  <2> QED  BY <1>1, <2>1, <2>2
<1>5. FramesMatch'
  <2> SUFFICES ASSUME NEW d \in Contexts
               PROVE  /\ \A i \in 1..Len(ctx'[d].ci) : ctx'[d].ci[i].cci = "skip" =>
                           \E l \in 1..Len(host') : host'[l].lc = d /\ host'[l].home = d /\ host'[l].stop = i
                      /\ ctx'[d].vmexec => \E l \in 1..Len(host') : host'[l].lc = d /\ host'[l].home # d
    BY DEF FramesMatch
  <2>0. (vm => h \in 1..Len(host') /\ host'[h] = lo) /\ \A l \in 1..Len(host) : l \in 1..Len(host') /\ host'[l] = host[l]
    BY <1>0
  <2> HIDE DEF h
  <2>1. ASSUME NEW i \in 1..Len(ctx'[d].ci), ctx'[d].ci[i].cci = "skip"
        PROVE  \E l \in 1..Len(host') : host'[l].lc = d /\ host'[l].home = d /\ host'[l].stop = i
    <3>1. i \in 1..Len(ctx[d].ci) /\ ctx[d].ci[i].cci = "skip"
      <4>1. CASE d = c
        BY <2>1, <4>1 DEF NoNewNative
      <4>2. CASE d # c
        BY <2>1, <4>2
      <4> QED  BY <4>1, <4>2
    <3>2. \E l \in 1..Len(host) : host[l].lc = d /\ host[l].home = d /\ host[l].stop = i
      BY <3>1 DEF IInv, Looped, FramesMatch
    <3> QED  BY <2>0, <3>2
  <2>2. ASSUME ctx'[d].vmexec PROVE \E l \in 1..Len(host') : host'[l].lc = d /\ host'[l].home # d
    <3>1. CASE d = c
      BY <1>0, <2>0, <2>2, <3>1
    <3>2. CASE d # c
      <4>1. ctx[d].vmexec
        BY <2>2, <3>2 DEF SameLinks
      <4>2. \E l \in 1..Len(host) : host[l].lc = d /\ host[l].home # d
        BY <4>1 DEF IInv, Looped, FramesMatch
      <4> QED  BY <2>0, <4>2
    <3> QED  BY <3>1, <3>2
  <2> QED  BY <2>1, <2>2
<1>6. LoopsInOrder'
  <2>1. host'[1].lc = Root
    BY <1>0
  <2>2. ASSUME NEW l \in 2..Len(host') PROVE host'[l].lc \in Chain(Prev', cur')
    <3>1. CASE l \in 1..Len(host)
      BY <1>3, <3>1, LoopFacts
    <3>2. CASE l = h /\ vm
      BY <1>3, <3>2
    <3> QED  BY <1>0, <1>1, <3>1, <3>2
  <2>3. ASSUME NEW l \in 1..Len(host'), NEW m \in 1..Len(host'), l < m
        PROVE  /\ l # 1 => host'[l].lc \in Chain(Prev', host'[m].lc)
               /\ host'[l].lc = host'[m].lc =>
                    /\ host'[m].home = host'[m].lc
                    /\ host'[l].home = host'[l].lc => host'[l].stop < host'[m].stop
    <3>0. l \in 1..Len(host) /\ host'[l] = host[l] /\ m # 1
      BY <1>0, <1>1, <2>3
    <3>1. CASE m \in 1..Len(host)
      <4>1. host'[m] = host[m] /\ host[m].lc \in Chain(Prev, cur)
        BY <3>0, <3>1, LoopFacts
      <4>2. Chain(Prev', host[m].lc) = Chain(Prev, host[m].lc)
        BY <1>3, <4>1
      <4> QED  BY <2>3, <3>0, <3>1, <4>1, <4>2 DEF IInv, Looped, LoopsInOrder
    <3>2. CASE m = h /\ vm
      <4>1. host'[m] = lo
        BY <3>2
      <4>2. l # 1 => host[l].lc \in Chain(Prev, cur)
        BY <3>0, LoopFacts
      <4> QED  BY <1>2, <1>3, <3>0, <4>1, <4>2
    <3> QED  BY <1>1, <3>1, <3>2
  <2> QED  BY <2>1, <2>2, <2>3 DEF LoopsInOrder
<1> QED  BY <1>4, <1>5, <1>6 DEF Looped

\* Without natives in the chain there is the program's loop alone, and it
\* stays whatever context goes on.
LEMMA LoopsAcross ==
  ASSUME IInv, Typed', host # <<>>, host' = host,
         \A x \in Chain(Prev, cur) : ~OverNative(x) /\ ~ctx[x].vmexec,
         \A d \in Contexts : ctx'[d].vmexec = ctx[d].vmexec /\ NoNewNative(d),
         ctx'[Root].ci = ctx[Root].ci
  PROVE  Looped'
<1>0. /\ Len(host) \in Nat /\ Len(host) >= 1 /\ Root \in Contexts /\ 1 \in 1..Len(host)
      /\ host[1] \in Loops /\ host[1].lc = Root /\ host[1].home = Root /\ host[1].stop = 1
  BY Names, HostFacts, Alive DEF IInv
<1>1. ASSUME NEW l \in 1..Len(host) PROVE l = 1
  <2>1. SUFFICES ASSUME l # 1 PROVE FALSE
    OBVIOUS
  <2>2. host[l].lc \in Chain(Prev, cur) /\ l \in 2..Len(host) /\ host[l].lc \in Contexts
    BY <1>0, <2>1, LoopFacts
  <2> QED  BY <2>2, NoLoop
<1>2. LoopsMatch'
  <2> SUFFICES ASSUME NEW l \in 1..Len(host) PROVE (OfFrame(host[l]) \/ OfFiber(host[l]))'
    BY DEF LoopsMatch
  <2>1. Keeps(Root, 1)
    <3>1. OfFrame(host[1])
      BY <1>0, LoopFacts
    <3>2. 1 <= Len(ctx[Root].ci) /\ Len(ctx[Root].ci) \in Nat
      BY <1>0, <3>1, CiFacts DEF OfFrame, IInv
    <3> QED  BY <3>2 DEF Keeps
  <2>2. Kept(host[l])
    BY <1>0, <1>1, <2>1 DEF Kept
  <2> QED  BY <2>2, KeptMatches
<1>3. FramesMatch'
  BY DEF IInv, Looped, FramesMatch, NoNewNative
<1>4. LoopsInOrder'
  <2>1. \A l, m \in 1..Len(host) : ~(l < m)
    BY <1>1
  <2>2. \A l \in 2..Len(host) : FALSE
    BY <1>0, <1>1
  <2> QED  BY <1>0, <2>1, <2>2 DEF LoopsInOrder
<1> QED  BY <1>2, <1>3, <1>4 DEF Looped

---------------------------------------------------------------------------
(* The other parts of the invariant, at each kind of step. *)

\* The frames that are left have the ids they had.
LEMMA DistinctStays ==
  ASSUME IInv,
         \A c \in Contexts : \A i \in 1..Len(ctx'[c].ci) :
           i \in 1..Len(ctx[c].ci) /\ ctx'[c].ci[i].id = ctx[c].ci[i].id
  PROVE  Distinct'
<1> SUFFICES ASSUME NEW c \in Contexts, NEW d \in Contexts,
                    NEW i \in 1..Len(ctx'[c].ci), NEW j \in 1..Len(ctx'[d].ci),
                    ctx'[c].ci[i].id = ctx'[d].ci[j].id
             PROVE  c = d /\ i = j
  BY DEF Distinct
<1>1. i \in 1..Len(ctx[c].ci) /\ j \in 1..Len(ctx[d].ci) /\ ctx[c].ci[i].id = ctx[d].ci[j].id
  OBVIOUS
<1> QED  BY <1>1 DEF IInv, Distinct

\* A frame that comes has an id that no frame has.
LEMMA DistinctGrows ==
  ASSUME IInv, NEW b \in Contexts, NEW k \in Nat, NEW id \in FrameIds, id \notin Used,
         \A c \in Contexts : \A i \in 1..Len(ctx'[c].ci) :
           \/ i \in 1..Len(ctx[c].ci) /\ ctx'[c].ci[i].id = ctx[c].ci[i].id
           \/ c = b /\ i = k /\ ctx'[c].ci[i].id = id
  PROVE  Distinct'
<1> SUFFICES ASSUME NEW c \in Contexts, NEW d \in Contexts,
                    NEW i \in 1..Len(ctx'[c].ci), NEW j \in 1..Len(ctx'[d].ci),
                    ctx'[c].ci[i].id = ctx'[d].ci[j].id
             PROVE  c = d /\ i = j
  BY DEF Distinct
<1>1. \A e \in Contexts : \A m \in 1..Len(ctx[e].ci) : ctx[e].ci[m].id # id
  BY DEF Used, AllFrames
<1>2. CASE i \in 1..Len(ctx[c].ci) /\ ctx'[c].ci[i].id = ctx[c].ci[i].id
  <2>1. j \in 1..Len(ctx[d].ci) /\ ctx'[d].ci[j].id = ctx[d].ci[j].id
    BY <1>1, <1>2
  <2>2. ctx[c].ci[i].id = ctx[d].ci[j].id
    BY <1>2, <2>1
  <2> QED  BY <1>2, <2>1, <2>2 DEF IInv, Distinct
<1>3. CASE c = b /\ i = k /\ ctx'[c].ci[i].id = id
  <2>1. ~(j \in 1..Len(ctx[d].ci) /\ ctx'[d].ci[j].id = ctx[d].ci[j].id)
    BY <1>1, <1>3
  <2> QED  BY <1>3, <2>1
<1> QED  BY <1>2, <1>3

SameRest(c) == ctx'[c].status = ctx[c].status /\ ctx'[c].pending = ctx[c].pending

AwaitsNext(c) == ctx'[c].ci # <<>> /\ ctx'[c].pending = ctx'[c].ci[Len(ctx'[c].ci)].id

LEMMA AwaitsSame ==
  ASSUME NEW c, Awaits(c), ctx'[c].ci = ctx[c].ci, ctx'[c].pending = ctx[c].pending
  PROVE  AwaitsNext(c)
BY DEF Awaits, AwaitsNext

\* The running context goes on.
LEMMA GoesOn ==
  ASSUME IInv, Typed', cur' = cur, host' = <<>> => cur = Root,
         \A c \in Contexts : SameLinks(c) /\ SameRest(c) /\ (c # cur => ctx'[c].ci = ctx[c].ci),
         cur \in Fibers => ctx'[cur].ci # <<>> /\ ctx[cur].ci # <<>> /\ ctx'[cur].ci[1].cci = ctx[cur].ci[1].cci,
         cur = Root /\ ctx'[cur].ci # <<>> => ctx'[cur].ci[1].cci = "skip"
  PROVE  Lives' /\ Chained' /\ Awaiting'
<1>0. Prev' = Prev /\ cur \in Contexts /\ cur \in Chain(Prev, cur) /\ Chain(Prev, cur) \subseteq Contexts
  BY PrevFacts DEF Prev, SameLinks, IInv
<1>1. Lives'
  <2>1. ASSUME NEW c \in Fibers
        PROVE  /\ ctx'[c].ci = <<>> <=> ctx'[c].status \in {None, "created", "terminated"}
               /\ ctx'[c].ci = <<>> => ctx'[c].prev = None /\ ~ctx'[c].vmexec
               /\ ctx'[c].ci # <<>> => ctx'[c].ci[1].cci = "none"
    <3>1. ctx'[c].status = ctx[c].status /\ ctx'[c].prev = ctx[c].prev /\ ctx'[c].vmexec = ctx[c].vmexec
      BY Names DEF SameLinks, SameRest
    <3>2. (ctx'[c].ci = <<>> <=> ctx[c].ci = <<>>) /\ (ctx'[c].ci # <<>> => ctx'[c].ci[1].cci = ctx[c].ci[1].cci)
      BY Names
    <3> QED  BY <3>1, <3>2 DEF IInv, Lives
  <2>2. ctx'[Root].ci # <<>> => ctx'[Root].ci[1].cci = "skip"
    BY Names DEF IInv, Lives
  <2>3. ctx'[Root].prev = None /\ ~ctx'[Root].vmexec
    BY Names DEF IInv, Lives, SameLinks
  <2> QED  BY <2>1, <2>2, <2>3 DEF Lives
<1>2. Chained'
  BY <1>0 DEF IInv, Chained, SameLinks, SameRest
<1>3. Awaiting'
  <2>1. ASSUME NEW c \in Contexts, c # cur, Awaits(c) PROVE AwaitsNext(c)
    BY <2>1, AwaitsSame DEF SameRest
  <2>2. ASSUME NEW c \in Contexts, ctx'[c].status \in {"suspended", "transferred"} PROVE AwaitsNext(c)
    <3>1. ctx[c].status \in {"suspended", "transferred"}
      BY <2>2 DEF SameRest
    <3>2. c # cur
      BY <3>1 DEF IInv, Chained
    <3> QED  BY <2>1, <3>1, <3>2 DEF IInv, Awaiting
  <2>3. ASSUME NEW c \in Chain(Prev, cur) \ {Root}, ctx'[c].prev # None, ~ctx'[c].vmexec
        PROVE  AwaitsNext(ctx[c].prev) /\ ctx'[c].prev = ctx[c].prev
    <3>1. c \in Contexts /\ ctx[c].prev # None /\ ~ctx[c].vmexec /\ ctx'[c].prev = ctx[c].prev
      BY <1>0, <2>3 DEF SameLinks
    <3>2. ctx[c].prev # cur /\ ctx[c].prev \in Contexts
      BY <3>1, WaitsElsewhere
    <3>3. Awaits(ctx[c].prev)
      BY <3>1 DEF IInv, Awaiting
    <3>4. /\ ctx'[ctx[c].prev].ci = ctx[ctx[c].prev].ci
          /\ ctx'[ctx[c].prev].pending = ctx[ctx[c].prev].pending
      BY <3>2 DEF SameRest
    <3> QED  BY <3>1, <3>3, <3>4 DEF Awaits, AwaitsNext
  <2>4. Root \notin Chain(Prev, cur) => AwaitsNext(Root)
    BY <1>0, <2>1, Names DEF IInv, Awaiting
  <2>5. \A c \in Chain(Prev, cur) \ {Root} : ctx'[c].prev # None /\ ~ctx'[c].vmexec => AwaitsNext(ctx[c].prev)
    BY <2>3 DEF Awaits, AwaitsNext
  <2> QED  BY <1>0, <2>2, <2>3, <2>4 DEF Awaiting, Awaits, AwaitsNext
<1> QED  BY <1>1, <1>2, <1>3

\* The running fiber ends or yields.
LEMMA GoesBack ==
  ASSUME IInv, Typed', cur \in Fibers, cur' \in Contexts, host # <<>>, host' # <<>>,
         IF ctx[cur].prev = None THEN cur' = Root ELSE cur' = ctx[cur].prev,
         \A c \in Contexts : c # cur =>
           /\ SameLinks(c) /\ ctx'[c].ci = ctx[c].ci
           /\ ctx'[c].status = IF c = cur' THEN "running" ELSE ctx[c].status
           /\ c # cur' => ctx'[c].pending = ctx[c].pending,
         ctx'[cur].prev = None, ~ctx'[cur].vmexec,
         \/ ctx'[cur].status = "suspended" /\ ctx'[cur].ci = ctx[cur].ci /\ AwaitsNext(cur)
         \/ ctx'[cur].status = "terminated" /\ ctx'[cur].ci = <<>>
  PROVE  Lives' /\ Chained' /\ Awaiting'
<1>0. /\ cur \in Contexts /\ cur # Root /\ cur \in Chain(Prev, cur) /\ Chain(Prev, cur) \subseteq Contexts
      /\ cur' # cur /\ cur \notin Chain(Prev, cur') /\ cur' \in Chain(Prev, cur')
      /\ Prev \in [Contexts -> Contexts \cup {None}] /\ Chain(Prev, cur') \subseteq Contexts
      /\ \A c \in Contexts : Prev[c] = ctx[c].prev
      /\ Root \in Contexts
  BY PrevFacts, Names, ChainBack, ChainSelf DEF IInv
<1>1. \/ Chain(Prev, cur) = {cur} \cup Chain(Prev, cur')
      \/ Chain(Prev, cur') = {Root}
  BY ChainBack
<1>2. \A c \in Chain(Prev, cur') : Chain(Prev', c) = Chain(Prev, c)
  <2>1. \A c \in Contexts : c # cur => ctx'[c].prev = ctx[c].prev
    BY DEF SameLinks
  <2> QED  BY <2>1, ChainLeft
<1>3. ASSUME NEW c \in Chain(Prev, cur') \ {Root}
      PROVE  c \in Chain(Prev, cur) /\ c # cur /\ c \in Contexts
             /\ ctx'[c].prev = ctx[c].prev /\ ctx'[c].vmexec = ctx[c].vmexec
  BY <1>0, <1>1 DEF SameLinks
<1>4. ASSUME NEW c \in Chain(Prev, cur') \ {Root}, ctx[c].prev # None
      PROVE  /\ ctx[c].prev \in Chain(Prev, cur') /\ c \notin Chain(Prev, ctx[c].prev)
             /\ ctx[c].prev # cur /\ ctx[c].prev # cur' /\ ctx[c].prev \in Contexts
  <2>1. c \notin Chain(Prev, ctx[c].prev)
    BY <1>3, <1>4 DEF IInv, Chained
  <2>2. ctx[c].prev \in Chain(Prev, cur')
    BY <1>0, <1>3, <1>4, ChainClosed DEF Closed
  <2> QED  BY <1>0, <2>1, <2>2
<1>5. Lives'
  <2>1. ASSUME NEW c \in Fibers
        PROVE  /\ ctx'[c].ci = <<>> <=> ctx'[c].status \in {None, "created", "terminated"}
               /\ ctx'[c].ci = <<>> => ctx'[c].prev = None /\ ~ctx'[c].vmexec
               /\ ctx'[c].ci # <<>> => ctx'[c].ci[1].cci = "none"
    <3>0. c \in Contexts /\ ctx[cur].ci # <<>>
      BY <1>0, Names, Alive
    <3>1. CASE c = cur
      BY <3>0, <3>1 DEF IInv, Lives, None
    <3>2. CASE c = cur'
      <4>1. c \in Chain(Prev, cur)
        BY <1>0, <1>1, <3>2, Names
      <4>2. ctx[c].ci # <<>> /\ ctx'[c].ci = ctx[c].ci /\ ctx'[c].status = "running"
        BY <1>0, <3>0, <3>2, <4>1, Alive
      <4> QED  BY <4>2 DEF IInv, Lives, None
    <3>3. CASE c # cur /\ c # cur'
      BY <3>0, <3>3 DEF IInv, Lives, SameLinks
    <3> QED  BY <3>1, <3>2, <3>3
  <2>2. /\ ctx'[Root].ci # <<>> => ctx'[Root].ci[1].cci = "skip"
        /\ ctx'[Root].prev = None /\ ~ctx'[Root].vmexec
    BY <1>0 DEF IInv, Lives, SameLinks
  <2> QED  BY <2>1, <2>2 DEF Lives
<1>6. Chained'
  <2>1. \A c \in Contexts : ctx'[c].status = "running" => c = cur'
    BY <1>0 DEF IInv, Chained
  <2>2. ctx'[cur'].status = "running"
    BY <1>0
  <2>3. ASSUME NEW c \in Chain(Prev, cur') \ {cur'} PROVE ctx'[c].status = "resumed"
    <3>1. c \in Chain(Prev, cur) \ {cur} /\ c \in Contexts
      BY <1>0, <1>1, <2>3
    <3> QED  BY <3>1 DEF IInv, Chained
  <2>4. ASSUME NEW c \in Chain(Prev, cur') \ {Root}, ctx'[c].prev # None
        PROVE  c \notin Chain(Prev', ctx'[c].prev)
    BY <1>2, <1>3, <1>4, <2>4
  <2>5. Chain(Prev', cur') = Chain(Prev, cur')
    BY <1>0, <1>2
  <2> QED  BY <2>1, <2>2, <2>3, <2>4, <2>5 DEF Chained
<1>7. Awaiting'
  <2>1. ASSUME NEW c \in Contexts, ctx'[c].status \in {"suspended", "transferred"} PROVE AwaitsNext(c)
    <3>1. CASE c = cur
      BY <2>1, <3>1 DEF Awaits, AwaitsNext
    <3>2. CASE c # cur
      <4>1. c # cur' /\ ctx[c].status \in {"suspended", "transferred"}
        BY <2>1, <3>2
      <4>2. ctx'[c].ci = ctx[c].ci /\ ctx'[c].pending = ctx[c].pending
        BY <3>2, <4>1
      <4> QED  BY <4>1, <4>2, AwaitsSame DEF IInv, Awaiting
    <3> QED  BY <3>1, <3>2
  <2>2. ASSUME NEW c \in Chain(Prev, cur') \ {Root}, ctx'[c].prev # None, ~ctx'[c].vmexec
        PROVE  LET p == ctx'[c].prev IN ctx'[p].ci # <<>> /\ ctx'[p].pending = ctx'[p].ci[Len(ctx'[p].ci)].id
    <3>1. c \in Chain(Prev, cur) \ {Root} /\ ctx[c].prev # None /\ ~ctx[c].vmexec /\ ctx'[c].prev = ctx[c].prev
      BY <1>3, <2>2
    <3>2. ctx[c].prev # cur /\ ctx[c].prev # cur' /\ ctx[c].prev \in Contexts
      BY <1>4, <3>1
    <3>3. Awaits(ctx[c].prev)
      BY <3>1 DEF IInv, Awaiting
    <3>4. /\ ctx'[ctx[c].prev].ci = ctx[ctx[c].prev].ci
          /\ ctx'[ctx[c].prev].pending = ctx[ctx[c].prev].pending
      BY <3>2
    <3> QED  BY <3>1, <3>3, <3>4 DEF Awaits, AwaitsNext
  <2>3. Root \notin Chain(Prev, cur') => AwaitsNext(Root)
    <3>1. SUFFICES ASSUME Root \notin Chain(Prev, cur') PROVE AwaitsNext(Root)
      OBVIOUS
    <3>2. Root \notin Chain(Prev, cur) /\ Root # cur' /\ Root # cur
      BY <1>0, <1>1, <3>1
    <3>3. ctx'[Root].ci = ctx[Root].ci /\ ctx'[Root].pending = ctx[Root].pending
      BY <1>0, <3>2
    <3> QED  BY <3>2, <3>3, AwaitsSame DEF IInv, Awaiting
  <2>5. Chain(Prev', cur') = Chain(Prev, cur')
    BY <1>0, <1>2
  <2> QED  BY <2>1, <2>2, <2>3, <2>5 DEF Awaiting, Awaits, AwaitsNext
<1> QED  BY <1>5, <1>6, <1>7

\* A fiber is resumed.
LEMMA GoesIn ==
  ASSUME IInv, Typed', NEW c \in Fibers, c \notin Chain(Prev, cur), cur' = c, host # <<>>, host' # <<>>,
         ctx'[c].status = "running", ctx'[c].prev = cur, ctx'[c].ci # <<>>, ctx'[c].ci[1].cci = "none",
         ctx'[cur].status = "resumed", ctx'[c].vmexec \/ AwaitsNext(cur),
         \A d \in Contexts : d # c => SameLinks(d) /\ ctx'[d].ci = ctx[d].ci,
         \A d \in Contexts : d # c /\ d # cur => SameRest(d)
  PROVE  Lives' /\ Chained' /\ Awaiting'
<1>0. /\ cur \in Contexts /\ c \in Contexts /\ c # cur /\ c # Root /\ Root \in Contexts
      /\ cur \in Chain(Prev, cur) /\ Chain(Prev, cur) \subseteq Contexts
      /\ \A d \in Contexts : d # Root <=> d \in Fibers
  BY PrevFacts, Names DEF IInv
<1>1. /\ Chain(Prev', c) = {c} \cup Chain(Prev, cur)
      /\ \A d \in Chain(Prev, cur) : Chain(Prev', d) = Chain(Prev, d)
  <2>1. \A d \in Contexts : d # c => ctx'[d].prev = ctx[d].prev
    BY DEF SameLinks
  <2> QED  BY <2>1, ChainGrows
<1>5. Lives'
  <2>1. ASSUME NEW d \in Fibers
        PROVE  /\ ctx'[d].ci = <<>> <=> ctx'[d].status \in {None, "created", "terminated"}
               /\ ctx'[d].ci = <<>> => ctx'[d].prev = None /\ ~ctx'[d].vmexec
               /\ ctx'[d].ci # <<>> => ctx'[d].ci[1].cci = "none"
    <3>0. d \in Contexts /\ ctx[cur].ci # <<>>
      BY <1>0, Names, Alive
    <3>1. CASE d = c
      BY <3>1 DEF None
    <3>2. CASE d = cur
      <4>1. ctx'[d].ci = ctx[d].ci /\ ctx[d].ci # <<>> /\ ctx'[d].status = "resumed"
        BY <1>0, <3>0, <3>2
      <4> QED  BY <4>1 DEF IInv, Lives, None
    <3>3. CASE d # cur /\ d # c
      <4>1. ctx'[d].ci = ctx[d].ci /\ ctx'[d].status = ctx[d].status /\ SameLinks(d)
        BY <3>0, <3>3 DEF SameRest
      <4> QED  BY <4>1 DEF IInv, Lives, SameLinks
    <3> QED  BY <3>1, <3>2, <3>3
  <2>2. /\ ctx'[Root].ci # <<>> => ctx'[Root].ci[1].cci = "skip"
        /\ ctx'[Root].prev = None /\ ~ctx'[Root].vmexec
    BY <1>0 DEF IInv, Lives, SameLinks
  <2> QED  BY <2>1, <2>2 DEF Lives
<1>6. Chained'
  <2>1. \A d \in Contexts : ctx'[d].status = "running" => d = cur'
    BY <1>0 DEF IInv, Chained, SameRest
  <2>3. ASSUME NEW d \in Chain(Prev', cur') \ {cur'} PROVE ctx'[d].status = "resumed"
    <3>1. d \in Chain(Prev, cur) /\ d # c /\ d \in Contexts
      BY <1>0, <1>1, <2>3
    <3> QED  BY <3>1 DEF IInv, Chained, SameRest
  <2>4. ASSUME NEW d \in Chain(Prev', cur') \ {Root}, ctx'[d].prev # None
        PROVE  d \notin Chain(Prev', ctx'[d].prev)
    <3>1. CASE d = c
      BY <1>0, <1>1, <3>1
    <3>2. CASE d # c
      <4>1. d \in Chain(Prev, cur) \ {Root} /\ ctx'[d].prev = ctx[d].prev
        BY <1>0, <1>1, <2>4, <3>2 DEF SameLinks
      <4>2. ctx[d].prev \in Chain(Prev, cur)
        BY <2>4, <4>1, WaitsElsewhere
      <4> QED  BY <1>1, <2>4, <4>1, <4>2 DEF IInv, Chained
    <3> QED  BY <3>1, <3>2
  <2> QED  BY <2>1, <2>3, <2>4 DEF Chained
<1>7. Awaiting'
  <2>1. ASSUME NEW d \in Contexts, ctx'[d].status \in {"suspended", "transferred"} PROVE AwaitsNext(d)
    <3>1. d # c /\ d # cur
      BY <2>1
    <3>2. ctx'[d].ci = ctx[d].ci /\ ctx'[d].pending = ctx[d].pending /\ ctx'[d].status = ctx[d].status
      BY <3>1 DEF SameRest
    <3> QED  BY <2>1, <3>2, AwaitsSame DEF IInv, Awaiting
  <2>2. ASSUME NEW d \in Chain(Prev', cur') \ {Root}, ctx'[d].prev # None, ~ctx'[d].vmexec
        PROVE  LET p == ctx'[d].prev IN ctx'[p].ci # <<>> /\ ctx'[p].pending = ctx'[p].ci[Len(ctx'[p].ci)].id
    <3>1. CASE d = c
      BY <2>2, <3>1 DEF Awaits, AwaitsNext
    <3>2. CASE d # c
      <4>1. d \in Chain(Prev, cur) \ {Root} /\ ctx'[d].prev = ctx[d].prev /\ ctx'[d].vmexec = ctx[d].vmexec
        BY <1>0, <1>1, <2>2, <3>2 DEF SameLinks
      <4>2. ctx[d].prev # cur /\ ctx[d].prev \in Contexts /\ ctx[d].prev # c
        BY <2>2, <4>1, WaitsElsewhere
      <4>3. Awaits(ctx[d].prev)
        BY <2>2, <4>1 DEF IInv, Awaiting
      <4>4. /\ ctx'[ctx[d].prev].ci = ctx[ctx[d].prev].ci
            /\ ctx'[ctx[d].prev].pending = ctx[ctx[d].prev].pending
        BY <4>2 DEF SameRest
      <4> QED  BY <4>1, <4>3, <4>4 DEF Awaits, AwaitsNext
    <3> QED  BY <3>1, <3>2
  <2>3. Root \notin Chain(Prev', cur') => AwaitsNext(Root)
    <3>1. SUFFICES ASSUME Root \notin Chain(Prev', cur') PROVE AwaitsNext(Root)
      OBVIOUS
    <3>2. Root \notin Chain(Prev, cur) /\ Root # c /\ Root # cur
      BY <1>0, <1>1, <3>1
    <3>3. ctx'[Root].ci = ctx[Root].ci /\ ctx'[Root].pending = ctx[Root].pending
      BY <1>0, <3>2 DEF SameRest
    <3> QED  BY <3>2, <3>3, AwaitsSame DEF IInv, Awaiting
  <2> QED  BY <2>1, <2>2, <2>3 DEF Awaiting, Awaits, AwaitsNext
<1> QED  BY <1>5, <1>6, <1>7

\* A context is transferred to: it has nobody to go back to.
LEMMA GoesAcross ==
  ASSUME IInv, Typed', NEW c \in Contexts, c \notin Chain(Prev, cur), cur' = c, host # <<>>, host' # <<>>,
         \A x \in Chain(Prev, cur) : ~ctx[x].vmexec,
         ctx'[c].status = "running", ctx'[c].prev = None, ctx'[c].vmexec = ctx[c].vmexec, ctx'[c].ci # <<>>,
         ctx'[c].ci[1].cci = IF c = Root THEN "skip" ELSE "none",
         ctx'[cur].status = "transferred", AwaitsNext(cur),
         \A d \in Contexts : d # c => SameLinks(d) /\ ctx'[d].ci = ctx[d].ci,
         \A d \in Contexts : d # c /\ d # cur => SameRest(d)
  PROVE  Lives' /\ Chained' /\ Awaiting'
<1>0. /\ cur \in Contexts /\ c # cur /\ Root \in Contexts
      /\ cur \in Chain(Prev, cur) /\ Chain(Prev, cur) \subseteq Contexts
      /\ Prev \in [Contexts -> Contexts \cup {None}] /\ \A d \in Contexts : Prev[d] = ctx[d].prev
      /\ \A d \in Contexts : d # Root <=> d \in Fibers
  BY PrevFacts, Names DEF IInv
<1>1. Chain(Prev', cur') = {c}
  BY PrevNext, ChainEnd
<1>5. Lives'
  <2>1. ASSUME NEW d \in Fibers
        PROVE  /\ ctx'[d].ci = <<>> <=> ctx'[d].status \in {None, "created", "terminated"}
               /\ ctx'[d].ci = <<>> => ctx'[d].prev = None /\ ~ctx'[d].vmexec
               /\ ctx'[d].ci # <<>> => ctx'[d].ci[1].cci = "none"
    <3>0. d \in Contexts /\ ctx[cur].ci # <<>> /\ d # Root
      BY <1>0, Names, Alive
    <3>1. CASE d = c
      BY <3>0, <3>1 DEF None
    <3>2. CASE d = cur
      <4>1. ctx'[d].ci = ctx[d].ci /\ ctx[d].ci # <<>> /\ ctx'[d].status = "transferred"
        BY <1>0, <3>0, <3>2
      <4> QED  BY <4>1 DEF IInv, Lives, None
    <3>3. CASE d # cur /\ d # c
      <4>1. ctx'[d].ci = ctx[d].ci /\ ctx'[d].status = ctx[d].status /\ SameLinks(d)
        BY <3>0, <3>3 DEF SameRest
      <4> QED  BY <4>1 DEF IInv, Lives, SameLinks
    <3> QED  BY <3>1, <3>2, <3>3
  <2>2. /\ ctx'[Root].ci # <<>> => ctx'[Root].ci[1].cci = "skip"
        /\ ctx'[Root].prev = None /\ ~ctx'[Root].vmexec
    BY <1>0 DEF IInv, Lives, SameLinks
  <2> QED  BY <2>1, <2>2 DEF Lives
<1>6. Chained'
  <2>1. \A d \in Contexts : ctx'[d].status = "running" => d = cur'
    BY <1>0 DEF IInv, Chained, SameRest
  <2> QED  BY <1>1, <2>1 DEF Chained
<1>7. Awaiting'
  <2>1. ASSUME NEW d \in Contexts, ctx'[d].status \in {"suspended", "transferred"} PROVE AwaitsNext(d)
    <3>1. CASE d = cur
      BY <3>1 DEF Awaits, AwaitsNext
    <3>2. CASE d # cur
      <4>1. d # c
        BY <2>1
      <4>2. ctx'[d].ci = ctx[d].ci /\ ctx'[d].pending = ctx[d].pending /\ ctx'[d].status = ctx[d].status
        BY <3>2, <4>1 DEF SameRest
      <4> QED  BY <2>1, <4>2, AwaitsSame DEF IInv, Awaiting
    <3> QED  BY <3>1, <3>2
  <2>3. Root # c => AwaitsNext(Root)
    <3>0. CASE Root = cur
      BY <3>0 DEF Awaits, AwaitsNext
    <3>1. CASE Root # cur /\ Root # c
      <4>1. Awaits(Root)
        <5>1. CASE Root \notin Chain(Prev, cur)
          BY <5>1 DEF IInv, Awaiting
        <5>2. CASE Root \in Chain(Prev, cur)
          <6>1. PICK d \in Chain(Prev, cur) \ {Root} : Prev[d] = Root
            BY <1>0, <3>1, <5>2, ChainToRoot
          <6>2. ctx[d].prev = Root /\ ~ctx[d].vmexec /\ Root # None
            BY <1>0, <6>1, Names
          <6> QED  BY <6>2 DEF IInv, Awaiting
        <5> QED  BY <5>1, <5>2
      <4>2. ctx'[Root].ci = ctx[Root].ci /\ ctx'[Root].pending = ctx[Root].pending
        BY <1>0, <3>1 DEF SameRest
      <4> QED  BY <4>1, <4>2, AwaitsSame
    <3> QED  BY <3>0, <3>1
  <2> QED  BY <1>1, <2>1, <2>3 DEF Awaiting, Awaits, AwaitsNext
<1> QED  BY <1>5, <1>6, <1>7

---------------------------------------------------------------------------
(* What is under way, and what a step may not do. *)

AimsNext(c, thing) ==
  thing.kind = "unwind" => thing.idx <= Len(ctx'[c].ci) /\ ctx'[c].ci[thing.idx].id = thing.id

FlightAims ==
  /\ AimsNext(cur', flight')
  /\ flight'.kind = "native" => AimsNext(cur', flight'.what)
  /\ flight'.kind \in {"raise", "unwind"} => host' # <<>>

\* A handler's body goes on with what had its frame before, and frames below
\* are the ones that were there.
LEMMA AimsStay ==
  ASSUME IInv, Typed', FlightAims,
         \A c \in Contexts : \A i \in 1..Len(ctx'[c].ci) : \A n \in 1..Len(ctx'[c].ci[i].nest) :
           ctx'[c].ci[i].nest[n].kind = "body" =>
             /\ i \in 1..Len(ctx[c].ci)
             /\ \A j \in 1..i : ctx'[c].ci[j].id = ctx[c].ci[j].id
             /\ Sound(c, i, n, ctx'[c].ci[i].nest[n].then)
  PROVE  Aimed'
<1>1. ASSUME NEW c \in Contexts, NEW i \in 1..Len(ctx'[c].ci), NEW n \in 1..Len(ctx'[c].ci[i].nest),
             ctx'[c].ci[i].nest[n].kind = "body"
      PROVE  LET thing == ctx'[c].ci[i].nest[n].then
             IN  AimsNext(c, thing) /\ (thing.kind = "unwind" => thing.idx <= i) /\ (thing.kind = "jump" => thing.to < n)
  <2> DEFINE thing == ctx'[c].ci[i].nest[n].then
  <2>1. thing \in Things
    <3>1. ctx'[c].ci[i] \in Frames
      BY CiNext
    <3>2. ctx'[c].ci[i].nest[n] \in Items
      BY <3>1, NestFacts
    <3> QED  BY <1>1, <3>2, ItemFacts
  <2>2. /\ \A j \in 1..i : ctx'[c].ci[j].id = ctx[c].ci[j].id
        /\ Sound(c, i, n, thing) /\ Len(ctx'[c].ci) \in Nat
    BY <1>1, CiNext
  <2> HIDE DEF thing
  <2>3. ASSUME thing.kind = "unwind"
        PROVE  thing.idx <= i /\ thing.idx <= Len(ctx'[c].ci) /\ ctx'[c].ci[thing.idx].id = thing.id
    <3>1. thing \in Leavings
      BY <2>1, <2>3, ThingFacts
    <3>2. thing.idx \in Nat \ {0}
      BY <3>1 DEF Leavings
    <3>3. thing.idx <= i /\ ctx[c].ci[thing.idx].id = thing.id
      BY <2>2, <2>3 DEF Sound, Aims
    <3>4. thing.idx \in 1..i /\ i <= Len(ctx'[c].ci)
      BY <3>2, <3>3
    <3>5. thing.idx <= Len(ctx'[c].ci)
      BY <2>2, <3>2, <3>4
    <3>6. ctx'[c].ci[thing.idx].id = ctx[c].ci[thing.idx].id
      BY <2>2, <3>4
    <3> QED  BY <3>3, <3>5, <3>6
  <2>4. AimsNext(c, thing)
    BY <2>3 DEF AimsNext
  <2>5. (thing.kind = "unwind" => thing.idx <= i) /\ (thing.kind = "jump" => thing.to < n)
    BY <2>2 DEF Sound
  <2> QED  BY <2>4, <2>5 DEF thing
<1> QED  BY <1>1, ZenonT(60) DEF Aimed, Aims, AimsNext, FlightAims, Sound

Returned ==
  Len(host') < Len(host) => cur' = Loop.home /\ Ids(ctx'[Loop.home].ci) = Loop.frames

Ensured ==
  \A f \in AllFrames : \A n \in 1..Len(f.nest) :
    f.nest[n].kind = "ensure" =>
      \E c \in Contexts : \E i \in 1..Len(ctx'[c].ci) :
        LET g == ctx'[c].ci[i]
        IN  g.id = f.id /\ Len(g.nest) >= n /\ g.nest[n].kind \in {"ensure", "body"}

Delivered ==
  \A c \in Contexts :
    ctx[c].pending # 0 /\ ctx'[c].pending = 0 =>
      ctx[c].ci # <<>> /\ ctx[c].pending = Last(ctx[c].ci).id

\* A frame whose ensure bodies are not forgotten.
Survives(c, i) ==
  /\ i \in 1..Len(ctx'[c].ci) /\ ctx'[c].ci[i].id = ctx[c].ci[i].id
  /\ \A n \in 1..Len(ctx[c].ci[i].nest) : ctx[c].ci[i].nest[n].kind = "ensure" =>
       n <= Len(ctx'[c].ci[i].nest) /\ ctx'[c].ci[i].nest[n].kind \in {"ensure", "body"}
Plain(f) == \A n \in 1..Len(f.nest) : f.nest[n].kind # "ensure"

LEMMA EnsuresStay ==
  ASSUME Typed, Typed',
         \A c \in Contexts : \A i \in 1..Len(ctx[c].ci) : Survives(c, i) \/ Plain(ctx[c].ci[i])
  PROVE  Ensured
<1> SUFFICES ASSUME NEW f \in AllFrames, NEW n \in 1..Len(f.nest), f.nest[n].kind = "ensure"
             PROVE  \E c \in Contexts : \E i \in 1..Len(ctx'[c].ci) :
                      ctx'[c].ci[i].id = f.id /\ Len(ctx'[c].ci[i].nest) >= n
                        /\ ctx'[c].ci[i].nest[n].kind \in {"ensure", "body"}
  BY DEF Ensured
<1>1. PICK c \in Contexts : \E i \in 1..Len(ctx[c].ci) : f = ctx[c].ci[i]
  BY DEF AllFrames
<1>2. PICK i \in 1..Len(ctx[c].ci) : f = ctx[c].ci[i]
  BY <1>1
<1>3. Survives(c, i)
  BY <1>2 DEF Plain
<1>4. Len(ctx'[c].ci[i].nest) \in Nat
  <2>1. ctx'[c].ci[i] \in Frames
    BY <1>3, CiNext DEF Survives
  <2> QED  BY <2>1, NestFacts
<1> QED  BY <1>2, <1>3, <1>4 DEF Survives

\* A frame that stays as it is.
LEMMA SameSurvives ==
  ASSUME NEW c, NEW i, i \in 1..Len(ctx[c].ci), i \in 1..Len(ctx'[c].ci), ctx'[c].ci[i] = ctx[c].ci[i]
  PROVE  Survives(c, i)
BY DEF Survives

\* A value is delivered where it is awaited, or nowhere.
LEMMA DeliveredTo ==
  ASSUME Typed,
         \A c \in Contexts : ctx'[c].pending = ctx[c].pending \/ ctx'[c].pending # 0 \/ Awaits(c)
  PROVE  Delivered
BY CiFacts DEF Delivered, Awaits, Last

---------------------------------------------------------------------------
(* Steps that change flight alone, or the state of one fiber. *)

LEMMA Idle ==
  ASSUME IInv, ctx' = ctx, cur' = cur, host' = host, flight' \in Flights,
         Aims(cur, flight'), flight'.kind = "native" => Aims(cur, flight'.what),
         flight'.kind \in {"raise", "unwind"} => host # <<>>
  PROVE  IInv' /\ Ensured /\ Delivered /\ Returned
<1>1. Typed' /\ Prev' = Prev
  BY DEF IInv, Typed, Prev
<1>2. Lives' /\ Chained' /\ Distinct' /\ Awaiting'
  BY <1>1 DEF IInv, Lives, Chained, Distinct, Awaiting, Awaits
<1>3. Looped'
  <2>1. \A c \in Contexts : SameLinks(c) /\ NoNewNative(c)
    BY DEF SameLinks, NoNewNative
  <2>2. \A i \in 1..Len(ctx[cur].ci) : Keeps(cur, i)
    <3>1. Len(ctx[cur].ci) \in Nat
      BY CiFacts, PrevFacts DEF IInv
    <3> QED  BY <3>1 DEF Keeps
  <2> QED  BY <1>1, <2>1, <2>2, LoopsStay
<1>4. Aimed'
  <2>1. FlightAims
    BY DEF FlightAims, AimsNext, Aims
  <2>2. \A c \in Contexts : \A i \in 1..Len(ctx[c].ci) : \A n \in 1..Len(ctx[c].ci[i].nest) :
          ctx[c].ci[i].nest[n].kind = "body" => Sound(c, i, n, ctx[c].ci[i].nest[n].then)
    BY DEF IInv, Aimed
  <2> QED  BY <1>1, <2>1, <2>2, AimsStay
<1>5. Ensured
  <2>1. \A c \in Contexts : \A i \in 1..Len(ctx[c].ci) : Survives(c, i)
    BY SameSurvives
  <2> QED  BY <1>1, <2>1, EnsuresStay DEF IInv
<1>6. Delivered
  BY DeliveredTo DEF IInv
<1>7. Returned
  BY HostFacts DEF Returned, IInv
<1> QED  BY <1>1, <1>2, <1>3, <1>4, <1>5, <1>6, <1>7 DEF IInv

LEMMA FiberInitKeeps ==
  ASSUME IInv, NEW c \in Fibers, FiberInit(c)
  PROVE  IInv' /\ Ensured /\ Delivered /\ Returned
<1>1. /\ ctx[c].status = None /\ cur' = cur /\ host' = host /\ flight' = flight /\ host # <<>> /\ flight = Nothing
      /\ ctx' = [ctx EXCEPT ![c].status = "created"]
  BY DEF FiberInit, Executes
<1>2. /\ ctx' \in [Contexts -> States]
      /\ \A d \in Contexts : SameLinks(d) /\ ctx'[d].ci = ctx[d].ci /\ ctx'[d].pending = ctx[d].pending
      /\ \A d \in Contexts : d # c => ctx'[d].status = ctx[d].status
      /\ ctx'[c].status = "created"
  BY <1>1, Names DEF IInv, Typed, States, Statuses, SameLinks
<1>3. Typed' /\ Prev' = Prev /\ c \in Contexts /\ cur \in Contexts /\ c # cur
  <2>1. c # cur
    BY <1>1 DEF IInv, Chained, None
  <2> QED  BY <1>1, <1>2, <2>1, Names DEF IInv, Typed, Prev, SameLinks
<1> HIDE DEF FiberInit
<1>4. Lives'
  BY <1>1, <1>2, <1>3, Names DEF IInv, Lives, SameLinks, None
<1>5. Chained'
  <2>1. c \notin Chain(Prev, cur)
    BY <1>1, <1>3 DEF IInv, Chained, None
  <2>2. \A d \in Chain(Prev, cur) : d \in Contexts /\ d # c
    BY <2>1, <1>3, ChainSelf
  <2> QED  BY <1>1, <1>2, <1>3, <2>2 DEF IInv, Chained, SameLinks
<1>6. Looped'
  <2>1. \A d \in Contexts : NoNewNative(d)
    BY <1>2 DEF NoNewNative
  <2>2. \A i \in 1..Len(ctx[cur].ci) : Keeps(cur, i)
    <3>1. Len(ctx[cur].ci) \in Nat
      BY <1>3, CiFacts DEF IInv
    <3> QED  BY <1>2, <1>3, <3>1 DEF Keeps
  <2> QED  BY <1>1, <1>2, <1>3, <2>1, <2>2, LoopsStay
<1>7. Distinct'
  BY <1>2 DEF IInv, Distinct
<1>8. Aimed'
  <2>1. FlightAims
    BY <1>1 DEF FlightAims, AimsNext, Nothing
  <2>2. \A d \in Contexts : \A i \in 1..Len(ctx[d].ci) : \A n \in 1..Len(ctx[d].ci[i].nest) :
          ctx[d].ci[i].nest[n].kind = "body" => Sound(d, i, n, ctx[d].ci[i].nest[n].then)
    BY DEF IInv, Aimed
  <2>3. \A d \in Contexts : ctx'[d].ci = ctx[d].ci
    BY <1>2
  <2> QED  BY <1>3, <2>1, <2>2, <2>3, AimsStay
<1>9. Awaiting'
  <2>1. \A d \in Contexts : Awaits(d) => AwaitsNext(d)
    BY <1>2 DEF Awaits, AwaitsNext
  <2>2. /\ \A d \in Contexts : ctx'[d].status \in {"suspended", "transferred"} => AwaitsNext(d)
        /\ \A d \in Chain(Prev, cur) \ {Root} : d \in Contexts /\ (ctx'[d].prev # None => ctx'[d].prev \in Contexts)
    BY <1>2, <1>3, <2>1, ChainSelf DEF IInv, Awaiting, SameLinks, Typed, States
  <2>3. \A d \in Chain(Prev, cur) \ {Root} : ctx'[d].prev # None /\ ~ctx'[d].vmexec => AwaitsNext(ctx'[d].prev)
    BY <1>2, <1>3, <2>1, <2>2 DEF IInv, Awaiting, SameLinks
  <2>4. Root \notin Chain(Prev, cur) => AwaitsNext(Root)
    BY <2>1, Names DEF IInv, Awaiting
  <2> QED  BY <1>1, <1>3, <2>2, <2>3, <2>4 DEF Awaiting, Awaits, AwaitsNext
<1>10. Ensured
  <2>1. \A d \in Contexts : \A i \in 1..Len(ctx[d].ci) : Survives(d, i)
    BY <1>2, SameSurvives
  <2> QED  BY <1>3, <2>1, EnsuresStay DEF IInv
<1>11. Delivered
  BY <1>2, DeliveredTo DEF IInv
<1>12. Returned
  BY <1>1, HostFacts DEF Returned, IInv
<1> QED  BY <1>3, <1>4, <1>5, <1>6, <1>7, <1>8, <1>9, <1>10, <1>11, <1>12 DEF IInv

---------------------------------------------------------------------------
(* Steps on the frames of the running context. *)

OnlyFrames ==
  /\ ctx' \in [Contexts -> States] /\ cur' = cur
  /\ \A c \in Contexts : SameLinks(c) /\ SameRest(c) /\ (c # cur => ctx'[c].ci = ctx[c].ci)

LEMMA SetCi ==
  ASSUME Typed, NEW s \in Seq(Frames), ctx' = [ctx EXCEPT ![cur].ci = s], cur' = cur
  PROVE  OnlyFrames /\ ctx'[cur].ci = s
BY DEF OnlyFrames, Typed, States, SameLinks, SameRest

\* The top frame changes, with its id and its native's mark.
LEMMA TopSet ==
  ASSUME IInv, host # <<>>, NEW f \in Frames, SetTop(f), cur' = cur, host' = host,
         f.id = Top.id, f.cci = Top.cci,
         flight' \in Flights, Aims(cur, flight'), flight'.kind # "native",
         \A m \in 1..Len(f.nest) : f.nest[m].kind = "body" => Sound(cur, Len(ctx[cur].ci), m, f.nest[m].then),
         \A m \in 1..Len(Top.nest) : Top.nest[m].kind = "ensure" =>
           m <= Len(f.nest) /\ f.nest[m].kind \in {"ensure", "body"}
  PROVE  IInv' /\ Ensured /\ Delivered /\ Returned
<1> DEFINE n == Len(ctx[cur].ci)
           s == [ctx[cur].ci EXCEPT ![n] = f]
<1>1. /\ cur \in Contexts /\ n \in Nat /\ n >= 1 /\ Top = ctx[cur].ci[n] /\ ctx[cur].ci \in Seq(Frames)
      /\ DOMAIN ctx[cur].ci = 1..n
  BY PrevFacts, CiFacts, TopIsTheLoops DEF IInv
<1>2. s \in Seq(Frames) /\ Len(s) = n /\ s[n] = f /\ \A i \in 1..n : i # n => s[i] = ctx[cur].ci[i]
  BY <1>1
<1>3. ctx' = [ctx EXCEPT ![cur].ci = s]
  BY DEF SetTop
<1> HIDE DEF s
<1>4. OnlyFrames /\ ctx'[cur].ci = s
  BY <1>2, <1>3, SetCi DEF IInv
<1>5. Len(ctx'[cur].ci) = n
  BY <1>2, <1>4
<1>6. ctx'[cur].ci[n] = f
  BY <1>2, <1>4
<1>7. \A i \in 1..n : i # n => ctx'[cur].ci[i] = ctx[cur].ci[i]
  BY <1>2, <1>4
<1>8. \A i \in 1..n : ctx'[cur].ci[i].id = ctx[cur].ci[i].id /\ ctx'[cur].ci[i].cci = ctx[cur].ci[i].cci
  BY <1>1, <1>6, <1>7
<1>9. Typed'
  BY <1>1, <1>4 DEF OnlyFrames, IInv, Typed
<1>10. \A c \in Contexts : c # cur => ctx'[c].ci = ctx[c].ci
  BY <1>4 DEF OnlyFrames
<1>11. Looped'
  <2>1. \A c \in Contexts : NoNewNative(c)
    BY <1>5, <1>8, <1>10 DEF NoNewNative
  <2>2. \A i \in 1..n : Keeps(cur, i)
    BY <1>1, <1>5, <1>8 DEF Keeps
  <2> QED  BY <1>4, <1>9, <2>1, <2>2, LoopsStay DEF OnlyFrames
<1>12. Lives' /\ Chained' /\ Awaiting'
  <2>1. ctx[cur].ci # <<>> /\ ctx'[cur].ci # <<>> /\ ctx'[cur].ci[1].cci = ctx[cur].ci[1].cci
    BY <1>1, <1>5, <1>8, <1>9, CiNext, CiFacts DEF IInv
  <2>2. cur = Root => ctx'[cur].ci[1].cci = "skip"
    BY <2>1 DEF IInv, Lives
  <2> QED  BY <1>4, <1>9, <2>1, <2>2, GoesOn DEF OnlyFrames
<1>13. Distinct'
  <2>1. \A c \in Contexts : \A i \in 1..Len(ctx'[c].ci) :
           i \in 1..Len(ctx[c].ci) /\ ctx'[c].ci[i].id = ctx[c].ci[i].id
    BY <1>5, <1>8, <1>10
  <2> QED  BY <2>1, DistinctStays
<1>14. Aimed'
  <2>1. FlightAims
    <3>1. AimsNext(cur, flight')
      <4>1. ASSUME flight'.kind = "unwind"
            PROVE  flight'.idx <= Len(ctx'[cur].ci) /\ ctx'[cur].ci[flight'.idx].id = flight'.id
        <5>1. flight' \in Leavings /\ flight'.idx <= n /\ ctx[cur].ci[flight'.idx].id = flight'.id
          BY <4>1, FlightFacts DEF Aims
        <5>2. flight'.idx \in 1..n
          BY <1>1, <5>1 DEF Leavings
        <5> QED  BY <1>5, <1>8, <5>1, <5>2
      <4> QED  BY <4>1 DEF AimsNext
    <3> QED  BY <3>1 DEF FlightAims
  <2>2. ASSUME NEW c \in Contexts, NEW i \in 1..Len(ctx'[c].ci), NEW m \in 1..Len(ctx'[c].ci[i].nest),
               ctx'[c].ci[i].nest[m].kind = "body"
        PROVE  /\ i \in 1..Len(ctx[c].ci)
               /\ \A j \in 1..i : ctx'[c].ci[j].id = ctx[c].ci[j].id
               /\ Sound(c, i, m, ctx'[c].ci[i].nest[m].then)
    <3>1. CASE c = cur /\ i = n
      <4>1. Sound(cur, n, m, f.nest[m].then)
        BY <1>6, <2>2, <3>1
      <4> QED  BY <1>1, <1>5, <1>6, <1>8, <3>1, <4>1
    <3>2. CASE ~(c = cur /\ i = n)
      <4>1. i \in 1..Len(ctx[c].ci) /\ ctx'[c].ci[i] = ctx[c].ci[i]
        BY <1>5, <1>7, <1>10, <3>2
      <4>2. Len(ctx[c].ci) \in Nat
        BY CiFacts DEF IInv
      <4>3. \A j \in 1..i : ctx'[c].ci[j].id = ctx[c].ci[j].id
        BY <1>5, <1>8, <1>10, <4>1, <4>2
      <4> QED  BY <2>2, <4>1, <4>3 DEF IInv, Aimed
    <3> QED  BY <3>1, <3>2
  <2> QED  BY <1>9, <2>1, <2>2, AimsStay
<1>15. Ensured
  <2>1. ASSUME NEW c \in Contexts, NEW i \in 1..Len(ctx[c].ci) PROVE Survives(c, i)
    <3>1. CASE c = cur /\ i = n
      BY <1>1, <1>5, <1>6, <1>8, <3>1 DEF Survives
    <3>2. CASE ~(c = cur /\ i = n)
      <4>1. i \in 1..Len(ctx'[c].ci) /\ ctx'[c].ci[i] = ctx[c].ci[i]
        BY <1>5, <1>7, <1>10, <3>2
      <4> QED  BY <4>1, SameSurvives
    <3> QED  BY <3>1, <3>2
  <2> QED  BY <1>9, <2>1, EnsuresStay DEF IInv
<1>16. Delivered
  BY <1>4, DeliveredTo DEF OnlyFrames, SameRest, IInv
<1>17. Returned
  BY HostFacts DEF Returned, IInv
<1> QED  BY <1>9, <1>11, <1>12, <1>13, <1>14, <1>15, <1>16, <1>17 DEF IInv

LEMMA SameSequence ==
  ASSUME NEW S, NEW s \in Seq(S), NEW t \in Seq(S), NEW n, Len(s) = n, Len(t) = n,
         \A i \in 1..n : s[i] = t[i]
  PROVE  s = t
BY SeqEqual

\* The top frame goes, none of its ensure bodies left to run; its loop ends
\* with it if it is a native's.
LEMMA TopGone ==
  ASSUME IInv, host # <<>>, ctx' = Pop(ctx, cur), cur' = cur, Plain(Top),
         ~(Len(ctx[cur].ci) = 1 /\ cur # Root),
         IF Top.cci = "skip" THEN host' = Front(host) ELSE host' = host,
         flight' \in Flights, FlightAims
  PROVE  IInv' /\ Ensured /\ Delivered /\ Returned
<1> DEFINE n == Len(ctx[cur].ci)
           s == Front(ctx[cur].ci)
<1>1. /\ cur \in Contexts /\ n \in Nat /\ n >= 1 /\ Top = ctx[cur].ci[n] /\ ctx[cur].ci \in Seq(Frames)
      /\ ctx[cur].ci # <<>>
  BY PrevFacts, CiFacts, TopIsTheLoops DEF IInv
<1>2. s \in Seq(Frames) /\ Len(s) = n - 1 /\ \A i \in 1..(n - 1) : s[i] = ctx[cur].ci[i]
  BY <1>1, TopFacts
<1>3. ctx' = [ctx EXCEPT ![cur].ci = s]
  BY DEF Pop
<1> HIDE DEF s
<1>4. OnlyFrames /\ ctx'[cur].ci = s
  BY <1>2, <1>3, SetCi DEF IInv
<1>5. Len(ctx'[cur].ci) = n - 1
  BY <1>2, <1>4
<1>6. \A i \in 1..(n - 1) : i \in 1..n /\ ctx'[cur].ci[i] = ctx[cur].ci[i]
  BY <1>1, <1>2, <1>4
<1>7. \A c \in Contexts : c # cur => ctx'[c].ci = ctx[c].ci
  BY <1>4 DEF OnlyFrames
<1>8. host' \in Seq(Loops)
  BY HostFacts DEF IInv
<1>9. Typed'
  BY <1>1, <1>4, <1>8 DEF OnlyFrames, IInv, Typed
<1>10. \A c \in Contexts : \A i \in 1..Len(ctx'[c].ci) :
         i \in 1..Len(ctx[c].ci) /\ ctx'[c].ci[i] = ctx[c].ci[i]
  BY <1>5, <1>6, <1>7
<1>11. Keeps(cur, n - 1)
  BY <1>1, <1>5, <1>6 DEF Keeps
<1>12. Looped'
  <2>1. CASE Top.cci = "skip"
    <3>1. host' = Front(host)
      BY <2>1
    <3>2. Len(host') = Len(host) - 1 /\ \A l \in 1..(Len(host) - 1) : host'[l] = host[l]
      BY <3>1, HostFacts DEF IInv
    <3> QED  BY <1>4, <1>5, <1>9, <1>11, <2>1, <3>2, LoopEnds DEF OnlyFrames
  <2>2. CASE Top.cci # "skip"
    <3>1. \A c \in Contexts : NoNewNative(c)
      BY <1>10 DEF NoNewNative
    <3>2. \A i \in 1..n : ctx[cur].ci[i].cci = "skip" => Keeps(cur, i)
      <4>1. SUFFICES ASSUME NEW i \in 1..n, ctx[cur].ci[i].cci = "skip" PROVE Keeps(cur, i)
        OBVIOUS
      <4>2. i <= n - 1 /\ i \in Nat /\ n - 1 \in Nat
        BY <1>1, <2>2, <4>1
      <4> QED  BY <1>1, <1>5, <1>11, <4>2, KeepsFewer
    <3>3. host' = host
      BY <2>2
    <3> QED  BY <1>4, <1>9, <3>1, <3>2, <3>3, LoopsStay DEF OnlyFrames
  <2> QED  BY <2>1, <2>2
<1>13. Lives' /\ Chained' /\ Awaiting'
  <2>1. cur \in Fibers => n >= 2
    <3>1. cur # Root => ~(n = 1)
      OBVIOUS
    <3> HIDE DEF n
    <3> QED  BY <1>1, <3>1, Names
  <2>2. n >= 2 => ctx'[cur].ci # <<>> /\ ctx'[cur].ci[1].cci = ctx[cur].ci[1].cci
    BY <1>1, <1>5, <1>6, <1>9, CiNext
  <2>3. cur = Root /\ ctx'[cur].ci # <<>> => ctx'[cur].ci[1].cci = "skip"
    <3>1. ctx'[cur].ci # <<>> => n >= 2
      BY <1>1, <1>5, <1>9, CiNext
    <3> QED  BY <1>1, <2>2, <3>1 DEF IInv, Lives
  <2>4. host' = <<>> => cur = Root
    <3>1. CASE Top.cci = "skip"
      <4>1. host' = Front(host)
        BY <3>1
      <4>2. ASSUME host' = <<>> PROVE cur = Root
        <5>1. Len(host') = 0 /\ Len(host') = Len(host) - 1 /\ Len(host) \in Nat
          BY <4>1, <4>2, HostFacts DEF IInv
        <5>2. Loop = host[1]
          BY <5>1, HostFacts DEF IInv
        <5> QED  BY <3>1, <5>2, TopIsTheLoops, Alive
      <4> QED  BY <4>2
    <3>2. CASE Top.cci # "skip"
      BY <3>2
    <3> QED  BY <3>1, <3>2
  <2> QED  BY <1>1, <1>4, <1>9, <2>1, <2>2, <2>3, <2>4, GoesOn DEF OnlyFrames
<1>14. Distinct'
  BY <1>10, DistinctStays
<1>15. Aimed'
  <2>2. ASSUME NEW c \in Contexts, NEW i \in 1..Len(ctx'[c].ci), NEW m \in 1..Len(ctx'[c].ci[i].nest),
               ctx'[c].ci[i].nest[m].kind = "body"
        PROVE  /\ i \in 1..Len(ctx[c].ci)
               /\ \A j \in 1..i : ctx'[c].ci[j].id = ctx[c].ci[j].id
               /\ Sound(c, i, m, ctx'[c].ci[i].nest[m].then)
    <3>1. i \in 1..Len(ctx[c].ci) /\ ctx'[c].ci[i] = ctx[c].ci[i]
      BY <1>10
    <3>2. \A j \in 1..i : j \in 1..Len(ctx'[c].ci)
      BY <1>9, CiNext
    <3> QED  BY <1>10, <2>2, <3>1, <3>2 DEF IInv, Aimed
  <2> QED  BY <1>9, <2>2, AimsStay
<1>16. Ensured
  <2>1. ASSUME NEW c \in Contexts, NEW i \in 1..Len(ctx[c].ci) PROVE Survives(c, i) \/ Plain(ctx[c].ci[i])
    <3>1. CASE c = cur /\ i = n
      BY <1>1, <3>1
    <3>2. CASE ~(c = cur /\ i = n)
      <4>1. i \in 1..Len(ctx'[c].ci)
        BY <1>1, <1>5, <1>7, <3>2
      <4> QED  BY <1>10, <4>1, SameSurvives
    <3> QED  BY <3>1, <3>2
  <2> QED  BY <1>9, <2>1, EnsuresStay DEF IInv
<1>17. Delivered
  BY <1>4, DeliveredTo DEF OnlyFrames, SameRest, IInv
<1>18. Returned
  <2>1. CASE Top.cci = "skip"
    <3>1. Loop.home = cur /\ Loop.lc = cur /\ Loop.stop = n /\ Loop = host[Len(host)] /\ Len(host) \in 1..Len(host)
      BY <2>1, TopIsTheLoops, HostFacts DEF IInv
    <3>2. OfFrame(Loop) /\ Loop \in Loops
      BY <3>1, LoopFacts
    <3>3. /\ Loop.frames \in Seq(FrameIds) /\ Len(Loop.frames) = n - 1
          /\ \A i \in 1..(n - 1) : Loop.frames[i] = ctx[cur].ci[i].id
      BY <3>1, <3>2 DEF OfFrame, Found, Loops
    <3>4. /\ Ids(ctx'[cur].ci) \in Seq(FrameIds) /\ Len(Ids(ctx'[cur].ci)) = n - 1
          /\ \A i \in 1..(n - 1) : Ids(ctx'[cur].ci)[i] = ctx'[cur].ci[i].id
      BY <1>1, <1>5, <1>9, CiNext, IdsFacts
    <3>5. Ids(ctx'[cur].ci) = Loop.frames
      <4> DEFINE t == Ids(ctx'[cur].ci)
      <4>1. t \in Seq(FrameIds) /\ Len(t) = n - 1 /\ \A i \in 1..(n - 1) : t[i] = Loop.frames[i]
        BY <1>6, <3>3, <3>4
      <4> HIDE DEF t, n
      <4>2. t = Loop.frames
        BY <3>3, <4>1, SameSequence
      <4> QED  BY <4>2 DEF t
    <3> QED  BY <3>1, <3>5 DEF Returned
  <2>2. CASE Top.cci # "skip"
    BY <2>2, HostFacts DEF Returned, IInv
  <2> QED  BY <2>1, <2>2
<1> QED  BY <1>9, <1>12, <1>13, <1>14, <1>15, <1>16, <1>17, <1>18 DEF IInv

\* A frame comes, with a loop of its own if it is a native's.
LEMMA FrameComes ==
  ASSUME IInv, NEW id \in FrameIds, Fresh(id), flight = Nothing, flight' = flight, cur' = cur,
         NEW cci \in {"none", "skip"},
         ctx' = [ctx EXCEPT ![cur].ci = Append(@, NewFrame(id, cci))],
         cci = "skip" => PushLoop(cur, Len(ctx[cur].ci) + 1),
         cci = "none" => host # <<>> /\ host' = host
  PROVE  IInv' /\ Ensured /\ Delivered /\ Returned
<1> DEFINE n == Len(ctx[cur].ci)
           f == NewFrame(id, cci)
           s == Append(ctx[cur].ci, f)
<1>1. /\ cur \in Contexts /\ n \in Nat /\ ctx[cur].ci \in Seq(Frames)
      /\ host # <<>> => n >= 1
  BY PrevFacts, CiFacts, Alive DEF IInv
<1>2. f \in Frames /\ f.id = id /\ f.cci = cci /\ f.nest = <<>>
  BY DEF NewFrame, Frames
<1>3. s \in Seq(Frames) /\ Len(s) = n + 1 /\ s[n + 1] = f /\ \A i \in 1..n : s[i] = ctx[cur].ci[i]
  BY <1>1, <1>2, AppendFacts
<1>4. ctx' = [ctx EXCEPT ![cur].ci = s]
  OBVIOUS
<1> HIDE DEF s, f
<1>5. OnlyFrames /\ ctx'[cur].ci = s
  BY <1>3, <1>4, SetCi DEF IInv
<1>6. Len(ctx'[cur].ci) = n + 1 /\ ctx'[cur].ci[n + 1] = f
  BY <1>3, <1>5
<1>7. \A i \in 1..n : ctx'[cur].ci[i] = ctx[cur].ci[i]
  BY <1>3, <1>5
<1>8. \A c \in Contexts : c # cur => ctx'[c].ci = ctx[c].ci
  BY <1>5 DEF OnlyFrames
<1>9. PICK lo : lo = [lc |-> cur, stop |-> n + 1, home |-> cur, frames |-> Ids(ctx[cur].ci)]
  OBVIOUS
<1>10. /\ lo \in Loops /\ lo.lc = cur /\ lo.home = cur /\ lo.stop = n + 1 /\ Len(lo.frames) = n
       /\ \A i \in 1..n : lo.frames[i] = ctx[cur].ci[i].id
  BY <1>1, <1>9, IdsFacts DEF Loops
<1>11. /\ cci = "skip" => /\ host' = Append(host, lo) /\ Len(host') = Len(host) + 1
                          /\ host'[Len(host) + 1] = lo /\ \A l \in 1..Len(host) : host'[l] = host[l]
       /\ host' \in Seq(Loops) /\ host \in Seq(Loops) /\ Len(host) \in Nat /\ host' # <<>>
  <2>1. CASE cci = "skip"
    <3>1. host' = Append(host, lo)
      BY <1>9, <2>1 DEF PushLoop
    <3>2. host \in Seq(Loops) /\ Len(host) \in Nat
      BY HostFacts DEF IInv
    <3> QED  BY <1>10, <3>1, <3>2, AppendFacts
  <2>2. CASE cci = "none"
    BY <2>2, HostFacts DEF IInv
  <2> QED  BY <2>1, <2>2
<1>12. Typed'
  BY <1>1, <1>5, <1>11 DEF OnlyFrames, IInv, Typed
<1>13. Keeps(cur, n)
  BY <1>1, <1>6, <1>7 DEF Keeps
<1>14. \A c \in Contexts : \A i \in 1..Len(ctx'[c].ci) :
         \/ i \in 1..Len(ctx[c].ci) /\ ctx'[c].ci[i] = ctx[c].ci[i]
         \/ c = cur /\ i = n + 1 /\ ctx'[c].ci[i] = f
  <2> SUFFICES ASSUME NEW c \in Contexts, NEW i \in 1..Len(ctx'[c].ci)
               PROVE  \/ i \in 1..Len(ctx[c].ci) /\ ctx'[c].ci[i] = ctx[c].ci[i]
                      \/ c = cur /\ i = n + 1 /\ ctx'[c].ci[i] = f
    OBVIOUS
  <2>1. CASE c # cur
    BY <1>8, <2>1
  <2>2. CASE c = cur
    <3>1. i \in 1..n \/ i = n + 1
      BY <1>1, <1>6, <2>2
    <3> QED  BY <1>6, <1>7, <2>2, <3>1
  <2> QED  BY <2>1, <2>2
<1>15. Looped'
  <2>1. CASE cci = "skip"
    <3>1. /\ Len(lo.frames) = n /\ n <= Len(ctx'[lo.home].ci)
          /\ \A i \in 1..n : lo.frames[i] = ctx'[lo.home].ci[i].id
      BY <1>1, <1>6, <1>7, <1>10
    <3>2. OfFrame(lo)'
      <4>1. lo.stop - 1 = n /\ lo.stop <= Len(ctx'[cur].ci) /\ ctx'[cur].ci[lo.stop].cci = "skip"
        BY <1>1, <1>2, <1>6, <1>10, <2>1
      <4>2. Found(lo, lo.stop - 1)'
        BY <3>1, <4>1 DEF Found
      <4> QED  BY <1>10, <4>1, <4>2 DEF OfFrame
    <3>3. n < lo.stop /\ \A i \in 1..Len(ctx'[cur].ci) : i \in 1..n \/ i = lo.stop
      BY <1>1, <1>6, <1>10
    <3> QED  BY <1>5, <1>10, <1>11, <1>12, <1>13, <2>1, <3>2, <3>3, LoopBegins DEF OnlyFrames
  <2>2. CASE cci = "none"
    <3>1. \A c \in Contexts : NoNewNative(c)
      BY <1>2, <1>14, <2>2 DEF NoNewNative
    <3>2. \A i \in 1..n : Keeps(cur, i)
      BY <1>1, <1>6, <1>13, KeepsFewer
    <3> QED  BY <1>5, <1>12, <2>2, <3>1, <3>2, LoopsStay DEF OnlyFrames
  <2> QED  BY <2>1, <2>2
<1>16. Lives' /\ Chained' /\ Awaiting'
  <2>1. n + 1 >= 1 /\ ctx'[cur].ci # <<>>
    BY <1>1, <1>6, <1>12, CiNext
  <2>2. n >= 1 => ctx[cur].ci # <<>> /\ ctx'[cur].ci[1].cci = ctx[cur].ci[1].cci
    BY <1>1, <1>7, CiFacts DEF IInv
  <2>3. cur \in Fibers => n >= 1
    BY <1>1, Names DEF IInv, Chained
  <2>4. cur = Root => ctx'[cur].ci[1].cci = "skip"
    <3>1. CASE n >= 1
      BY <2>2, <3>1 DEF IInv, Lives
    <3>2. CASE n = 0
      <4>1. cci = "skip"
        BY <1>1, <3>2
      <4> QED  BY <1>2, <1>6, <3>2, <4>1
    <3> QED  BY <1>1, <3>1, <3>2
  <2> QED  BY <1>5, <1>11, <1>12, <2>1, <2>2, <2>3, <2>4, GoesOn DEF OnlyFrames
<1>17. Distinct'
  <2>1. id \notin Used
    BY DEF Fresh
  <2>2. \A c \in Contexts : \A i \in 1..Len(ctx'[c].ci) :
           \/ i \in 1..Len(ctx[c].ci) /\ ctx'[c].ci[i].id = ctx[c].ci[i].id
           \/ c = cur /\ i = n + 1 /\ ctx'[c].ci[i].id = id
    BY <1>2, <1>14
  <2>3. PICK b \in Contexts, k \in Nat : b = cur /\ k = n + 1
    BY <1>1
  <2>4. \A c \in Contexts : \A i \in 1..Len(ctx'[c].ci) :
           \/ i \in 1..Len(ctx[c].ci) /\ ctx'[c].ci[i].id = ctx[c].ci[i].id
           \/ c = b /\ i = k /\ ctx'[c].ci[i].id = id
    BY <2>2, <2>3
  <2> HIDE DEF n
  <2> QED  BY <2>1, <2>4, DistinctGrows
<1>18. Aimed'
  <2>1. FlightAims
    BY DEF FlightAims, AimsNext, Nothing
  <2>2. ASSUME NEW c \in Contexts, NEW i \in 1..Len(ctx'[c].ci), NEW m \in 1..Len(ctx'[c].ci[i].nest),
               ctx'[c].ci[i].nest[m].kind = "body"
        PROVE  /\ i \in 1..Len(ctx[c].ci)
               /\ \A j \in 1..i : ctx'[c].ci[j].id = ctx[c].ci[j].id
               /\ Sound(c, i, m, ctx'[c].ci[i].nest[m].then)
    <3>0. ctx'[c].ci[i] # f
      BY <1>2, <2>2
    <3>1. i \in 1..Len(ctx[c].ci) /\ ctx'[c].ci[i] = ctx[c].ci[i] /\ Len(ctx[c].ci) \in Nat
      BY <1>14, <3>0, CiFacts DEF IInv
    <3>2. \A j \in 1..i : ctx'[c].ci[j].id = ctx[c].ci[j].id
      <4>1. CASE c = cur
        BY <1>7, <3>1, <4>1
      <4>2. CASE c # cur
        BY <1>8, <4>2
      <4> QED  BY <4>1, <4>2
    <3> QED  BY <2>2, <3>1, <3>2 DEF IInv, Aimed
  <2> QED  BY <1>12, <2>1, <2>2, AimsStay
<1>19. Ensured
  <2>1. ASSUME NEW c \in Contexts, NEW i \in 1..Len(ctx[c].ci) PROVE Survives(c, i)
    <3>1. CASE c = cur
      <4>1. i \in 1..Len(ctx'[c].ci) /\ ctx'[c].ci[i] = ctx[c].ci[i]
        BY <1>1, <1>6, <1>7, <3>1
      <4> QED  BY <4>1, SameSurvives
    <3>2. CASE c # cur
      BY <1>8, <3>2, SameSurvives
    <3> QED  BY <3>1, <3>2
  <2> QED  BY <1>12, <2>1, EnsuresStay DEF IInv
<1>20. Delivered
  BY <1>5, DeliveredTo DEF OnlyFrames, SameRest, IInv
<1>21. Returned
  <2>1. Len(host') >= Len(host) /\ Len(host') \in Nat
    BY <1>11
  <2> QED  BY <1>11, <2>1 DEF Returned
<1> QED  BY <1>12, <1>15, <1>16, <1>17, <1>18, <1>19, <1>20, <1>21 DEF IInv

---------------------------------------------------------------------------
(* Switches. *)

\* The running fiber ends or yields to the context that resumed it, out of
\* the loop a native resumed it in.
LEMMA FiberLeaves ==
  ASSUME IInv, host # <<>>, cur \in Fibers, ~OverNative(cur), ctx' \in [Contexts -> States],
         cur' = Resumer(cur),
         \A c \in Contexts : c # cur =>
           /\ SameLinks(c) /\ ctx'[c].ci = ctx[c].ci
           /\ ctx'[c].status = IF c = cur' THEN "running" ELSE ctx[c].status
           /\ c # cur' \/ ctx[cur].vmexec => ctx'[c].pending = ctx[c].pending,
         ctx'[cur].prev = None, ~ctx'[cur].vmexec,
         \/ ctx'[cur].status = "suspended" /\ ctx'[cur].ci = ctx[cur].ci /\ AwaitsNext(cur)
         \/ /\ ctx'[cur].status = "terminated" /\ ctx'[cur].ci = <<>> /\ ctx'[cur].pending = ctx[cur].pending
            /\ Len(ctx[cur].ci) = 1 /\ Plain(Top),
         IF ctx[cur].vmexec THEN host' = Front(host) ELSE host' = host,
         flight' \in {Nothing, Raising, Native(Value), Native(Raising)}
  PROVE  IInv' /\ Ensured /\ Delivered /\ Returned
<1>0. /\ cur \in Contexts /\ cur' \in Contexts /\ cur \in Chain(Prev, cur)
      /\ IF ctx[cur].prev = None THEN cur' = Root ELSE cur' = ctx[cur].prev
  BY PrevFacts, Names DEF IInv, Typed, States, Resumer
<1>1. /\ host \in Seq(Loops) /\ Len(host) \in Nat \ {0} /\ ctx[cur].ci \in Seq(Frames) /\ ctx[cur].ci # <<>>
  BY <1>0, HostFacts, CiFacts, Alive DEF IInv
<1>2. cur' # cur
  BY <1>0, ChainBack
<1>3. /\ host' \in Seq(Loops) /\ \A l \in 1..Len(host') : host'[l] = host[l]
      /\ Len(host') = IF ctx[cur].vmexec THEN Len(host) - 1 ELSE Len(host)
  BY <1>1, HostFacts DEF IInv
<1>4. Typed'
  <2>1. flight' \in Flights
    BY DEF Flights, Answers, Native
  <2> QED  BY <1>0, <1>3, <2>1 DEF Typed
<1>5. host' # <<>>
  <2>1. CASE ctx[cur].vmexec
    <3>1. Loop = host[Len(host)] /\ OfFiber(Loop)
      BY <1>1, <2>1, FiberLoop, HostFacts DEF IInv
    <3>2. Len(host) # 1
      BY <1>1, <3>1, LoopFacts DEF OfFiber
    <3> QED  BY <1>1, <1>3, <2>1, <3>2, HostFacts
  <2>2. CASE ~ctx[cur].vmexec
    BY <2>2
  <2> QED  BY <2>1, <2>2
<1>6. Looped'
  <2>1. ctx'[cur].ci = ctx[cur].ci \/ ctx'[cur].ci = <<>>
    OBVIOUS
  <2>2. \A c \in Contexts : c # cur => SameLinks(c) /\ ctx'[c].ci = ctx[c].ci
    OBVIOUS
  <2> QED  BY <1>0, <1>3, <1>4, <2>1, <2>2, LoopsLeft
<1>7. Lives' /\ Chained' /\ Awaiting'
  <2>1. \A c \in Contexts : c # cur =>
           /\ SameLinks(c) /\ ctx'[c].ci = ctx[c].ci
           /\ ctx'[c].status = IF c = cur' THEN "running" ELSE ctx[c].status
           /\ c # cur' => ctx'[c].pending = ctx[c].pending
    OBVIOUS
  <2>2. \/ ctx'[cur].status = "suspended" /\ ctx'[cur].ci = ctx[cur].ci /\ AwaitsNext(cur)
        \/ ctx'[cur].status = "terminated" /\ ctx'[cur].ci = <<>>
    OBVIOUS
  <2> QED  BY <1>0, <1>4, <1>5, <2>1, <2>2, GoesBack
<1>8. \A c \in Contexts : \A i \in 1..Len(ctx'[c].ci) : ctx'[c].ci = ctx[c].ci
  <2>1. ctx'[cur].ci = <<>> => 1..Len(ctx'[cur].ci) = {}
    BY <1>0, <1>4, CiNext
  <2>2. ctx'[cur].ci = <<>> \/ ctx'[cur].ci = ctx[cur].ci
    OBVIOUS
  <2>3. \A c \in Contexts : c # cur => ctx'[c].ci = ctx[c].ci
    OBVIOUS
  <2> QED  BY <2>1, <2>2, <2>3
<1>9. Distinct'
  BY <1>8, DistinctStays
<1>10. Aimed'
  <2>1. FlightAims
    BY <1>5 DEF FlightAims, AimsNext, Nothing, Raising, Native, Value
  <2>2. ASSUME NEW c \in Contexts, NEW i \in 1..Len(ctx'[c].ci), NEW m \in 1..Len(ctx'[c].ci[i].nest),
               ctx'[c].ci[i].nest[m].kind = "body"
        PROVE  /\ i \in 1..Len(ctx[c].ci)
               /\ \A j \in 1..i : ctx'[c].ci[j].id = ctx[c].ci[j].id
               /\ Sound(c, i, m, ctx'[c].ci[i].nest[m].then)
    <3>1. ctx'[c].ci = ctx[c].ci
      BY <1>8
    <3> QED  BY <2>2, <3>1 DEF IInv, Aimed
  <2> QED  BY <1>4, <2>1, <2>2, AimsStay
<1>11. Ensured
  <2>1. ASSUME NEW c \in Contexts, NEW i \in 1..Len(ctx[c].ci) PROVE Survives(c, i) \/ Plain(ctx[c].ci[i])
    <3>1. CASE ctx'[c].ci = ctx[c].ci
      BY <3>1, SameSurvives
    <3>2. CASE ctx'[c].ci # ctx[c].ci
      <4>1. c = cur /\ ctx'[cur].ci # ctx[cur].ci
        BY <3>2
      <4>2. Len(ctx[cur].ci) = 1 /\ Plain(Top)
        BY <4>1
      <4> DEFINE k == Len(ctx[cur].ci)
      <4>3. k = 1 /\ i \in 1..k /\ Top = ctx[cur].ci[k]
        <5>1. Top = ctx[cur].ci[k]
          BY DEF Top, Last
        <5>2. k = 1
          BY <4>2
        <5>3. i \in 1..k
          BY <4>1
        <5> QED  BY <5>1, <5>2, <5>3
      <4> HIDE DEF k
      <4>4. i = k
        BY <4>3
      <4> QED  BY <4>1, <4>2, <4>3, <4>4
    <3> QED  BY <3>1, <3>2
  <2> QED  BY <1>4, <2>1, EnsuresStay DEF IInv
<1>12. Delivered
  <2>1. ASSUME NEW c \in Contexts PROVE ctx'[c].pending = ctx[c].pending \/ ctx'[c].pending # 0 \/ Awaits(c)
    <3>1. CASE c = cur
      <4>1. CASE AwaitsNext(cur) /\ ctx'[cur].ci = ctx[cur].ci
        <5>1. ctx[cur].ci[Len(ctx[cur].ci)] \in Frames
          BY <1>0, <1>1, TopFacts
        <5>2. ctx[cur].ci[Len(ctx[cur].ci)].id # 0
          BY <5>1, NestFacts, ContextsAssumption DEF FrameIds
        <5> QED  BY <3>1, <4>1, <5>2 DEF AwaitsNext
      <4>2. CASE ctx'[cur].pending = ctx[cur].pending
        BY <3>1, <4>2
      <4> QED  BY <4>1, <4>2
    <3>2. CASE c # cur /\ (c # cur' \/ ctx[cur].vmexec)
      BY <3>2
    <3>3. CASE c = cur' /\ ~ctx[cur].vmexec
      <4>1. CASE ctx[cur].prev = None
        <5>1. Root \notin Chain(Prev, cur)
          BY <1>0, <4>1, ChainBack, Names
        <5> QED  BY <1>0, <3>3, <4>1, <5>1 DEF IInv, Awaiting
      <4>2. CASE ctx[cur].prev # None
        BY <1>0, <3>3, <4>2, Names DEF IInv, Awaiting
      <4> QED  BY <4>1, <4>2
    <3> QED  BY <3>1, <3>2, <3>3
  <2> QED  BY <2>1, DeliveredTo DEF IInv
<1>13. Returned
  <2>1. CASE ctx[cur].vmexec
    <3>1. Loop = host[Len(host)] /\ OfFiber(Loop) /\ Loop.home = ctx[cur].prev /\ ctx[cur].prev \in Contexts
      BY <1>1, <2>1, FiberLoop, HostFacts DEF IInv
    <3>2. Loop.home = cur' /\ ctx'[Loop.home].ci = ctx[Loop.home].ci /\ Loop \in Loops
      BY <1>0, <1>1, <1>2, <3>1, Names, HostFacts DEF IInv
    <3> DEFINE s == ctx[Loop.home].ci
               t == Loop.frames
               n == Len(s)
    <3>3. s \in Seq(Frames) /\ n \in Nat
      BY <3>1, CiFacts DEF IInv
    <3>4. t \in Seq(FrameIds) /\ Len(t) = n /\ \A i \in 1..n : t[i] = s[i].id
      BY <3>1, <3>2 DEF OfFiber, Found, Loops
    <3>5. Ids(s) \in Seq(FrameIds) /\ Len(Ids(s)) = n /\ \A i \in 1..n : Ids(s)[i] = s[i].id
      BY <3>3, IdsFacts
    <3>6. Ids(s) = t
      <4> DEFINE u == Ids(s)
      <4>1. u \in Seq(FrameIds) /\ Len(u) = n /\ \A i \in 1..n : u[i] = t[i]
        BY <3>4, <3>5
      <4> HIDE DEF u, t, n
      <4>2. u = t
        BY <3>4, <4>1, SameSequence
      <4> QED  BY <4>2 DEF u
    <3> QED  BY <3>2, <3>6 DEF Returned
  <2>2. CASE ~ctx[cur].vmexec
    BY <1>1, <2>2 DEF Returned
  <2> QED  BY <2>1, <2>2
<1> QED  BY <1>4, <1>6, <1>7, <1>9, <1>10, <1>11, <1>12, <1>13 DEF IInv

\* What stays when another context goes on, with a first frame if it has none.
LEMMA SwitchRest ==
  ASSUME IInv, Typed', NEW id \in FrameIds, NEW c \in Contexts, flight' = Nothing,
         \A d \in Contexts : d # c => ctx'[d].ci = ctx[d].ci,
         \/ ctx'[c].ci = ctx[c].ci
         \/ ctx[c].ci = <<>> /\ ctx'[c].ci = <<NewFrame(id, "none")>> /\ id \notin Used,
         \A d \in Contexts : ctx'[d].pending = ctx[d].pending \/ ctx'[d].pending # 0 \/ Awaits(d),
         host' = host \/ Len(host') = Len(host) + 1
  PROVE  Distinct' /\ Aimed' /\ Ensured /\ Delivered /\ Returned /\ \A d \in Contexts : NoNewNative(d)
<1>1. ASSUME NEW d \in Contexts, NEW i \in 1..Len(ctx'[d].ci)
      PROVE  \/ ctx'[d].ci = ctx[d].ci
             \/ d = c /\ i = 1 /\ ctx'[d].ci[i] = NewFrame(id, "none") /\ id \notin Used
  <2>1. CASE ctx'[d].ci = ctx[d].ci
    BY <2>1
  <2>2. CASE ctx'[d].ci # ctx[d].ci
    <3>1. d = c /\ ctx'[d].ci = <<NewFrame(id, "none")>> /\ id \notin Used
      BY <2>2
    <3> DEFINE s == <<NewFrame(id, "none")>>
    <3>2. Len(s) = 1 /\ s[1] = NewFrame(id, "none")
      OBVIOUS
    <3>3. i \in 1..Len(s)
      BY <3>1
    <3> HIDE DEF s
    <3>4. i = 1
      BY <3>2, <3>3
    <3>5. ctx'[d].ci[i] = s[1]
      BY <3>1, <3>4 DEF s
    <3> QED  BY <3>1, <3>2, <3>4, <3>5
  <2> QED  BY <2>1, <2>2
<1>2. Distinct'
  <2>1. CASE id \in Used
    <3>1. \A d \in Contexts : \A i \in 1..Len(ctx'[d].ci) :
             i \in 1..Len(ctx[d].ci) /\ ctx'[d].ci[i].id = ctx[d].ci[i].id
      BY <1>1, <2>1
    <3> QED  BY <3>1, DistinctStays
  <2>2. CASE id \notin Used
    <3>1. PICK k \in Nat : k = 1
      OBVIOUS
    <3>2. \A d \in Contexts : \A i \in 1..Len(ctx'[d].ci) :
             \/ i \in 1..Len(ctx[d].ci) /\ ctx'[d].ci[i].id = ctx[d].ci[i].id
             \/ d = c /\ i = k /\ ctx'[d].ci[i].id = id
      <4>1. NewFrame(id, "none").id = id
        BY DEF NewFrame
      <4> QED  BY <1>1, <3>1, <4>1
    <3> QED  BY <2>2, <3>2, DistinctGrows
  <2> QED  BY <2>1, <2>2
<1>3. Aimed'
  <2>1. FlightAims
    BY DEF FlightAims, AimsNext, Nothing
  <2>2. ASSUME NEW d \in Contexts, NEW i \in 1..Len(ctx'[d].ci), NEW m \in 1..Len(ctx'[d].ci[i].nest),
               ctx'[d].ci[i].nest[m].kind = "body"
        PROVE  /\ i \in 1..Len(ctx[d].ci)
               /\ \A j \in 1..i : ctx'[d].ci[j].id = ctx[d].ci[j].id
               /\ Sound(d, i, m, ctx'[d].ci[i].nest[m].then)
    <3>1. ctx'[d].ci[i] # NewFrame(id, "none")
      BY <2>2 DEF NewFrame
    <3>2. ctx'[d].ci = ctx[d].ci
      BY <1>1, <3>1
    <3> QED  BY <2>2, <3>2 DEF IInv, Aimed
  <2> QED  BY <2>1, <2>2, AimsStay
<1>4. Ensured
  <2>1. ASSUME NEW d \in Contexts, NEW i \in 1..Len(ctx[d].ci) PROVE Survives(d, i)
    <3>1. CASE ctx'[d].ci = ctx[d].ci
      BY <3>1, SameSurvives
    <3>2. CASE ctx'[d].ci # ctx[d].ci
      <4>1. ctx[d].ci = <<>>
        BY <3>2
      <4>2. Len(ctx[d].ci) = 0
        BY <4>1
      <4> QED  BY <4>2
    <3> QED  BY <3>1, <3>2
  <2> QED  BY <2>1, EnsuresStay DEF IInv
<1>5. Delivered
  BY DeliveredTo DEF IInv
<1>6. Returned
  BY HostFacts DEF Returned, IInv
<1>7. \A d \in Contexts : NoNewNative(d)
  <2>1. NewFrame(id, "none").cci = "none"
    BY DEF NewFrame
  <2> QED  BY <1>1, <2>1 DEF NoNewNative
<1> QED  BY <1>2, <1>3, <1>4, <1>5, <1>6, <1>7

\* fiber_switch, context by context.
LEMMA SwitchFacts ==
  ASSUME IInv, NEW c \in Fibers, NEW id \in FrameIds, NEW resume \in BOOLEAN, NEW vm \in BOOLEAN,
         Switch(c, id, resume, vm)
  PROVE  /\ host # <<>> /\ flight = Nothing /\ flight' = Nothing /\ c # cur /\ cur' = c /\ ~OverNative(c)
         /\ ctx[c].status \in {"created", "suspended", "transferred"}
         /\ resume => ctx[c].status \in {"created", "suspended"}
         /\ IF vm THEN PushLoop(c, 1) ELSE host' = host
         /\ ctx' \in [Contexts -> States]
         /\ \A d \in Contexts : d # c /\ d # cur => ctx'[d] = ctx[d]
         /\ ctx'[cur].status = (IF resume THEN "resumed" ELSE "transferred")
         /\ SameLinks(cur) /\ ctx'[cur].ci = ctx[cur].ci
         /\ IF vm THEN ctx'[cur].pending = ctx[cur].pending
            ELSE ctx'[cur].pending = ctx[cur].ci[Len(ctx[cur].ci)].id
         /\ ctx'[c].status = "running" /\ ctx'[c].vmexec = (ctx[c].vmexec \/ vm)
         /\ ctx'[c].prev = (IF resume THEN cur ELSE None)
         /\ ctx[c].status = "created" =>
              ctx'[c].ci = <<NewFrame(id, "none")>> /\ id \notin Used /\ ctx'[c].pending = ctx[c].pending
         /\ ctx[c].status # "created" => ctx'[c].ci = ctx[c].ci /\ ctx'[c].pending = 0
<1> DEFINE a == IF vm THEN ctx ELSE Await(ctx, cur)
           b == [a EXCEPT ![cur].status = IF resume THEN "resumed" ELSE "transferred",
                          ![c].prev = IF resume THEN cur ELSE None,
                          ![c].vmexec = @ \/ vm]
           w == Started(b, c, id)
           e == IF ctx[c].status = "created" THEN w ELSE Deliver(w, c)
<1>1. /\ host # <<>> /\ flight = Nothing /\ flight' = Nothing /\ c # cur /\ cur' = c /\ ~OverNative(c)
      /\ ctx[c].status \in {"created", "suspended", "transferred"}
      /\ resume => ctx[c].status \in {"created", "suspended"}
      /\ IF vm THEN PushLoop(c, 1) ELSE host' = host
      /\ ctx' = [e EXCEPT ![c].status = "running"]
      /\ ctx[c].status = "created" => id \notin Used
  BY DEF Switch, Executes, SwitchTo, Fresh
<1>2. /\ c \in Contexts /\ cur \in Contexts /\ ctx \in [Contexts -> States]
      /\ ctx[cur].ci \in Seq(Frames) /\ Len(ctx[cur].ci) >= 1 /\ Len(ctx[cur].ci) \in Nat
  BY <1>1, Names, PrevFacts, CiFacts, Alive DEF IInv, Typed
<1>3. Last(ctx[cur].ci).id \in 0..MaxFrames /\ Last(ctx[cur].ci) = ctx[cur].ci[Len(ctx[cur].ci)]
  <2>1. Last(ctx[cur].ci) = ctx[cur].ci[Len(ctx[cur].ci)]
    BY DEF Last
  <2>2. ctx[cur].ci[Len(ctx[cur].ci)] \in Frames
    BY <1>2, TopFacts
  <2>3. ctx[cur].ci[Len(ctx[cur].ci)].id \in FrameIds
    BY <2>2, NestFacts
  <2> QED  BY <2>1, <2>3, ContextsAssumption DEF FrameIds
<1>4. /\ a \in [Contexts -> States]
      /\ \A d \in Contexts : /\ a[d].status = ctx[d].status /\ a[d].prev = ctx[d].prev
                             /\ a[d].vmexec = ctx[d].vmexec /\ a[d].ci = ctx[d].ci
      /\ \A d \in Contexts : d # cur => a[d] = ctx[d]
      /\ a[cur].pending = IF vm THEN ctx[cur].pending ELSE ctx[cur].ci[Len(ctx[cur].ci)].id
  <2>1. CASE vm
    BY <1>2, <2>1
  <2>2. CASE ~vm
    <3> DEFINE k == Last(ctx[cur].ci).id
    <3>1. a = [ctx EXCEPT ![cur].pending = k]
      BY <2>2 DEF Await
    <3>2. k \in 0..MaxFrames
      BY <1>3
    <3> HIDE DEF a, k
    <3>3. /\ a \in [Contexts -> States]
          /\ \A d \in Contexts : /\ a[d].status = ctx[d].status /\ a[d].prev = ctx[d].prev
                                 /\ a[d].vmexec = ctx[d].vmexec /\ a[d].ci = ctx[d].ci
          /\ \A d \in Contexts : d # cur => a[d] = ctx[d]
          /\ a[cur].pending = k
      BY <1>2, <3>1, <3>2 DEF States
    <3>4. a[cur].pending = ctx[cur].ci[Len(ctx[cur].ci)].id
      BY <1>3, <3>3 DEF k
    <3> QED  BY <2>2, <3>3, <3>4
  <2> QED  BY <2>1, <2>2
<1> HIDE DEF a
<1>5. /\ b \in [Contexts -> States]
      /\ \A d \in Contexts : d # c /\ d # cur => b[d] = ctx[d]
      /\ b[cur].status = (IF resume THEN "resumed" ELSE "transferred")
      /\ b[cur].prev = ctx[cur].prev /\ b[cur].vmexec = ctx[cur].vmexec /\ b[cur].ci = ctx[cur].ci
      /\ b[cur].pending = a[cur].pending
      /\ b[c].status = ctx[c].status /\ b[c].prev = (IF resume THEN cur ELSE None)
      /\ b[c].vmexec = (ctx[c].vmexec \/ vm) /\ b[c].ci = ctx[c].ci /\ b[c].pending = ctx[c].pending
  <2> DEFINE st == IF resume THEN "resumed" ELSE "transferred"
             p == IF resume THEN cur ELSE None
             v == ctx[c].vmexec \/ vm
  <2>1. st \in Statuses /\ p \in Contexts \cup {None}
    BY <1>2 DEF Statuses
  <2>2. v \in BOOLEAN
    OBVIOUS
  <2>3. a[c].vmexec = ctx[c].vmexec
    BY <1>2, <1>4
  <2>4. b = [a EXCEPT ![cur].status = st, ![c].prev = p, ![c].vmexec = v]
    BY <1>1, <2>3
  <2> HIDE DEF b, st, p, v
  <2>5. /\ b \in [Contexts -> States]
        /\ \A d \in Contexts : d # c /\ d # cur => b[d] = a[d]
        /\ b[cur].status = st
        /\ b[cur].prev = a[cur].prev /\ b[cur].vmexec = a[cur].vmexec /\ b[cur].ci = a[cur].ci
        /\ b[cur].pending = a[cur].pending
        /\ b[c].status = a[c].status /\ b[c].prev = p
        /\ b[c].vmexec = v /\ b[c].ci = a[c].ci /\ b[c].pending = a[c].pending
    <3>1. /\ b = [d \in Contexts |-> b[d]]
          /\ \A d \in Contexts : d # c /\ d # cur => b[d] = a[d]
          /\ b[cur] = [a[cur] EXCEPT !.status = st]
          /\ b[c] = [a[c] EXCEPT !.prev = p, !.vmexec = v]
      BY <1>1, <1>2, <1>4, <2>4
    <3>2. a[cur] \in States /\ a[c] \in States
      BY <1>2, <1>4
    <3>3. /\ b[cur] \in States /\ b[cur].status = st
          /\ b[cur].prev = a[cur].prev /\ b[cur].vmexec = a[cur].vmexec /\ b[cur].ci = a[cur].ci
          /\ b[cur].pending = a[cur].pending
      BY <2>1, <3>1, <3>2 DEF States
    <3>4. /\ b[c] \in States /\ b[c].status = a[c].status /\ b[c].prev = p
          /\ b[c].vmexec = v /\ b[c].ci = a[c].ci /\ b[c].pending = a[c].pending
      BY <2>1, <2>2, <3>1, <3>2 DEF States
    <3>5. b \in [Contexts -> States]
      <4>1. \A d \in Contexts : b[d] \in States
        BY <1>4, <3>1, <3>3, <3>4
      <4> QED  BY <3>1, <4>1
    <3> QED  BY <3>1, <3>3, <3>4, <3>5
  <2> QED  BY <1>1, <1>2, <1>4, <2>5 DEF st, p, v
<1> HIDE DEF b
<1>6. <<NewFrame(id, "none")>> \in Seq(Frames)
  <2>1. NewFrame(id, "none") \in Frames
    BY DEF NewFrame, Frames
  <2> QED  BY <2>1, OneFacts
<1>7. /\ w \in [Contexts -> States]
      /\ \A d \in Contexts : d # c => w[d] = b[d]
      /\ w[c].status = b[c].status /\ w[c].prev = b[c].prev /\ w[c].vmexec = b[c].vmexec /\ w[c].pending = b[c].pending
      /\ w[c].ci = IF ctx[c].status = "created" THEN <<NewFrame(id, "none")>> ELSE ctx[c].ci
  <2>1. CASE ctx[c].status = "created"
    <3> DEFINE s == <<NewFrame(id, "none")>>
    <3>1. w = [b EXCEPT ![c].ci = s] /\ s \in Seq(Frames)
      BY <1>5, <1>6, <2>1 DEF Started
    <3> HIDE DEF s, w
    <3>2. /\ w \in [Contexts -> States]
          /\ \A d \in Contexts : d # c => w[d] = b[d]
          /\ w[c].status = b[c].status /\ w[c].prev = b[c].prev /\ w[c].vmexec = b[c].vmexec /\ w[c].pending = b[c].pending
          /\ w[c].ci = s
      BY <1>2, <1>5, <3>1 DEF States
    <3> QED  BY <2>1, <3>2 DEF s
  <2>2. CASE ctx[c].status # "created"
    <3>1. w = b
      BY <1>5, <2>2 DEF Started
    <3> QED  BY <1>5, <2>2, <3>1
  <2> QED  BY <2>1, <2>2
<1> HIDE DEF w
<1>8. /\ e \in [Contexts -> States]
      /\ \A d \in Contexts : d # c => e[d] = w[d]
      /\ e[c].status = w[c].status /\ e[c].prev = w[c].prev /\ e[c].vmexec = w[c].vmexec /\ e[c].ci = w[c].ci
      /\ e[c].pending = IF ctx[c].status = "created" THEN w[c].pending ELSE 0
  <2>1. CASE ctx[c].status = "created"
    BY <1>7, <2>1
  <2>2. CASE ctx[c].status # "created"
    <3>1. e = [w EXCEPT ![c].pending = 0]
      BY <2>2 DEF Deliver
    <3>2. 0 \in 0..MaxFrames
      BY ContextsAssumption
    <3> HIDE DEF e
    <3> QED  BY <1>2, <1>7, <2>2, <3>1, <3>2 DEF States
  <2> QED  BY <2>1, <2>2
<1> HIDE DEF e
<1>9. /\ ctx' \in [Contexts -> States]
      /\ \A d \in Contexts : d # c => ctx'[d] = e[d]
      /\ ctx'[c].status = "running" /\ ctx'[c].prev = e[c].prev /\ ctx'[c].vmexec = e[c].vmexec
      /\ ctx'[c].ci = e[c].ci /\ ctx'[c].pending = e[c].pending
  BY <1>1, <1>2, <1>8 DEF States, Statuses
<1>10. ctx'[cur] = b[cur] /\ \A d \in Contexts : d # c /\ d # cur => ctx'[d] = ctx[d]
  BY <1>1, <1>2, <1>5, <1>7, <1>8, <1>9
<1>11. /\ ctx'[cur].status = (IF resume THEN "resumed" ELSE "transferred")
       /\ SameLinks(cur) /\ ctx'[cur].ci = ctx[cur].ci
       /\ IF vm THEN ctx'[cur].pending = ctx[cur].pending
          ELSE ctx'[cur].pending = ctx[cur].ci[Len(ctx[cur].ci)].id
  BY <1>4, <1>5, <1>10 DEF SameLinks
<1>12. /\ ctx'[c].vmexec = (ctx[c].vmexec \/ vm) /\ ctx'[c].prev = (IF resume THEN cur ELSE None)
       /\ ctx'[c].ci = IF ctx[c].status = "created" THEN <<NewFrame(id, "none")>> ELSE ctx[c].ci
       /\ ctx'[c].pending = IF ctx[c].status = "created" THEN ctx[c].pending ELSE 0
  BY <1>5, <1>7, <1>8, <1>9
<1> QED  BY <1>1, <1>9, <1>10, <1>11, <1>12

\* A fiber is resumed.
LEMMA FiberEnters ==
  ASSUME IInv, NEW c \in Fibers, NEW id \in FrameIds, NEW vm \in BOOLEAN, Switch(c, id, TRUE, vm)
  PROVE  IInv' /\ Ensured /\ Delivered /\ Returned
<1>1. /\ host # <<>> /\ flight = Nothing /\ flight' = Nothing /\ c # cur /\ cur' = c /\ ~OverNative(c)
      /\ ctx[c].status \in {"created", "suspended"}
      /\ IF vm THEN PushLoop(c, 1) ELSE host' = host
      /\ ctx' \in [Contexts -> States]
      /\ \A d \in Contexts : d # c /\ d # cur => ctx'[d] = ctx[d]
      /\ ctx'[cur].status = "resumed" /\ SameLinks(cur) /\ ctx'[cur].ci = ctx[cur].ci
      /\ IF vm THEN ctx'[cur].pending = ctx[cur].pending
         ELSE ctx'[cur].pending = ctx[cur].ci[Len(ctx[cur].ci)].id
  BY SwitchFacts, ZenonT(60)
<1>2. /\ ctx'[c].status = "running" /\ ctx'[c].vmexec = (ctx[c].vmexec \/ vm)
      /\ ctx'[c].prev = cur
      /\ ctx[c].status = "created" =>
           ctx'[c].ci = <<NewFrame(id, "none")>> /\ id \notin Used /\ ctx'[c].pending = ctx[c].pending
      /\ ctx[c].status # "created" => ctx'[c].ci = ctx[c].ci /\ ctx'[c].pending = 0
  BY SwitchFacts, ZenonT(60)
<1> HIDE DEF Switch
<1>3. /\ c \in Contexts /\ cur \in Contexts /\ ctx[cur].ci \in Seq(Frames) /\ ctx[cur].ci # <<>>
      /\ Len(ctx[cur].ci) >= 1 /\ Len(ctx[cur].ci) \in Nat
      /\ ctx[cur].ci[Len(ctx[cur].ci)] \in Frames
  BY <1>1, Names, PrevFacts, CiFacts, Alive DEF IInv
<1>4. c \notin Chain(Prev, cur)
  BY <1>1 DEF IInv, Chained
<1>5. ~ctx[c].vmexec
  BY <1>3, <1>4, OutOfTheChain
<1>6. ctx'[c].vmexec = vm
  BY <1>2, <1>5
<1>7. PICK lo : lo = [lc |-> c, stop |-> 1, home |-> cur, frames |-> Ids(ctx[cur].ci)]
  OBVIOUS
<1>8. /\ lo \in Loops /\ lo.lc = c /\ lo.stop = 1 /\ lo.home = cur
      /\ Len(lo.frames) = Len(ctx[cur].ci) /\ \A i \in 1..Len(ctx[cur].ci) : lo.frames[i] = ctx[cur].ci[i].id
  BY <1>3, <1>7, IdsFacts DEF Loops
<1>9. /\ host' \in Seq(Loops) /\ Len(host) \in Nat /\ host' # <<>>
      /\ Len(host') = IF vm THEN Len(host) + 1 ELSE Len(host)
      /\ \A l \in 1..Len(host) : host'[l] = host[l]
      /\ vm => host'[Len(host) + 1] = lo
  <2>1. CASE vm
    <3>1. host' = Append(host, lo)
      BY <1>1, <1>7, <2>1 DEF PushLoop
    <3>2. host \in Seq(Loops) /\ Len(host) \in Nat
      BY HostFacts DEF IInv
    <3> QED  BY <1>8, <2>1, <3>1, <3>2, AppendFacts
  <2>2. CASE ~vm
    BY <1>1, <2>2, HostFacts DEF IInv
  <2> QED  BY <2>1, <2>2
<1>10. Typed'
  <2>1. Nothing \in Flights
    BY DEF Flights
  <2> QED  BY <1>1, <1>3, <1>9, <2>1 DEF Typed
<1>11. \A d \in Contexts : d # c => SameLinks(d) /\ ctx'[d].ci = ctx[d].ci
  BY <1>1 DEF SameLinks
<1>12. ctx[c].ci = <<>> <=> ctx[c].status = "created"
  BY <1>1 DEF IInv, Lives, None
<1>13. Distinct' /\ Aimed' /\ Ensured /\ Delivered /\ Returned /\ \A d \in Contexts : NoNewNative(d)
  <2>1. \/ ctx'[c].ci = ctx[c].ci
        \/ ctx[c].ci = <<>> /\ ctx'[c].ci = <<NewFrame(id, "none")>> /\ id \notin Used
    BY <1>2, <1>12
  <2>2. ASSUME NEW d \in Contexts PROVE ctx'[d].pending = ctx[d].pending \/ ctx'[d].pending # 0 \/ Awaits(d)
    <3>1. CASE d = cur
      <4>1. ctx[cur].ci[Len(ctx[cur].ci)].id # 0
        BY <1>3, NestFacts, ContextsAssumption DEF FrameIds
      <4> QED  BY <1>1, <3>1, <4>1
    <3>2. CASE d = c
      BY <1>1, <1>2, <1>3, <3>2 DEF IInv, Awaiting
    <3>3. CASE d # cur /\ d # c
      BY <1>1, <3>3
    <3> QED  BY <3>1, <3>2, <3>3
  <2>3. host' = host \/ Len(host') = Len(host) + 1
    BY <1>1, <1>9
  <2>4. \A d \in Contexts : d # c => ctx'[d].ci = ctx[d].ci
    BY <1>11
  <2> QED  BY <1>1, <1>3, <1>10, <2>1, <2>2, <2>3, <2>4, SwitchRest
<1>14. Looped'
  <2>1. cur' = c /\ host # <<>> /\ ctx'[c].prev = cur
    BY <1>1, <1>2
  <2>2. NoNewNative(c)
    BY <1>3, <1>13
  <2>3. /\ Len(host') = IF vm THEN Len(host) + 1 ELSE Len(host)
        /\ \A l \in 1..Len(host) : host'[l] = host[l]
        /\ vm => host'[Len(host) + 1] = lo
    BY <1>9
  <2>4. /\ lo \in Loops /\ lo.lc = c /\ lo.stop = 1 /\ lo.home = cur
        /\ Len(lo.frames) = Len(ctx[cur].ci)
        /\ \A i \in 1..Len(ctx[cur].ci) : lo.frames[i] = ctx[cur].ci[i].id
    BY <1>8
  <2> QED  BY <1>4, <1>6, <1>10, <1>11, <2>1, <2>2, <2>3, <2>4, LoopsEnter, ZenonT(60)
<1>15. Lives' /\ Chained' /\ Awaiting'
  <2>1. ctx'[c].ci # <<>> /\ ctx'[c].ci[1].cci = "none"
    <3>1. CASE ctx[c].status = "created"
      <4> DEFINE s == <<NewFrame(id, "none")>>
      <4>1. s # <<>> /\ s[1].cci = "none"
        BY DEF NewFrame
      <4>2. ctx'[c].ci = s
        BY <1>2, <3>1
      <4> HIDE DEF s
      <4> QED  BY <4>1, <4>2
    <3>2. CASE ctx[c].status # "created"
      BY <1>2, <1>12, <3>2 DEF IInv, Lives
    <3> QED  BY <3>1, <3>2
  <2>2. ctx'[c].vmexec \/ AwaitsNext(cur)
    BY <1>1, <1>3, <1>6 DEF AwaitsNext
  <2>3. \A d \in Contexts : d # c /\ d # cur => SameRest(d)
    BY <1>1 DEF SameRest
  <2> QED  BY <1>1, <1>2, <1>4, <1>9, <1>10, <1>11, <2>1, <2>2, <2>3, GoesIn
<1> QED  BY <1>10, <1>13, <1>14, <1>15 DEF IInv

\* A context is transferred to.
LEMMA Transferred ==
  ASSUME IInv, NEW c \in Contexts, NEW id \in FrameIds, Transfer(c, id)
  PROVE  IInv' /\ Ensured /\ Delivered /\ Returned
<1>1. /\ host # <<>> /\ flight = Nothing /\ c # cur /\ ctx[c].status # "resumed"
      /\ \A x \in Chain(Prev, cur) : ~OverNative(x) /\ ~ctx[x].vmexec
  BY ResumersAreTheChain DEF Transfer, Executes
<1>2. /\ cur \in Contexts /\ ctx[cur].ci \in Seq(Frames) /\ ctx[cur].ci # <<>>
      /\ Len(ctx[cur].ci) >= 1 /\ Len(ctx[cur].ci) \in Nat
      /\ ctx[cur].ci[Len(ctx[cur].ci)] \in Frames /\ ctx \in [Contexts -> States]
  BY <1>1, PrevFacts, CiFacts, Alive DEF IInv, Typed
<1>3. c \notin Chain(Prev, cur)
  BY <1>1 DEF IInv, Chained
<1>4. /\ host' = host /\ flight' = Nothing /\ cur' = c /\ ctx' \in [Contexts -> States]
      /\ \A d \in Contexts : d # c /\ d # cur => ctx'[d] = ctx[d]
      /\ ctx'[cur].status = "transferred" /\ SameLinks(cur) /\ ctx'[cur].ci = ctx[cur].ci
      /\ ctx'[cur].pending = ctx[cur].ci[Len(ctx[cur].ci)].id
      /\ ctx'[c].status = "running" /\ ctx'[c].prev = None /\ ctx'[c].vmexec = ctx[c].vmexec
      /\ \/ ctx'[c].ci = ctx[c].ci /\ ctx[c].ci # <<>> /\ ctx'[c].pending = 0 /\ Awaits(c)
         \/ /\ c \in Fibers /\ ctx[c].ci = <<>> /\ ctx'[c].ci = <<NewFrame(id, "none")>> /\ id \notin Used
            /\ ctx'[c].pending = ctx[c].pending
  <2>1. CASE c = Root
    <3> DEFINE k == Last(ctx[cur].ci).id
    <3>1. /\ k = ctx[cur].ci[Len(ctx[cur].ci)].id /\ k \in 0..MaxFrames
      BY <1>2, NestFacts, ContextsAssumption DEF Last, FrameIds
    <3> DEFINE a == [ctx EXCEPT ![cur].pending = k]
               b == [a EXCEPT ![cur].status = "transferred"]
               e == [b EXCEPT ![Root].pending = 0]
    <3>2. /\ ctx' = [e EXCEPT ![Root].status = "running"]
          /\ host' = host /\ flight' = flight /\ cur' = Root
      BY <2>1 DEF Transfer, SwitchTo, Deliver, Await
    <3> HIDE DEF k
    <3>3. /\ a \in [Contexts -> States] /\ a[cur].pending = k
          /\ a[cur].status = ctx[cur].status /\ a[cur].ci = ctx[cur].ci
          /\ a[cur].prev = ctx[cur].prev /\ a[cur].vmexec = ctx[cur].vmexec
          /\ \A d \in Contexts : d # cur => a[d] = ctx[d]
      BY <1>2, <3>1 DEF States
    <3> HIDE DEF a
    <3>4. /\ b \in [Contexts -> States] /\ b[cur].pending = k
          /\ b[cur].status = "transferred" /\ b[cur].ci = ctx[cur].ci
          /\ b[cur].prev = ctx[cur].prev /\ b[cur].vmexec = ctx[cur].vmexec
          /\ \A d \in Contexts : d # cur => b[d] = ctx[d]
      BY <1>2, <3>3 DEF States, Statuses
    <3> HIDE DEF b
    <3>5. /\ e \in [Contexts -> States] /\ e[Root].pending = 0
          /\ e[Root].status = ctx[Root].status /\ e[Root].ci = ctx[Root].ci
          /\ e[Root].prev = ctx[Root].prev /\ e[Root].vmexec = ctx[Root].vmexec
          /\ \A d \in Contexts : d # Root => e[d] = b[d]
      <4>1. 0 \in 0..MaxFrames /\ Root # cur /\ b[Root] = ctx[Root]
        BY <1>1, <2>1, <3>4, ContextsAssumption, Names
      <4> QED  BY <3>4, <4>1, Names DEF States
    <3> HIDE DEF e
    <3>6. /\ ctx' \in [Contexts -> States] /\ ctx'[Root].pending = 0
          /\ ctx'[Root].status = "running" /\ ctx'[Root].ci = ctx[Root].ci
          /\ ctx'[Root].prev = ctx[Root].prev /\ ctx'[Root].vmexec = ctx[Root].vmexec
          /\ \A d \in Contexts : d # Root => ctx'[d] = b[d]
      BY <3>2, <3>5, Names DEF States, Statuses
    <3>7. Awaits(Root) /\ ctx[Root].prev = None /\ ctx[Root].ci # <<>>
      BY <1>1, <1>3, <2>1, Alive DEF IInv, Awaiting, Lives
    <3>8. ctx'[cur] = b[cur] /\ \A d \in Contexts : d # Root /\ d # cur => ctx'[d] = ctx[d]
      BY <1>1, <1>2, <2>1, <3>4, <3>6
    <3>9. SameLinks(cur)
      BY <3>4, <3>8 DEF SameLinks
    <3> QED  BY <1>1, <2>1, <3>1, <3>2, <3>4, <3>6, <3>7, <3>8, <3>9
  <2>2. CASE c # Root
    <3>0. c \in Fibers /\ Switch(c, id, FALSE, FALSE)
      BY <2>2, Names DEF Transfer
    <3>1. /\ host' = host /\ flight' = Nothing /\ cur' = c /\ ctx' \in [Contexts -> States]
          /\ \A d \in Contexts : d # c /\ d # cur => ctx'[d] = ctx[d]
          /\ ctx'[cur].status = "transferred" /\ SameLinks(cur) /\ ctx'[cur].ci = ctx[cur].ci
          /\ ctx'[cur].pending = ctx[cur].ci[Len(ctx[cur].ci)].id
      BY <3>0, SwitchFacts, ZenonT(60)
    <3>2. /\ ctx'[c].status = "running" /\ ctx'[c].prev = None
          /\ ctx'[c].vmexec = (ctx[c].vmexec \/ FALSE)
          /\ ctx[c].status \in {"created", "suspended", "transferred"}
          /\ ctx[c].status = "created" =>
               ctx'[c].ci = <<NewFrame(id, "none")>> /\ id \notin Used /\ ctx'[c].pending = ctx[c].pending
          /\ ctx[c].status # "created" => ctx'[c].ci = ctx[c].ci /\ ctx'[c].pending = 0
      BY <3>0, SwitchFacts, ZenonT(60)
    <3>3. ctx[c].vmexec \in BOOLEAN
      BY <1>2 DEF States
    <3>4. ctx[c].ci = <<>> <=> ctx[c].status = "created"
      BY <3>0, <3>2 DEF IInv, Lives, None
    <3>5. ctx[c].status # "created" => Awaits(c)
      BY <3>2 DEF IInv, Awaiting
    <3>6. \/ ctx'[c].ci = ctx[c].ci /\ ctx[c].ci # <<>> /\ ctx'[c].pending = 0 /\ Awaits(c)
          \/ /\ c \in Fibers /\ ctx[c].ci = <<>> /\ ctx'[c].ci = <<NewFrame(id, "none")>> /\ id \notin Used
             /\ ctx'[c].pending = ctx[c].pending
      BY <3>0, <3>2, <3>4, <3>5
    <3>7. ctx'[c].vmexec = ctx[c].vmexec
      BY <3>2, <3>3
    <3> QED  BY <3>1, <3>2, <3>6, <3>7
  <2> QED  BY <2>1, <2>2
<1> HIDE DEF Transfer
<1>5. Typed'
  <2>1. Nothing \in Flights
    BY DEF Flights
  <2> QED  BY <1>4, <2>1 DEF IInv, Typed
<1>6. \A d \in Contexts : d # c => SameLinks(d) /\ ctx'[d].ci = ctx[d].ci
  BY <1>4 DEF SameLinks
<1>7. Distinct' /\ Aimed' /\ Ensured /\ Delivered /\ Returned /\ \A d \in Contexts : NoNewNative(d)
  <2>1. \/ ctx'[c].ci = ctx[c].ci
        \/ ctx[c].ci = <<>> /\ ctx'[c].ci = <<NewFrame(id, "none")>> /\ id \notin Used
    BY <1>4
  <2>2. ASSUME NEW d \in Contexts PROVE ctx'[d].pending = ctx[d].pending \/ ctx'[d].pending # 0 \/ Awaits(d)
    <3>1. CASE d = cur
      <4>1. ctx[cur].ci[Len(ctx[cur].ci)].id # 0
        BY <1>2, NestFacts, ContextsAssumption DEF FrameIds
      <4> QED  BY <1>4, <3>1, <4>1
    <3>2. CASE d = c
      BY <1>4, <3>2
    <3>3. CASE d # cur /\ d # c
      BY <1>4, <3>3
    <3> QED  BY <3>1, <3>2, <3>3
  <2>4. \A d \in Contexts : d # c => ctx'[d].ci = ctx[d].ci
    BY <1>6
  <2>5. flight' = Nothing /\ host' = host
    BY <1>4
  <2> QED  BY <1>5, <2>1, <2>2, <2>4, <2>5, SwitchRest
<1>8. Looped'
  <2>1. \A d \in Contexts : ctx'[d].vmexec = ctx[d].vmexec /\ NoNewNative(d)
    BY <1>4, <1>6, <1>7 DEF SameLinks
  <2>2. ctx'[Root].ci = ctx[Root].ci
    BY <1>4, <1>6, Names
  <2>3. host' = host
    BY <1>4
  <2> QED  BY <1>1, <1>5, <2>1, <2>2, <2>3, LoopsAcross
<1>9. Lives' /\ Chained' /\ Awaiting'
  <2>1. ctx'[c].ci # <<>> /\ ctx'[c].ci[1].cci = IF c = Root THEN "skip" ELSE "none"
    <3>1. CASE ctx'[c].ci = ctx[c].ci /\ ctx[c].ci # <<>>
      BY <3>1, Names DEF IInv, Lives
    <3>2. CASE c \in Fibers /\ ctx'[c].ci = <<NewFrame(id, "none")>>
      <4>1. NewFrame(id, "none").cci = "none"
        BY DEF NewFrame
      <4> QED  BY <3>2, <4>1, Names
    <3> QED  BY <1>4, <3>1, <3>2
  <2>2. AwaitsNext(cur)
    BY <1>2, <1>4 DEF AwaitsNext
  <2>3. \A d \in Contexts : d # c /\ d # cur => SameRest(d)
    BY <1>4 DEF SameRest
  <2>4. \A x \in Chain(Prev, cur) : ~ctx[x].vmexec
    BY <1>1
  <2>5. /\ cur' = c /\ host' = host /\ ctx'[c].status = "running" /\ ctx'[c].prev = None
        /\ ctx'[c].vmexec = ctx[c].vmexec /\ ctx'[cur].status = "transferred"
    BY <1>4
  <2> QED  BY <1>1, <1>3, <1>5, <1>6, <2>1, <2>2, <2>3, <2>4, <2>5, GoesAcross
<1> QED  BY <1>5, <1>7, <1>8, <1>9 DEF IInv

---------------------------------------------------------------------------
(* Regions and handlers. *)

\* A set of naturals under a bound that is not empty has a greatest element.
LEMMA HasGreatest ==
  ASSUME NEW n \in Nat, NEW S \in SUBSET (0..n), S # {}
  PROVE  \E d \in S : \A e \in S : e <= d
<1> DEFINE R == OpToRel(<, Nat)
           Q == {ss \in Nat \X Nat : ss[1] < ss[2]}
           T == {d \in Nat : n - d \in S}
<1>1. \E d \in T : \A e \in T : ~ (<<e, d>> \in Q)
  <2>1. IsWellFoundedOn(R, Nat)
    BY NatLessThanWellFounded
  <2>2. R = Q
    BY Zenon DEF OpToRel
  <2>3. IsWellFoundedOn(Q, Nat)
    BY <2>1, <2>2, Zenon
  <2>4. T # {} /\ T \subseteq Nat
    <3>1. PICK x : x \in S
      OBVIOUS
    <3>2. n - x \in Nat /\ n - (n - x) = x
      BY <3>1
    <3> QED  BY <3>1, <3>2
  <2> HIDE DEF Q, R, T
  <2> QED  BY <2>3, <2>4, WFMin
<1>2. ASSUME NEW d \in Nat, NEW e \in Nat, e < d
      PROVE  <<e, d>> \in Q
  BY <1>2, SMT
<1> HIDE DEF R, Q
<1>3. PICK d \in T : \A e \in T : ~ (<<e, d>> \in Q)
  BY <1>1
<1>4. ASSUME NEW x \in S PROVE x <= n - d
  <2>1. n - x \in T /\ n - x \in Nat /\ x \in Nat /\ d \in Nat
    <3>1. x \in 0..n /\ n - x \in Nat /\ n - (n - x) = x
      OBVIOUS
    <3> QED  BY <1>3, <3>1
  <2>2. ~ (n - x < d)
    BY <1>2, <1>3, <2>1
  <2> QED  BY <2>1, <2>2
<1> QED  BY <1>3, <1>4

LEMMA InnermostFacts ==
  ASSUME NEW f \in Frames, NEW kinds
  PROVE  /\ Innermost(f, kinds) \in 0..Len(f.nest)
         /\ Innermost(f, kinds) # 0 => f.nest[Innermost(f, kinds)].kind \in kinds
         /\ \A j \in 1..Len(f.nest) : f.nest[j].kind \in kinds => j <= Innermost(f, kinds)
<1> DEFINE n == Len(f.nest)
           at == {i \in 1..n : f.nest[i].kind \in kinds}
<1>1. n \in Nat
  BY NestFacts
<1>2. CASE at = {}
  <2>1. Innermost(f, kinds) = 0
    BY <1>2 DEF Innermost
  <2> QED  BY <1>1, <1>2, <2>1
<1>3. CASE at # {}
  <2>1. at \in SUBSET (0..n)
    BY <1>1
  <2>2. \E d \in at : \A e \in at : e <= d
    <3> HIDE DEF at, n
    <3> QED  BY <1>1, <1>3, <2>1, HasGreatest
  <2>3. Innermost(f, kinds) = CHOOSE d \in at : \A e \in at : e <= d
    BY <1>3 DEF Innermost
  <2>4. Innermost(f, kinds) \in at /\ \A e \in at : e <= Innermost(f, kinds)
    <3> HIDE DEF at
    <3> QED  BY <2>2, <2>3
  <2> QED  BY <1>1, <2>4
<1> QED  BY <1>2, <1>3

LEMMA BodyFacts ==
  ASSUME NEW thing \in Things
  PROVE  Body(thing) \in Items /\ Body(thing).kind = "body" /\ Body(thing).then = thing
BY DEF Body, Items

\* The frame with another nest.
LEMMA WithNest ==
  ASSUME NEW f \in Frames, NEW s \in Seq(Items)
  PROVE  LET g == [f EXCEPT !.nest = s]
         IN  g \in Frames /\ g.id = f.id /\ g.cci = f.cci /\ g.nest = s
BY DEF Frames

LEMMA HandleFacts ==
  ASSUME NEW f \in Frames, NEW i \in 1..Len(f.nest), NEW thing \in Things
  PROVE  /\ Handle(f, i, thing) \in Frames
         /\ Handle(f, i, thing).id = f.id /\ Handle(f, i, thing).cci = f.cci
         /\ Len(Handle(f, i, thing).nest) = i /\ Handle(f, i, thing).nest[i] = Body(thing)
         /\ \A m \in 1..(i - 1) : Handle(f, i, thing).nest[m] = f.nest[m]
<1> DEFINE cut == SubSeq(f.nest, 1, i - 1)
           s == Append(cut, Body(thing))
<1>1. f.nest \in Seq(Items) /\ Len(f.nest) \in Nat /\ i - 1 \in Nat /\ i - 1 <= Len(f.nest)
  BY NestFacts
<1>2. cut \in Seq(Items) /\ Len(cut) = i - 1 /\ \A m \in 1..(i - 1) : cut[m] = f.nest[m]
  BY <1>1, CutFacts
<1>3. Body(thing) \in Items
  BY BodyFacts
<1> HIDE DEF cut
<1>4. /\ s \in Seq(Items) /\ Len(s) = i /\ s[i] = Body(thing)
      /\ \A m \in 1..(i - 1) : s[m] = f.nest[m]
  BY <1>1, <1>2, <1>3, AppendFacts
<1>5. Handle(f, i, thing) = [f EXCEPT !.nest = s]
  BY DEF Handle, cut
<1> HIDE DEF s
<1> QED  BY <1>4, <1>5, WithNest

LEMMA CutNest ==
  ASSUME NEW f \in Frames, NEW to \in Nat, to <= Len(f.nest)
  PROVE  LET g == [f EXCEPT !.nest = SubSeq(@, 1, to)]
         IN  /\ g \in Frames /\ g.id = f.id /\ g.cci = f.cci /\ Len(g.nest) = to
             /\ \A m \in 1..to : g.nest[m] = f.nest[m]
<1> DEFINE s == SubSeq(f.nest, 1, to)
<1>1. s \in Seq(Items) /\ Len(s) = to /\ \A m \in 1..to : s[m] = f.nest[m]
  BY NestFacts, CutFacts
<1>2. [f EXCEPT !.nest = SubSeq(@, 1, to)] = [f EXCEPT !.nest = s]
  OBVIOUS
<1> HIDE DEF s
<1> QED  BY <1>1, <1>2, WithNest

\* A jump leaves no ensure body behind.
LEMMA JumpFacts ==
  ASSUME NEW f \in Frames, NEW to \in Nat, to <= Len(f.nest)
  PROVE  /\ Jump(f, to) \in Frames /\ Jump(f, to).id = f.id /\ Jump(f, to).cci = f.cci
         /\ \A m \in 1..Len(Jump(f, to).nest) :
              \/ m \in 1..Len(f.nest) /\ Jump(f, to).nest[m] = f.nest[m]
              \/ to < m /\ Jump(f, to).nest[m] = Body(Jumping(to))
         /\ \A m \in 1..Len(f.nest) : f.nest[m].kind = "ensure" =>
              m <= Len(Jump(f, to).nest) /\ Jump(f, to).nest[m].kind \in {"ensure", "body"}
<1> DEFINE i == Innermost(f, {"ensure"})
           g == Jump(f, to)
<1>1. /\ i \in 0..Len(f.nest) /\ Len(f.nest) \in Nat
      /\ \A j \in 1..Len(f.nest) : f.nest[j].kind = "ensure" => j <= i
  BY InnermostFacts, NestFacts
<1>2. CASE i > to
  <2>1. g = Handle(f, i, Jumping(to)) /\ i \in 1..Len(f.nest)
    BY <1>1, <1>2 DEF Jump
  <2>2. Jumping(to) \in Things
    BY DEF Jumping, Things, Jumps
  <2>3. /\ g \in Frames /\ g.id = f.id /\ g.cci = f.cci /\ Len(g.nest) = i
        /\ g.nest[i] = Body(Jumping(to)) /\ \A m \in 1..(i - 1) : g.nest[m] = f.nest[m]
    <3> HIDE DEF i, g
    <3> QED  BY <2>1, <2>2, HandleFacts
  <2>4. Body(Jumping(to)).kind = "body"
    BY <2>2, BodyFacts
  <2> HIDE DEF i, g
  <2>5. \A m \in 1..Len(g.nest) :
          \/ m \in 1..Len(f.nest) /\ g.nest[m] = f.nest[m]
          \/ to < m /\ g.nest[m] = Body(Jumping(to))
    BY <1>1, <1>2, <2>1, <2>3
  <2>6. \A m \in 1..Len(f.nest) : f.nest[m].kind = "ensure" =>
          m <= Len(g.nest) /\ g.nest[m].kind \in {"ensure", "body"}
    BY <1>1, <2>1, <2>3, <2>4
  <2> QED  BY <2>3, <2>5, <2>6 DEF g
<1>3. CASE ~(i > to)
  <2>1. g = [f EXCEPT !.nest = SubSeq(@, 1, to)]
    BY <1>3 DEF Jump
  <2>2. /\ g \in Frames /\ g.id = f.id /\ g.cci = f.cci /\ Len(g.nest) = to
        /\ \A m \in 1..to : g.nest[m] = f.nest[m]
    <3> HIDE DEF g
    <3> QED  BY <2>1, CutNest
  <2> HIDE DEF i, g
  <2>3. \A m \in 1..Len(g.nest) : m \in 1..Len(f.nest) /\ g.nest[m] = f.nest[m]
    BY <1>1, <2>2
  <2>4. \A m \in 1..Len(f.nest) : f.nest[m].kind = "ensure" =>
          m <= Len(g.nest) /\ g.nest[m].kind \in {"ensure", "body"}
    BY <1>1, <1>3, <2>2
  <2> QED  BY <2>2, <2>3, <2>4 DEF g
<1> QED  BY <1>2, <1>3

---------------------------------------------------------------------------
(* The actions. *)

\* The top frame of a program under way, and its nest.
LEMMA TopNest ==
  ASSUME IInv, host # <<>>
  PROVE  /\ cur \in Contexts /\ Top \in Frames /\ Len(ctx[cur].ci) \in Nat /\ Len(ctx[cur].ci) >= 1
         /\ Len(ctx[cur].ci) \in 1..Len(ctx[cur].ci)
         /\ Top = ctx[cur].ci[Len(ctx[cur].ci)]
         /\ Top.nest \in Seq(Items) /\ Len(Top.nest) \in Nat
         /\ Top.nest # <<>> <=> Len(Top.nest) >= 1
         /\ Top.nest # <<>> => Last(Top.nest) = Top.nest[Len(Top.nest)]
         /\ \A m \in 1..Len(Top.nest) :
              /\ Top.nest[m] \in Items
              /\ Top.nest[m].kind = "body" => Sound(cur, Len(ctx[cur].ci), m, Top.nest[m].then)
<1>1. /\ cur \in Contexts /\ Top \in Frames /\ Len(ctx[cur].ci) \in Nat /\ Len(ctx[cur].ci) >= 1
      /\ Top = ctx[cur].ci[Len(ctx[cur].ci)]
  BY PrevFacts, TopIsTheLoops DEF IInv
<1>2. Len(ctx[cur].ci) \in 1..Len(ctx[cur].ci)
  BY <1>1
<1>3. ASSUME NEW m \in 1..Len(Top.nest), Top.nest[m].kind = "body"
      PROVE  Sound(cur, Len(ctx[cur].ci), m, Top.nest[m].then)
  BY <1>1, <1>2, <1>3 DEF IInv, Aimed
<1>4. /\ Top.nest \in Seq(Items) /\ Len(Top.nest) \in Nat
      /\ Top.nest # <<>> <=> Len(Top.nest) >= 1
      /\ Top.nest # <<>> => Last(Top.nest) = Top.nest[Len(Top.nest)]
      /\ \A m \in 1..Len(Top.nest) : Top.nest[m] \in Items
  BY <1>1, NestFacts
<1> QED  BY <1>1, <1>2, <1>3, <1>4

\* A handler takes over, what was under way kept in its body.
LEMMA Handled ==
  ASSUME IInv, host # <<>>, NEW i \in 1..Len(Top.nest), NEW thing \in Things,
         \A m \in 1..Len(Top.nest) : Top.nest[m].kind = "ensure" => m <= i,
         Aims(cur, thing), thing.kind # "jump",
         SetTop(Handle(Top, i, thing)), flight' = Nothing, cur' = cur, host' = host
  PROVE  IInv' /\ Ensured /\ Delivered /\ Returned
<1>1. PICK f : f = Handle(Top, i, thing)
  OBVIOUS
<1>2. /\ f \in Frames /\ f.id = Top.id /\ f.cci = Top.cci
      /\ Len(f.nest) = i /\ f.nest[i] = Body(thing)
      /\ \A m \in 1..(i - 1) : f.nest[m] = Top.nest[m]
  BY <1>1, TopNest, HandleFacts
<1>3. SetTop(f)
  BY <1>1
<1>4. Body(thing).kind = "body" /\ Body(thing).then = thing
  BY BodyFacts
<1>5. Sound(cur, Len(ctx[cur].ci), i, thing)
  <2>1. ASSUME thing.kind = "unwind" PROVE thing.idx <= Len(ctx[cur].ci)
    BY <2>1 DEF Aims
  <2> QED  BY <2>1 DEF Sound
<1>6. i \in Nat /\ i >= 1 /\ i <= Len(Top.nest) /\ Len(Top.nest) \in Nat
  BY TopNest
<1>7. \A m \in 1..Len(f.nest) : f.nest[m].kind = "body" => Sound(cur, Len(ctx[cur].ci), m, f.nest[m].then)
  <2> SUFFICES ASSUME NEW m \in 1..Len(f.nest), f.nest[m].kind = "body"
               PROVE  Sound(cur, Len(ctx[cur].ci), m, f.nest[m].then)
    OBVIOUS
  <2>1. CASE m = i
    BY <1>2, <1>4, <1>5, <2>1
  <2>2. CASE m # i
    <3>1. m \in 1..Len(Top.nest) /\ f.nest[m] = Top.nest[m]
      BY <1>2, <1>6, <2>2
    <3> QED  BY <3>1, TopNest
  <2> QED  BY <2>1, <2>2
<1>8. \A m \in 1..Len(Top.nest) : Top.nest[m].kind = "ensure" =>
        m <= Len(f.nest) /\ f.nest[m].kind \in {"ensure", "body"}
  BY <1>2, <1>4, <1>6
<1>9. flight' \in Flights /\ Aims(cur, flight') /\ flight'.kind # "native"
  BY DEF Flights, Aims, Nothing
<1> HIDE DEF SetTop
<1> QED  BY <1>2, <1>3, <1>7, <1>8, <1>9, TopSet

LEMMA EnterKeeps ==
  ASSUME IInv, NEW kind \in {"rescue", "ensure"}, Enter(kind)
  PROVE  IInv' /\ Ensured /\ Delivered /\ Returned
<1>1. host # <<>> /\ flight = Nothing /\ flight' = flight /\ cur' = cur /\ host' = host
  BY DEF Enter, Executes
<1> DEFINE s == Append(Top.nest, Region(kind))
<1>2. PICK f : f = [Top EXCEPT !.nest = s]
  OBVIOUS
<1>3. SetTop(f)
  BY <1>2 DEF Enter
<1>4. Region(kind) \in Items /\ Region(kind).kind = kind
  BY DEF Region, Items
<1>5. s \in Seq(Items) /\ Len(s) = Len(Top.nest) + 1 /\ s[Len(Top.nest) + 1] = Region(kind)
      /\ \A m \in 1..Len(Top.nest) : s[m] = Top.nest[m]
  BY <1>1, <1>4, TopNest, AppendFacts
<1> HIDE DEF s
<1>6. f \in Frames /\ f.id = Top.id /\ f.cci = Top.cci /\ f.nest = s
  BY <1>1, <1>2, <1>5, TopNest, WithNest
<1>7. Len(Top.nest) \in Nat
  BY <1>1, TopNest
<1>8. ASSUME NEW m \in 1..Len(f.nest), f.nest[m].kind = "body"
      PROVE  Sound(cur, Len(ctx[cur].ci), m, f.nest[m].then)
  <2>1. m # Len(Top.nest) + 1
    BY <1>4, <1>5, <1>6, <1>8
  <2>2. m \in 1..Len(Top.nest) /\ f.nest[m] = Top.nest[m]
    BY <1>5, <1>6, <1>7, <2>1
  <2> QED  BY <1>1, <1>8, <2>2, TopNest
<1>9. \A m \in 1..Len(Top.nest) : Top.nest[m].kind = "ensure" =>
        m <= Len(f.nest) /\ f.nest[m].kind \in {"ensure", "body"}
  BY <1>5, <1>6, <1>7
<1>10. flight' \in Flights /\ Aims(cur, flight') /\ flight'.kind # "native"
  BY <1>1 DEF Flights, Aims, Nothing
<1> HIDE DEF SetTop, Enter
<1> QED  BY <1>1, <1>3, <1>6, <1>8, <1>9, <1>10, TopSet

LEMMA JmpuwKeeps ==
  ASSUME IInv, NEW to \in Nat, Jmpuw(to)
  PROVE  IInv' /\ Ensured /\ Delivered /\ Returned
<1>1. /\ host # <<>> /\ flight = Nothing /\ flight' = flight /\ cur' = cur /\ host' = host
      /\ to < Len(Top.nest)
  BY DEF Jmpuw, Executes
<1>2. PICK f : f = Jump(Top, to)
  OBVIOUS
<1>3. SetTop(f)
  BY <1>2 DEF Jmpuw
<1>4. to <= Len(Top.nest) /\ Top \in Frames
  BY <1>1, TopNest
<1>5. /\ f \in Frames /\ f.id = Top.id /\ f.cci = Top.cci
      /\ \A m \in 1..Len(f.nest) :
           \/ m \in 1..Len(Top.nest) /\ f.nest[m] = Top.nest[m]
           \/ to < m /\ f.nest[m] = Body(Jumping(to))
      /\ \A m \in 1..Len(Top.nest) : Top.nest[m].kind = "ensure" =>
           m <= Len(f.nest) /\ f.nest[m].kind \in {"ensure", "body"}
  BY <1>2, <1>4, JumpFacts
<1>6. ASSUME NEW m \in 1..Len(f.nest), f.nest[m].kind = "body"
      PROVE  Sound(cur, Len(ctx[cur].ci), m, f.nest[m].then)
  <2>1. CASE m \in 1..Len(Top.nest) /\ f.nest[m] = Top.nest[m]
    BY <1>1, <1>6, <2>1, TopNest
  <2>2. CASE to < m /\ f.nest[m] = Body(Jumping(to))
    BY <2>2 DEF Body, Jumping, Sound, Aims
  <2> QED  BY <1>5, <2>1, <2>2
<1>7. flight' \in Flights /\ Aims(cur, flight') /\ flight'.kind # "native"
  BY <1>1 DEF Flights, Aims, Nothing
<1> HIDE DEF SetTop, Jmpuw
<1> QED  BY <1>1, <1>3, <1>5, <1>6, <1>7, TopSet

\* The innermost region or body is left; it was not an ensure region.
LEMMA OutOfLast ==
  ASSUME IInv, host # <<>>, Top.nest # <<>>, Last(Top.nest).kind # "ensure",
         SetTop([Top EXCEPT !.nest = Front(@)]), cur' = cur, host' = host,
         flight' \in Flights, Aims(cur, flight'), flight'.kind # "native"
  PROVE  IInv' /\ Ensured /\ Delivered /\ Returned
<1> DEFINE k == Len(Top.nest)
<1>1. k \in Nat /\ k >= 1 /\ Last(Top.nest) = Top.nest[k] /\ Top \in Frames /\ k - 1 \in Nat /\ k - 1 <= Len(Top.nest)
  BY TopNest
<1>2. PICK f : f = [Top EXCEPT !.nest = SubSeq(@, 1, k - 1)]
  OBVIOUS
<1>3. SetTop(f)
  BY <1>2 DEF Front
<1>4. f \in Frames /\ f.id = Top.id /\ f.cci = Top.cci /\ Len(f.nest) = k - 1
      /\ \A m \in 1..(k - 1) : f.nest[m] = Top.nest[m]
  BY <1>1, <1>2, CutNest
<1>5. ASSUME NEW m \in 1..Len(f.nest), f.nest[m].kind = "body"
      PROVE  Sound(cur, Len(ctx[cur].ci), m, f.nest[m].then)
  <2>1. m \in 1..k /\ f.nest[m] = Top.nest[m]
    BY <1>1, <1>4
  <2> QED  BY <1>5, <2>1, TopNest
<1>6. \A m \in 1..Len(Top.nest) : Top.nest[m].kind = "ensure" =>
        m <= Len(f.nest) /\ f.nest[m].kind \in {"ensure", "body"}
  BY <1>1, <1>4
<1> HIDE DEF SetTop
<1> QED  BY <1>3, <1>4, <1>5, <1>6, TopSet

LEMMA LeaveKeeps ==
  ASSUME IInv, Leave
  PROVE  IInv' /\ Ensured /\ Delivered /\ Returned
<1>1. /\ host # <<>> /\ flight = Nothing /\ flight' = flight /\ cur' = cur /\ host' = host
      /\ Top.nest # <<>> /\ Last(Top.nest).kind # "body"
  BY DEF Leave, Executes
<1>2. flight' \in Flights /\ Aims(cur, flight') /\ flight'.kind # "native" /\ Nothing \in Things
      /\ Aims(cur, Nothing) /\ Nothing.kind # "jump"
  BY <1>1 DEF Flights, Aims, Nothing, Things
<1>3. CASE Last(Top.nest).kind = "ensure"
  <2>1. SetTop(Handle(Top, Len(Top.nest), Nothing))
    BY <1>3 DEF Leave
  <2>2. Len(Top.nest) \in 1..Len(Top.nest) /\ \A m \in 1..Len(Top.nest) : m <= Len(Top.nest)
    BY <1>1, TopNest
  <2>3. PICK i \in 1..Len(Top.nest) : i = Len(Top.nest)
    BY <2>2
  <2>4. SetTop(Handle(Top, i, Nothing)) /\ \A m \in 1..Len(Top.nest) : Top.nest[m].kind = "ensure" => m <= i
    BY <2>1, <2>2, <2>3
  <2> HIDE DEF SetTop, Leave
  <2> QED  BY <1>1, <1>2, <2>4, Handled
<1>4. CASE Last(Top.nest).kind # "ensure"
  <2>1. SetTop([Top EXCEPT !.nest = Front(@)])
    BY <1>4 DEF Leave
  <2> HIDE DEF SetTop, Leave
  <2> QED  BY <1>1, <1>2, <1>4, <2>1, OutOfLast
<1> QED  BY <1>3, <1>4

LEMMA RescuedKeeps ==
  ASSUME IInv, Rescued
  PROVE  IInv' /\ Ensured /\ Delivered /\ Returned
<1>1. /\ host # <<>> /\ flight = Nothing /\ flight' = flight /\ cur' = cur /\ host' = host
      /\ Top.nest # <<>> /\ Last(Top.nest) = Body(Rescuing) /\ SetTop([Top EXCEPT !.nest = Front(@)])
  BY DEF Rescued, Executes
<1>2. flight' \in Flights /\ Aims(cur, flight') /\ flight'.kind # "native"
  BY <1>1 DEF Flights, Aims, Nothing
<1>3. Last(Top.nest).kind # "ensure"
  BY <1>1 DEF Body
<1> HIDE DEF SetTop, Rescued
<1> QED  BY <1>1, <1>2, <1>3, OutOfLast

LEMMA RaiseifKeeps ==
  ASSUME IInv, Raiseif
  PROVE  IInv' /\ Ensured /\ Delivered /\ Returned
<1> DEFINE k == Len(Top.nest)
           thing == Top.nest[k].then
           f == [Top EXCEPT !.nest = Front(@)]
<1>0. /\ host # <<>> /\ flight = Nothing /\ Top.nest # <<>> /\ Last(Top.nest).kind = "body"
      /\ cur' = cur /\ host' = host
  BY DEF Raiseif, Executes
<1>1. /\ k \in Nat /\ k >= 1 /\ Last(Top.nest) = Top.nest[k] /\ Top \in Frames /\ k - 1 \in Nat /\ k - 1 <= Len(Top.nest)
      /\ k \in 1..Len(Top.nest) /\ Top.nest[k] \in Items
  BY <1>0, TopNest
<1>2. /\ SetTop(IF thing.kind = "jump" THEN Jump(f, thing.to) ELSE f)
      /\ flight' = CASE thing.kind = "jump" -> Nothing
                     [] thing.kind = "rescue" -> Raising
                     [] OTHER -> thing
  BY <1>1 DEF Raiseif
<1>3. thing \in Things /\ Sound(cur, Len(ctx[cur].ci), k, thing) /\ Top.nest[k].kind = "body"
  BY <1>0, <1>1, TopNest, ItemFacts
<1> HIDE DEF Raiseif, SetTop, thing
<1>4. thing.kind \in {"unwind", "jump", "raise", "nothing", "rescue"}
  BY <1>3, ThingFacts
<1>5. CASE thing.kind # "jump"
  <2>1. SetTop(f)
    BY <1>2, <1>5
  <2>2. flight' \in Flights /\ Aims(cur, flight') /\ flight'.kind # "native"
    <3>1. CASE thing.kind = "rescue"
      <4>1. flight' = Raising
        BY <1>2, <3>1
      <4> QED  BY <4>1 DEF Flights, Aims, Raising
    <3>2. CASE thing.kind # "rescue"
      <4>1. flight' = thing
        BY <1>2, <1>5, <3>2
      <4>2. thing \in Flights /\ thing.kind # "native"
        BY <1>3, <1>4, <1>5, <3>2, ThingFacts DEF Flights
      <4> QED  BY <1>3, <4>1, <4>2 DEF Sound
    <3> QED  BY <3>1, <3>2
  <2>3. Last(Top.nest).kind # "ensure"
    BY <1>0
  <2> QED  BY <1>0, <2>1, <2>2, <2>3, OutOfLast
<1>6. CASE thing.kind = "jump"
  <2> DEFINE to == thing.to
  <2>1. SetTop(Jump(f, to)) /\ flight' = Nothing
    BY <1>2, <1>6
  <2>2. to \in Nat /\ to < k
    BY <1>3, <1>6, ThingFacts DEF Jumps, Sound
  <2>3. f \in Frames /\ f.id = Top.id /\ f.cci = Top.cci /\ Len(f.nest) = k - 1
        /\ \A m \in 1..(k - 1) : f.nest[m] = Top.nest[m]
    <3>1. f = [Top EXCEPT !.nest = SubSeq(@, 1, k - 1)]
      BY DEF Front
    <3> HIDE DEF f, k
    <3> QED  BY <1>1, <3>1, CutNest
  <2> HIDE DEF f, to
  <2>4. to <= Len(f.nest)
    BY <1>1, <2>2, <2>3
  <2>5. PICK g : g = Jump(f, to)
    OBVIOUS
  <2>6. /\ g \in Frames /\ g.id = f.id /\ g.cci = f.cci
        /\ \A m \in 1..Len(g.nest) :
             \/ m \in 1..Len(f.nest) /\ g.nest[m] = f.nest[m]
             \/ to < m /\ g.nest[m] = Body(Jumping(to))
        /\ \A m \in 1..Len(f.nest) : f.nest[m].kind = "ensure" =>
             m <= Len(g.nest) /\ g.nest[m].kind \in {"ensure", "body"}
    BY <2>2, <2>3, <2>4, <2>5, JumpFacts
  <2>7. ASSUME NEW m \in 1..Len(g.nest), g.nest[m].kind = "body"
        PROVE  Sound(cur, Len(ctx[cur].ci), m, g.nest[m].then)
    <3>1. CASE m \in 1..Len(f.nest) /\ g.nest[m] = f.nest[m]
      <4>1. m \in 1..Len(Top.nest) /\ g.nest[m] = Top.nest[m]
        BY <1>1, <2>3, <3>1
      <4> QED  BY <1>0, <2>7, <4>1, TopNest
    <3>2. CASE to < m /\ g.nest[m] = Body(Jumping(to))
      BY <3>2 DEF Body, Jumping, Sound, Aims
    <3> QED  BY <2>6, <3>1, <3>2
  <2>8. ASSUME NEW m \in 1..Len(Top.nest), Top.nest[m].kind = "ensure"
        PROVE  m <= Len(g.nest) /\ g.nest[m].kind \in {"ensure", "body"}
    <3>1. m # k
      BY <1>3, <2>8
    <3>2. m \in 1..Len(f.nest) /\ f.nest[m] = Top.nest[m]
      BY <1>1, <2>3, <3>1
    <3> QED  BY <2>6, <2>8, <3>2
  <2>9. flight' \in Flights /\ Aims(cur, flight') /\ flight'.kind # "native"
    BY <2>1 DEF Flights, Aims, Nothing
  <2>10. SetTop(g) /\ g.id = Top.id /\ g.cci = Top.cci
    BY <2>1, <2>3, <2>5, <2>6
  <2> QED  BY <1>0, <2>6, <2>7, <2>8, <2>9, <2>10, TopSet
<1> QED  BY <1>5, <1>6

LEMMA DeliverFacts ==
  ASSUME NEW a \in [Contexts -> States], NEW r \in Contexts
  PROVE  /\ Deliver(a, r) \in [Contexts -> States]
         /\ \A c \in Contexts : c # r => Deliver(a, r)[c] = a[c]
         /\ Deliver(a, r)[r].status = a[r].status /\ Deliver(a, r)[r].prev = a[r].prev
         /\ Deliver(a, r)[r].vmexec = a[r].vmexec /\ Deliver(a, r)[r].ci = a[r].ci
<1>1. 0 \in 0..MaxFrames
  BY ContextsAssumption
<1> QED  BY <1>1 DEF Deliver, States

\* The running context has changed, and another goes on.
LEMMA BackFacts ==
  ASSUME cur \in Contexts, NEW a \in [Contexts -> States], NEW b, NEW r \in Contexts, r # cur,
         \A c \in Contexts : c # cur => a[c] = ctx[c],
         b = a \/ b = Deliver(a, r), SwitchTo(b, r)
  PROVE  /\ ctx' \in [Contexts -> States] /\ cur' = r /\ ctx'[cur] = a[cur]
         /\ \A c \in Contexts : c # cur =>
              /\ SameLinks(c) /\ ctx'[c].ci = ctx[c].ci
              /\ ctx'[c].status = (IF c = r THEN "running" ELSE ctx[c].status)
              /\ c # r \/ b = a => ctx'[c].pending = ctx[c].pending
<1>1. /\ b \in [Contexts -> States] /\ \A c \in Contexts : c # r => b[c] = a[c]
      /\ b[r].status = a[r].status /\ b[r].prev = a[r].prev /\ b[r].vmexec = a[r].vmexec /\ b[r].ci = a[r].ci
  BY DeliverFacts
<1>2. ctx' = [b EXCEPT ![r].status = "running"] /\ cur' = r
  BY DEF SwitchTo
<1>3. /\ ctx' \in [Contexts -> States] /\ \A c \in Contexts : c # r => ctx'[c] = b[c]
      /\ ctx'[r].status = "running" /\ ctx'[r].prev = b[r].prev /\ ctx'[r].vmexec = b[r].vmexec
      /\ ctx'[r].ci = b[r].ci /\ ctx'[r].pending = b[r].pending
  <2>1. /\ ctx' = [c \in Contexts |-> ctx'[c]] /\ \A c \in Contexts : c # r => ctx'[c] = b[c]
        /\ ctx'[r] = [b[r] EXCEPT !.status = "running"]
    BY <1>1, <1>2
  <2>2. b[r] \in States
    BY <1>1
  <2>3. /\ ctx'[r] \in States /\ ctx'[r].status = "running" /\ ctx'[r].prev = b[r].prev
        /\ ctx'[r].vmexec = b[r].vmexec /\ ctx'[r].ci = b[r].ci /\ ctx'[r].pending = b[r].pending
    BY <2>1, <2>2 DEF States, Statuses
  <2>4. \A c \in Contexts : ctx'[c] \in States
    BY <1>1, <2>1, <2>3
  <2> QED  BY <2>1, <2>3, <2>4
<1>4. ctx'[cur] = a[cur]
  BY <1>1, <1>3
<1>5. ASSUME NEW c \in Contexts, c # cur
      PROVE  /\ SameLinks(c) /\ ctx'[c].ci = ctx[c].ci
             /\ ctx'[c].status = (IF c = r THEN "running" ELSE ctx[c].status)
             /\ c # r \/ b = a => ctx'[c].pending = ctx[c].pending
  <2>1. CASE c = r
    BY <1>1, <1>3, <1>5, <2>1 DEF SameLinks
  <2>2. CASE c # r
    BY <1>1, <1>3, <1>5, <2>2 DEF SameLinks
  <2> QED  BY <2>1, <2>2
<1> QED  BY <1>2, <1>3, <1>4, <1>5

\* Where the running fiber goes back to is another context.
LEMMA ResumerFacts ==
  ASSUME IInv, cur \in Fibers
  PROVE  /\ Resumer(cur) \in Contexts /\ Resumer(cur) # cur /\ cur \in Contexts
         /\ ctx \in [Contexts -> States]
<1>1. Resumer(cur) \in Contexts /\ IF ctx[cur].prev = None THEN Resumer(cur) = Root ELSE Resumer(cur) = ctx[cur].prev
  BY Names DEF IInv, Typed, States, Resumer
<1> QED  BY <1>1, ChainBack DEF IInv, Typed

\* The running fiber's last frame goes.
LEMMA FiberEnds ==
  ASSUME IInv, host # <<>>, cur # Root, Len(ctx[cur].ci) = 1, Plain(Top),
         NEW b, b = Terminated(ctx, cur) \/ b = Deliver(Terminated(ctx, cur), Resumer(cur)),
         ctx[cur].vmexec => b = Terminated(ctx, cur),
         SwitchTo(b, Resumer(cur)),
         IF ctx[cur].vmexec THEN host' = Front(host) ELSE host' = host,
         flight' \in {Nothing, Raising, Native(Value), Native(Raising)}
  PROVE  IInv' /\ Ensured /\ Delivered /\ Returned
<1>1. cur \in Contexts /\ cur \in Fibers
  BY PrevFacts, Names DEF IInv
<1>2. ~OverNative(cur)
  <2> DEFINE n == Len(ctx[cur].ci)
  <2>1. n = 1
    OBVIOUS
  <2>2. n <= 1
    <3> HIDE DEF n
    <3> QED  BY <2>1
  <2> QED  BY <1>1, <2>2, OneFrameNoNative, Zenon
<1> DEFINE a == Terminated(ctx, cur)
           r == Resumer(cur)
<1>3. r \in Contexts /\ r # cur /\ ctx \in [Contexts -> States]
  BY <1>1, ResumerFacts
<1>4. /\ a \in [Contexts -> States] /\ \A c \in Contexts : c # cur => a[c] = ctx[c]
      /\ a[cur].status = "terminated" /\ a[cur].prev = None /\ a[cur].vmexec = FALSE /\ a[cur].ci = <<>>
      /\ a[cur].pending = ctx[cur].pending
  <2>1. <<>> \in Seq(Frames)
    OBVIOUS
  <2> QED  BY <1>1, <1>3, <2>1 DEF Terminated, States, Statuses
<1>5. b = a \/ b = Deliver(a, r)
  OBVIOUS
<1>6. SwitchTo(b, r)
  OBVIOUS
<1> HIDE DEF a, r, Resumer, SwitchTo
<1>7. /\ ctx' \in [Contexts -> States] /\ cur' = r /\ ctx'[cur] = a[cur]
      /\ \A c \in Contexts : c # cur =>
           /\ SameLinks(c) /\ ctx'[c].ci = ctx[c].ci
           /\ ctx'[c].status = (IF c = r THEN "running" ELSE ctx[c].status)
           /\ c # r \/ b = a => ctx'[c].pending = ctx[c].pending
  BY <1>1, <1>3, <1>4, <1>5, <1>6, BackFacts
<1>8. ctx[cur].vmexec => b = a
  BY DEF a
<1>9. \A c \in Contexts : c # cur =>
        /\ SameLinks(c) /\ ctx'[c].ci = ctx[c].ci
        /\ ctx'[c].status = IF c = cur' THEN "running" ELSE ctx[c].status
        /\ c # cur' \/ ctx[cur].vmexec => ctx'[c].pending = ctx[c].pending
  BY <1>7, <1>8
<1>10. /\ ctx'[cur].prev = None /\ ~ctx'[cur].vmexec
       /\ ctx'[cur].status = "terminated" /\ ctx'[cur].ci = <<>> /\ ctx'[cur].pending = ctx[cur].pending
  BY <1>4, <1>7
<1>11. cur' = Resumer(cur)
  BY <1>7 DEF r
<1> QED  BY <1>1, <1>2, <1>7, <1>9, <1>10, <1>11, FiberLeaves

LEMMA YieldKeeps ==
  ASSUME IInv, Yield
  PROVE  IInv' /\ Ensured /\ Delivered /\ Returned
<1>1. host # <<>> /\ flight = Nothing /\ ctx[cur].prev # None /\ cur # Root /\ ~OverNative(cur)
  BY DEF Yield, Executes
<1>2. cur \in Contexts /\ cur \in Fibers
  BY <1>1, PrevFacts, Names DEF IInv
<1> DEFINE r == ctx[cur].prev
           k == Last(ctx[cur].ci).id
           a == [Await(ctx, cur) EXCEPT ![cur].status = "suspended", ![cur].prev = None, ![cur].vmexec = FALSE]
           b == IF ctx[cur].vmexec THEN a ELSE Deliver(a, r)
<1>3. r = Resumer(cur) /\ r \in Contexts /\ r # cur /\ ctx \in [Contexts -> States]
  BY <1>1, <1>2, ResumerFacts DEF Resumer
<1>4. /\ ctx[cur].ci # <<>> /\ k = ctx[cur].ci[Len(ctx[cur].ci)].id /\ k \in 0..MaxFrames
  <2>1. ctx[cur].ci \in Seq(Frames) /\ ctx[cur].ci # <<>> /\ Last(ctx[cur].ci) = ctx[cur].ci[Len(ctx[cur].ci)]
        /\ Last(ctx[cur].ci) \in Frames
    BY <1>1, <1>2, CiFacts, TopFacts, Alive, PrevFacts DEF IInv
  <2> QED  BY <2>1, NestFacts, ContextsAssumption DEF FrameIds
<1>5. /\ SwitchTo(b, r) /\ (IF ctx[cur].vmexec THEN host' = Front(host) ELSE host' = host)
      /\ flight' = IF ctx[cur].vmexec THEN Native(Value) ELSE Nothing
  BY <1>1 DEF Yield, EndLoop
<1> HIDE DEF k
<1>6. /\ a \in [Contexts -> States] /\ \A c \in Contexts : c # cur => a[c] = ctx[c]
      /\ a[cur].status = "suspended" /\ a[cur].prev = None /\ a[cur].vmexec = FALSE
      /\ a[cur].ci = ctx[cur].ci /\ a[cur].pending = k
  <2> DEFINE e == [ctx EXCEPT ![cur].pending = k]
  <2>1. a = [e EXCEPT ![cur].status = "suspended", ![cur].prev = None, ![cur].vmexec = FALSE]
    BY DEF Await, k
  <2>2. /\ e \in [Contexts -> States] /\ \A c \in Contexts : c # cur => e[c] = ctx[c]
        /\ e[cur].ci = ctx[cur].ci /\ e[cur].pending = k
    BY <1>2, <1>3, <1>4 DEF States
  <2> HIDE DEF a, e
  <2>3. \A c \in Contexts : c # cur => a[c] = e[c]
    BY <2>1, <2>2
  <2>4. a = [c \in Contexts |-> a[c]] /\ a[cur] = [e[cur] EXCEPT !.status = "suspended", !.prev = None, !.vmexec = FALSE]
    BY <1>2, <2>1, <2>2
  <2>5. e[cur] \in States
    BY <1>2, <2>2
  <2>6. /\ a[cur] \in States /\ a[cur].status = "suspended" /\ a[cur].prev = None /\ a[cur].vmexec = FALSE
        /\ a[cur].ci = e[cur].ci /\ a[cur].pending = e[cur].pending
    BY <2>4, <2>5 DEF States, Statuses
  <2>7. a \in [Contexts -> States]
    <3>1. \A c \in Contexts : a[c] \in States
      BY <2>2, <2>3, <2>6
    <3> QED  BY <2>4, <3>1
  <2> QED  BY <2>2, <2>3, <2>6, <2>7
<1> HIDE DEF a
<1>7. b = a \/ b = Deliver(a, r)
  OBVIOUS
<1>8. ctx[cur].vmexec => b = a
  OBVIOUS
<1> HIDE DEF b, r, SwitchTo, Resumer, Yield
<1>9. /\ ctx' \in [Contexts -> States] /\ cur' = r /\ ctx'[cur] = a[cur]
      /\ \A c \in Contexts : c # cur =>
           /\ SameLinks(c) /\ ctx'[c].ci = ctx[c].ci
           /\ ctx'[c].status = (IF c = r THEN "running" ELSE ctx[c].status)
           /\ c # r \/ b = a => ctx'[c].pending = ctx[c].pending
  BY <1>2, <1>3, <1>5, <1>6, <1>7, BackFacts
<1>10. \A c \in Contexts : c # cur =>
         /\ SameLinks(c) /\ ctx'[c].ci = ctx[c].ci
         /\ ctx'[c].status = IF c = cur' THEN "running" ELSE ctx[c].status
         /\ c # cur' \/ ctx[cur].vmexec => ctx'[c].pending = ctx[c].pending
  BY <1>8, <1>9
<1>11. /\ ctx'[cur].prev = None /\ ~ctx'[cur].vmexec
       /\ ctx'[cur].status = "suspended" /\ ctx'[cur].ci = ctx[cur].ci /\ AwaitsNext(cur)
  BY <1>4, <1>6, <1>9 DEF AwaitsNext
<1>12. cur' = Resumer(cur) /\ flight' \in {Nothing, Raising, Native(Value), Native(Raising)}
  BY <1>3, <1>5, <1>9
<1>13. IF ctx[cur].vmexec THEN host' = Front(host) ELSE host' = host
  BY <1>5
<1>14. ctx' \in [Contexts -> States]
  BY <1>9
<1> QED  BY <1>1, <1>2, <1>10, <1>11, <1>12, <1>13, <1>14, FiberLeaves

\* What was made for a frame below the one that goes still has its frame.
LEMMA AimsBelow ==
  ASSUME IInv, host # <<>>, ctx' = Pop(ctx, cur), NEW t \in Leavings, Aims(cur, t), t.idx # Len(ctx[cur].ci)
  PROVE  AimsNext(cur, t)
<1> DEFINE n == Len(ctx[cur].ci)
           s == Front(ctx[cur].ci)
<1>1. cur \in Contexts /\ ctx[cur].ci \in Seq(Frames) /\ ctx[cur].ci # <<>> /\ n \in Nat /\ n >= 1 /\ t.idx \in Nat \ {0}
  BY PrevFacts, CiFacts, TopNest DEF IInv, Leavings
<1>2. Len(s) = n - 1 /\ \A i \in 1..(n - 1) : s[i] = ctx[cur].ci[i]
  BY <1>1, TopFacts
<1>3. ctx'[cur].ci = s
  BY <1>1 DEF Pop, IInv, Typed, States
<1>4. t.idx <= n /\ ctx[cur].ci[t.idx].id = t.id /\ t.idx # n
  <2>1. t.kind = "unwind"
    BY DEF Leavings
  <2> QED  BY <2>1 DEF Aims
<1> HIDE DEF s, n
<1>5. t.idx \in 1..(n - 1)
  BY <1>1, <1>4
<1>6. t.idx <= Len(s) /\ s[t.idx].id = t.id
  BY <1>2, <1>4, <1>5
<1> QED  BY <1>3, <1>6 DEF AimsNext

LEMMA UnwindKeeps ==
  ASSUME IInv, Unwind
  PROVE  IInv' /\ Ensured /\ Delivered /\ Returned
<1> DEFINE n == Len(ctx[cur].ci)
           i == Innermost(Top, {"ensure"})
           ends == Top.cci = "skip" \/ (cur = Loop.lc /\ n <= Loop.stop)
<1>1. /\ host # <<>> /\ flight.kind = "unwind" /\ flight \in Leavings /\ Aims(cur, flight)
  BY FlightFacts DEF Unwind, IInv, Aimed, Typed
<1>2. /\ cur \in Contexts /\ n \in Nat /\ n >= 1 /\ Top \in Frames /\ Len(Top.nest) \in Nat
      /\ flight.idx \in Nat \ {0} /\ flight.idx <= n
  BY <1>1, TopNest DEF Leavings, Aims
<1>3. /\ i \in 0..Len(Top.nest)
      /\ \A j \in 1..Len(Top.nest) : Top.nest[j].kind = "ensure" => j <= i
  BY <1>2, InnermostFacts
<1>4. CASE i # 0
  <2>1. SetTop(Handle(Top, i, flight)) /\ flight' = Nothing /\ cur' = cur /\ host' = host
    BY <1>4 DEF Unwind
  <2>2. flight \in Things /\ flight.kind # "jump"
    BY <1>1 DEF Things
  <2>3. i \in 1..Len(Top.nest)
    BY <1>3, <1>4
  <2>4. PICK k \in 1..Len(Top.nest) : k = i
    BY <2>3
  <2>5. PICK thing \in Things : thing = flight
    BY <2>2
  <2>6. \A m \in 1..Len(Top.nest) : Top.nest[m].kind = "ensure" => m <= k
    BY <1>3, <2>4
  <2>7. SetTop(Handle(Top, k, thing)) /\ Aims(cur, thing) /\ thing.kind # "jump"
    BY <1>1, <2>1, <2>2, <2>4, <2>5
  <2> HIDE DEF i, Unwind, SetTop
  <2> QED  BY <1>1, <2>1, <2>6, <2>7, Handled
<1>5. CASE i = 0
  <2>1. Plain(Top)
    BY <1>2, <1>3, <1>5 DEF Plain
  <2>2. Top.cci = "skip" => ends
    OBVIOUS
  <2>3. ~(n = 1 /\ cur # Root) /\ ends => Top.cci = "skip"
    BY <1>1, <1>2, TopIsTheLoops, Names
  <2>4. CASE n # flight.idx
    <3>1. ~(n = 1 /\ cur # Root)
      <4> HIDE DEF n
      <4> QED  BY <1>2, <2>4
    <3>2. ctx' = Pop(ctx, cur) /\ cur' = cur
          /\ IF ends THEN EndLoop(flight) ELSE host' = host /\ flight' = flight
      BY <1>5, <2>4 DEF Unwind
    <3> HIDE DEF ends, i, Unwind
    <3>3. ends <=> Top.cci = "skip"
      BY <2>2, <2>3, <3>1
    <3>4. IF Top.cci = "skip" THEN host' = Front(host) ELSE host' = host
      BY <3>2, <3>3 DEF EndLoop
    <3>5. flight' = flight \/ flight' = Native(flight)
      BY <3>2, <3>3 DEF EndLoop
    <3>6. AimsNext(cur, flight)
      BY <1>1, <2>4, <3>2, AimsBelow
    <3>7. flight' \in Flights
      BY <1>1, <3>5 DEF Flights, Native, Answers
    <3>8. FlightAims
      <4>1. CASE ends
        <5>1. flight' = Native(flight)
          BY <3>2, <4>1 DEF EndLoop
        <5>2. flight'.kind = "native" /\ flight'.what = flight
          BY <5>1 DEF Native
        <5> QED  BY <3>2, <3>6, <5>2 DEF FlightAims, AimsNext
      <4>2. CASE ~ends
        <5>1. flight' = flight /\ host' = host
          BY <3>2, <4>2
        <5> QED  BY <1>1, <3>2, <3>6, <5>1 DEF FlightAims
      <4> QED  BY <4>1, <4>2
    <3> QED  BY <1>1, <2>1, <3>1, <3>2, <3>4, <3>7, <3>8, TopGone
  <2>5. CASE n = flight.idx /\ n = 1 /\ cur # Root
    <3> DEFINE back == Terminated(ctx, cur)
    <3>1. IF ctx[cur].vmexec
          THEN SwitchTo(back, Resumer(cur)) /\ EndLoop(Value)
          ELSE SwitchTo(Deliver(back, Resumer(cur)), Resumer(cur)) /\ flight' = Nothing /\ host' = host
      BY <1>5, <2>5 DEF Unwind
    <3>2. PICK b : b = IF ctx[cur].vmexec THEN back ELSE Deliver(back, Resumer(cur))
      OBVIOUS
    <3>3. /\ b = back \/ b = Deliver(back, Resumer(cur))
          /\ ctx[cur].vmexec => b = back
          /\ SwitchTo(b, Resumer(cur))
          /\ IF ctx[cur].vmexec THEN host' = Front(host) ELSE host' = host
          /\ flight' \in {Nothing, Raising, Native(Value), Native(Raising)}
      <4> HIDE DEF back, SwitchTo
      <4> QED  BY <3>1, <3>2 DEF EndLoop
    <3>4. cur # Root /\ Len(ctx[cur].ci) = 1
      BY <2>5
    <3> HIDE DEF Unwind, SwitchTo, n, ends, i
    <3> QED  BY <1>1, <2>1, <3>3, <3>4, FiberEnds
  <2>6. CASE n = flight.idx /\ ~(n = 1 /\ cur # Root)
    <3>2. ctx' = Pop(ctx, cur) /\ cur' = cur
          /\ IF ends THEN EndLoop(Value) ELSE flight' = Nothing /\ host' = host
      BY <1>5, <2>6 DEF Unwind
    <3> HIDE DEF ends, i, Unwind
    <3>3. ends <=> Top.cci = "skip"
      BY <2>2, <2>3, <2>6
    <3>4. IF Top.cci = "skip" THEN host' = Front(host) ELSE host' = host
      BY <3>2, <3>3 DEF EndLoop
    <3>5. flight' = Nothing \/ flight' = Native(Value)
      BY <3>2, <3>3 DEF EndLoop
    <3>6. flight' \in Flights /\ FlightAims
      BY <3>5 DEF Flights, Native, Answers, FlightAims, AimsNext, Nothing, Value
    <3>7. ~(Len(ctx[cur].ci) = 1 /\ cur # Root)
      BY <2>6
    <3> QED  BY <1>1, <2>1, <3>2, <3>4, <3>6, <3>7, TopGone
  <2> QED  BY <2>4, <2>5, <2>6
<1> QED  BY <1>4, <1>5

LEMMA RaiseOnKeeps ==
  ASSUME IInv, RaiseOn
  PROVE  IInv' /\ Ensured /\ Delivered /\ Returned
<1> DEFINE n == Len(ctx[cur].ci)
           i == Innermost(Top, {"rescue", "ensure"})
           ends == cur = Loop.lc /\ n <= Loop.stop
<1>1. /\ host # <<>> /\ flight = Raising
  BY FlightFacts DEF RaiseOn, IInv, Aimed, Typed
<1>2. /\ cur \in Contexts /\ n \in Nat /\ n >= 1 /\ Top \in Frames /\ Len(Top.nest) \in Nat
  BY <1>1, TopNest
<1>3. /\ i \in 0..Len(Top.nest)
      /\ \A j \in 1..Len(Top.nest) : Top.nest[j].kind = "ensure" => j <= i
  BY <1>2, InnermostFacts
<1>4. CASE i # 0
  <2>1. /\ SetTop(Handle(Top, i, IF Top.nest[i].kind = "ensure" THEN Raising ELSE Rescuing))
        /\ flight' = Nothing /\ cur' = cur /\ host' = host
    BY <1>4 DEF RaiseOn
  <2>2. PICK thing : thing = IF Top.nest[i].kind = "ensure" THEN Raising ELSE Rescuing
    OBVIOUS
  <2>3. i \in 1..Len(Top.nest)
    BY <1>3, <1>4
  <2>4. PICK k \in 1..Len(Top.nest) : k = i
    BY <2>3
  <2>5. thing \in Things /\ thing.kind # "jump" /\ Aims(cur, thing)
    BY <2>2 DEF Things, Raising, Rescuing, Aims
  <2>6. \A m \in 1..Len(Top.nest) : Top.nest[m].kind = "ensure" => m <= k
    BY <1>3, <2>4
  <2>7. SetTop(Handle(Top, k, thing))
    BY <2>1, <2>2, <2>4
  <2> HIDE DEF i, RaiseOn, SetTop
  <2> QED  BY <1>1, <2>1, <2>5, <2>6, <2>7, Handled
<1>5. CASE i = 0
  <2>1. Plain(Top)
    BY <1>2, <1>3, <1>5 DEF Plain
  <2>2. CASE n = 1 /\ cur # Root
    <3> DEFINE back == Terminated(ctx, cur)
    <3>1. /\ SwitchTo(back, Resumer(cur))
          /\ IF ctx[cur].vmexec THEN EndLoop(Raising) ELSE host' = host /\ flight' = flight
      BY <1>5, <2>2 DEF RaiseOn
    <3>2. PICK b : b = back
      OBVIOUS
    <3>3. /\ b = back \/ b = Deliver(back, Resumer(cur))
          /\ ctx[cur].vmexec => b = back
          /\ SwitchTo(b, Resumer(cur))
          /\ IF ctx[cur].vmexec THEN host' = Front(host) ELSE host' = host
          /\ flight' \in {Nothing, Raising, Native(Value), Native(Raising)}
      <4> HIDE DEF back, SwitchTo
      <4> QED  BY <1>1, <3>1, <3>2 DEF EndLoop
    <3>4. cur # Root /\ Len(ctx[cur].ci) = 1
      BY <2>2
    <3> HIDE DEF RaiseOn, SwitchTo, n, ends, i
    <3> QED  BY <1>1, <2>1, <3>3, <3>4, FiberEnds
  <2>3. CASE ~(n = 1 /\ cur # Root)
    <3>1. ctx' = Pop(ctx, cur) /\ cur' = cur
          /\ IF ends THEN EndLoop(Raising) ELSE host' = host /\ flight' = flight
      BY <1>5, <2>3 DEF RaiseOn
    <3>2. ends <=> Top.cci = "skip"
      <4>1. Top.cci = "skip" => ends
        BY <1>1, <1>2, TopIsTheLoops
      <4>2. ends => Top.cci = "skip"
        BY <1>1, <1>2, <2>3, TopIsTheLoops, Names
      <4> QED  BY <4>1, <4>2
    <3> HIDE DEF ends, i, RaiseOn
    <3>3. IF Top.cci = "skip" THEN host' = Front(host) ELSE host' = host
      BY <3>1, <3>2 DEF EndLoop
    <3>4. flight' = Native(Raising) \/ (flight' = Raising /\ host' # <<>>)
      BY <1>1, <3>1, <3>2 DEF EndLoop
    <3>5. flight' \in Flights /\ FlightAims
      BY <3>4 DEF Flights, Native, Answers, FlightAims, AimsNext, Raising
    <3>6. ~(Len(ctx[cur].ci) = 1 /\ cur # Root)
      BY <2>3
    <3> QED  BY <1>1, <2>1, <3>1, <3>3, <3>5, <3>6, TopGone
  <2> QED  BY <2>2, <2>3
<1> QED  BY <1>4, <1>5

LEMMA NativeBreaksKeeps ==
  ASSUME IInv, NativeBreaks
  PROVE  IInv' /\ Ensured /\ Delivered /\ Returned
<1>1. host # <<>> /\ flight.kind = "native" /\ flight.what.kind = "unwind" /\ ctx' = ctx /\ cur' = cur
  BY DEF NativeBreaks
<1>2. flight.what \in Leavings /\ Aims(cur, flight.what)
  BY <1>1, FlightFacts, AnswerFacts DEF IInv, Typed, Aimed
\* The native was called in a frame of the innermost loop.
<1>3. ~(cur = Loop.lc /\ Len(ctx[cur].ci) < Loop.stop)
  <2>1. Loop = host[Len(host)] /\ Len(host) \in 1..Len(host)
    BY <1>1, HostFacts DEF IInv
  <2>2. Len(ctx[cur].ci) >= 1 /\ Len(ctx[cur].ci) \in Nat
    BY <1>1, TopNest
  <2>3. /\ Loop.stop \in Nat
        /\ Loop.lc # Loop.home => Loop.stop = 1
        /\ Loop.lc = Loop.home => Loop.stop <= Len(ctx[Loop.lc].ci)
    BY <2>1, LoopFacts DEF OfFiber, OfFrame
  <2> QED  BY <2>2, <2>3
<1>4. flight' = flight.what /\ host' = host
  BY <1>3 DEF NativeBreaks
<1>5. flight' \in Flights /\ Aims(cur, flight') /\ flight'.kind # "native"
  BY <1>1, <1>2, <1>4 DEF Flights
<1> QED  BY <1>1, <1>4, <1>5, Idle

LEMMA ReturnKeeps ==
  ASSUME IInv, NEW idx \in 1..MaxFrames, Return(idx)
  PROVE  IInv' /\ Ensured /\ Delivered /\ Returned
<1>1. /\ host # <<>> /\ idx <= Len(ctx[cur].ci) /\ flight' = Leaving(idx, ctx[cur].ci[idx].id)
      /\ ctx' = ctx /\ cur' = cur /\ host' = host
  BY DEF Return, Executes
<1>2. idx \in 1..Len(ctx[cur].ci)
  BY <1>1, TopNest
<1>3. ctx[cur].ci[idx].id \in FrameIds
  BY <1>1, <1>2, TopNest, CiFacts, NestFacts DEF IInv
<1>4. /\ flight' \in Leavings /\ flight'.kind = "unwind" /\ flight'.idx = idx
      /\ flight'.id = ctx[cur].ci[idx].id
  BY <1>1, <1>2, <1>3 DEF Leaving, Leavings
<1>5. flight' \in Flights /\ Aims(cur, flight')
  BY <1>1, <1>4 DEF Flights, Aims
<1> QED  BY <1>1, <1>4, <1>5, Idle

\* Every step keeps the invariant, and does what a step may do.
LEMMA NextKeeps ==
  ASSUME IInv, Next
  PROVE  IInv' /\ Ensured /\ Delivered /\ Returned
<1>1. CASE NativeReturns
  <2>1. flight' = Nothing /\ ctx' = ctx /\ cur' = cur /\ host' = host
    BY <1>1 DEF NativeReturns
  <2>2. flight' \in Flights /\ Aims(cur, flight') /\ flight'.kind \notin {"native", "raise", "unwind"}
    BY <2>1 DEF Flights, Aims, Nothing
  <2> QED  BY <2>1, <2>2, Idle
<1>2. CASE NativePropagates
  <2>1. flight' = Raising /\ ctx' = ctx /\ cur' = cur /\ host' = host /\ host # <<>>
    BY <1>2 DEF NativePropagates
  <2>2. flight' \in Flights /\ Aims(cur, flight') /\ flight'.kind # "native"
    BY <2>1 DEF Flights, Aims, Raising
  <2> QED  BY <2>1, <2>2, Idle
<1>3. CASE Raise
  <2>1. flight' = Raising /\ ctx' = ctx /\ cur' = cur /\ host' = host /\ host # <<>>
    BY <1>3 DEF Raise, Executes
  <2>2. flight' \in Flights /\ Aims(cur, flight') /\ flight'.kind # "native"
    BY <2>1 DEF Flights, Aims, Raising
  <2> QED  BY <2>1, <2>2, Idle
<1>4. CASE NativeBreaks
  BY <1>4, NativeBreaksKeeps
<1>5. CASE Leave
  BY <1>5, LeaveKeeps
<1>6. CASE Raiseif
  BY <1>6, RaiseifKeeps
<1>7. CASE Rescued
  BY <1>7, RescuedKeeps
<1>8. CASE Unwind
  BY <1>8, UnwindKeeps
<1>9. CASE RaiseOn
  BY <1>9, RaiseOnKeeps
<1>10. CASE Yield
  BY <1>10, YieldKeeps
<1>11. ASSUME NEW kind \in {"rescue", "ensure"}, Enter(kind)
       PROVE  IInv' /\ Ensured /\ Delivered /\ Returned
  BY <1>11, EnterKeeps
<1>12. ASSUME NEW to \in 0..MaxNest, Jmpuw(to)
       PROVE  IInv' /\ Ensured /\ Delivered /\ Returned
  <2>1. to \in Nat
    BY ContextsAssumption
  <2> QED  BY <1>12, <2>1, JmpuwKeeps
<1>13. ASSUME NEW idx \in 1..MaxFrames, Return(idx)
       PROVE  IInv' /\ Ensured /\ Delivered /\ Returned
  BY <1>13, ReturnKeeps
<1>14. ASSUME NEW id \in 1..MaxFrames, Run(id) \/ CallFromNative(id)
       PROVE  IInv' /\ Ensured /\ Delivered /\ Returned
  <2>1. /\ flight = Nothing /\ flight' = flight /\ cur' = cur /\ Fresh(id)
        /\ ctx' = [ctx EXCEPT ![cur].ci = Append(@, NewFrame(id, "skip"))]
        /\ PushLoop(cur, Len(ctx[cur].ci) + 1)
    BY <1>14 DEF Run, CallFromNative, Executes
  <2>2. PICK cci \in {"none", "skip"} : cci = "skip"
    OBVIOUS
  <2>3. /\ ctx' = [ctx EXCEPT ![cur].ci = Append(@, NewFrame(id, cci))]
        /\ cci # "none" /\ id \in FrameIds
    BY <2>1, <2>2 DEF FrameIds
  <2> HIDE DEF Run, CallFromNative, PushLoop, Fresh
  <2> QED  BY <2>1, <2>3, FrameComes
<1>15. ASSUME NEW id \in 1..MaxFrames, Send(id)
       PROVE  IInv' /\ Ensured /\ Delivered /\ Returned
  <2>1. /\ flight = Nothing /\ flight' = flight /\ cur' = cur /\ Fresh(id) /\ host # <<>> /\ host' = host
        /\ ctx' = [ctx EXCEPT ![cur].ci = Append(@, NewFrame(id, "none"))]
    BY <1>15 DEF Send, Executes
  <2>2. PICK cci \in {"none", "skip"} : cci = "none"
    OBVIOUS
  <2>3. /\ ctx' = [ctx EXCEPT ![cur].ci = Append(@, NewFrame(id, cci))]
        /\ cci # "skip" /\ id \in FrameIds
    BY <2>1, <2>2 DEF FrameIds
  <2> HIDE DEF Send, Fresh
  <2> QED  BY <2>1, <2>3, FrameComes
<1>16. ASSUME NEW c \in Fibers, FiberInit(c)
       PROVE  IInv' /\ Ensured /\ Delivered /\ Returned
  BY <1>16, FiberInitKeeps
<1>17. ASSUME NEW c \in Fibers, NEW id \in 1..MaxFrames, Resume(c, id) \/ ResumeFromNative(c, id)
       PROVE  IInv' /\ Ensured /\ Delivered /\ Returned
  <2>1. PICK vm \in BOOLEAN : Switch(c, id, TRUE, vm)
    BY <1>17 DEF Resume, ResumeFromNative
  <2> QED  BY <2>1, FiberEnters DEF FrameIds
<1>18. ASSUME NEW c \in Contexts, NEW id \in 1..MaxFrames, Transfer(c, id)
       PROVE  IInv' /\ Ensured /\ Delivered /\ Returned
  BY <1>18, Transferred DEF FrameIds
<1> QED
  BY <1>1, <1>2, <1>3, <1>4, <1>5, <1>6, <1>7, <1>8, <1>9, <1>10, <1>11, <1>12, <1>13, <1>14,
     <1>15, <1>16, <1>17, <1>18 DEF Next

LEMMA InitInv == Init => IInv
<1> SUFFICES ASSUME Init PROVE IInv
  OBVIOUS
<1>1. /\ ctx = [c \in Contexts |->
                  [status |-> IF c = Root THEN "created" ELSE None, prev |-> None,
                   vmexec |-> FALSE, pending |-> 0, ci |-> <<>>]]
      /\ cur = Root /\ host = <<>> /\ flight = Nothing /\ Root \in Contexts
  BY Names DEF Init
<1>2. \A c \in Contexts : /\ ctx[c].prev = None /\ ctx[c].vmexec = FALSE /\ ctx[c].ci = <<>> /\ Len(ctx[c].ci) = 0
                          /\ ctx[c].status = IF c = Root THEN "created" ELSE None
  BY <1>1
<1>3. Typed
  <2>1. \A c \in Contexts : ctx[c] \in States
    <3>1. <<>> \in Seq(Frames) /\ 0 \in 0..MaxFrames
      BY ContextsAssumption
    <3> QED  BY <1>1, <3>1 DEF States, Statuses
  <2>2. ctx = [c \in Contexts |-> ctx[c]] /\ <<>> \in Seq(Loops) /\ Nothing \in Flights
    BY <1>1 DEF Flights
  <2> QED  BY <1>1, <2>1, <2>2 DEF Typed
<1>4. Chain(Prev, cur) = {Root}
  BY <1>1, <1>3, PrevFacts, ChainEnd
<1>5. Lives
  BY <1>1, <1>2, Names DEF Lives
<1>6. Chained
  BY <1>1, <1>2, <1>4 DEF Chained, None
<1>7. Looped
  <2>1. Len(host) = 0
    BY <1>1
  <2> QED  BY <1>1, <1>2, <2>1 DEF Looped, LoopsMatch, FramesMatch, LoopsInOrder
<1>8. Distinct
  BY <1>2 DEF Distinct
<1>9. Aimed
  BY <1>1, <1>2 DEF Aimed, Aims, Nothing
<1>10. Awaiting
  BY <1>1, <1>2, <1>4 DEF Awaiting, None
<1> QED  BY <1>3, <1>5, <1>6, <1>7, <1>8, <1>9, <1>10 DEF IInv

LEMMA StepKeeps ==
  ASSUME IInv, [Next]_vars
  PROVE  IInv' /\ Ensured /\ Delivered /\ Returned
<1>1. CASE Next
  BY <1>1, NextKeeps
<1>2. CASE UNCHANGED vars
  <2>1. ctx' = ctx /\ cur' = cur /\ host' = host /\ flight' = flight
    BY <1>2 DEF vars
  <2>2. flight' \in Flights /\ Aims(cur, flight') /\ (flight'.kind = "native" => Aims(cur, flight'.what))
        /\ (flight'.kind \in {"raise", "unwind"} => host # <<>>)
    BY <2>1 DEF IInv, Typed, Aimed
  <2> QED  BY <2>1, <2>2, Idle
<1> QED  BY <1>1, <1>2

LEMMA UnwindingInv == Spec => []IInv
<1>1. IInv /\ [Next]_vars => IInv'
  BY StepKeeps
<1> QED  BY InitInv, <1>1, PTL DEF Spec

---------------------------------------------------------------------------
(* The theorems. *)

\* The states of the contexts, the chain of the ones that wait for the running
\* one, their frames and the run loops on the host's stack agree, whatever is
\* raised, left by break or return, or switched to: one context runs, and
\* every loop has its native's frame or its fiber (vm_exec, fiber_switch,
\* fiber_terminate).
THEOREM ContextsAlwaysAgree == Spec => []ContextsAgree
<1>1. IInv => ContextsAgree
  BY InvAgree
<1> QED  BY UnwindingInv, <1>1, PTL

\* A break or return under way, or waiting for an ensure body, never outlives
\* the frame it goes to, nor finds another one in its place (unwind_return).
THEOREM BreaksAlwaysHaveTheirTarget == Spec => []BreaksKeepTheirTarget
<1>1. IInv => BreaksKeepTheirTarget
  BY InvBreaks
<1> QED  BY UnwindingInv, <1>1, PTL

\* A native that ran a loop gets control back in the context it was called in,
\* its frames as they were (vm_exec, and the assertion in fiber_switch).
THEOREM NativesAlwaysGetTheirFramesBack == Spec => NativesGetTheirFramesBack
<1>1. IInv /\ [Next]_vars => Returned
  BY StepKeeps
<1> QED  BY UnwindingInv, <1>1, PTL DEF Spec, NativesGetTheirFramesBack, Returned

\* Nothing takes a frame out of a region with an ensure body without entering
\* the body (handle_raise, unwind_return, OP_JMPUW).
THEOREM EnsuresAlwaysRun == Spec => EnsuresRun
<1>1. IInv /\ [Next]_vars => Ensured
  BY StepKeeps
<1> QED  BY UnwindingInv, <1>1, PTL DEF Spec, EnsuresRun, Ensured

\* The value of a resume, a yield or a transfer is written into the call its
\* context is suspended in (deliver).
THEOREM ValuesAreDeliveredWhereAwaited == Spec => DeliversWhereItIsAwaited
<1>1. IInv /\ [Next]_vars => Delivered
  BY StepKeeps
<1> QED  BY UnwindingInv, <1>1, PTL DEF Spec, DeliversWhereItIsAwaited, Delivered
=============================================================================
