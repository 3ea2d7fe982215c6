-------------------------- MODULE CollectorProofs --------------------------
(***************************************************************************)
(* What the collector keeps, for a heap of any size, any contexts and any  *)
(* sizes of frames and stacks.                                             *)
(*                                                                         *)
(* The idea: everything is typed over the values that are live, instead of *)
(* over all values.  A step that does not collect adds live values at most *)
(* and takes what it writes from what is held; a collection leaves what    *)
(* its marking reached, which is closed under everything that holds.       *)
(***************************************************************************)
EXTENDS Collector, TLAPS, SequenceTheorems

LiveOf(hp) == {k \in Objs : hp[k].kind # "free"}
Over(hp) == LiveOf(hp) \cup {0}

\* `os`: what `ours` may be, FALSE alone once the program is gone.
Programs(l) == IF l THEN BOOLEAN ELSE {FALSE}

ObjectsIn(vs, os) ==
  [kind : Kinds, ref : vs, on : Contexts \cup {NoCtx}, base : 0..StackSize, ours : os]
FramesIn(vs, os) ==
  {f \in [base : Slots, regs : Slots, env : vs, proc : vs, skip : BOOLEAN, ours : os] :
     f.base + f.regs - 1 <= StackSize}
ContextsIn(vs, os) ==
  [status : Statuses, prev : Contexts \cup {NoCtx}, vmexec : BOOLEAN, fib : vs, proc : vs,
   stack : [Slots -> vs], ci : Seq(FramesIn(vs, os))]

WellFormed(o) ==
  /\ o.ours => o.kind = "proc"
  /\ IsAttached(o) => o.base \in Slots
  /\ o.kind \in {"fiber", "task"} => o.on \in Contexts

HeapOK(hp, os) ==
  /\ hp \in [Objs -> ObjectsIn(Over(hp), os)]
  /\ \A k \in Objs : hp[k].kind = "free" => hp[k] = Free
  /\ \A k \in Objs : WellFormed(hp[k])

ContextsOK(cx, vs, os) == cx \in [Contexts -> ContextsIn(vs, os)]

OthersOK(live) ==
  /\ natives \in Seq(NativesOver(live))
  /\ cur \in Contexts /\ exc \in live \cup {0} /\ running \in live \cup {0} /\ loaded \in BOOLEAN
  /\ gc_registered \subseteq live /\ dormant \subseteq live /\ owned \subseteq live

OwnedAreTasks == \A t \in owned \cup ({running} \ {0}) : heap[t].kind = "task"

IInv ==
  /\ HeapOK(heap, Programs(loaded))
  /\ ContextsOK(contexts, Over(heap), Programs(loaded))
  /\ OthersOK(LiveOf(heap))
  /\ OwnedAreTasks
  /\ TasksAreListed

---------------------------------------------------------------------------
(* The invariant implies the properties. *)

LEMMA SeqMono ==
  ASSUME NEW S, NEW T, S \subseteq T
  PROVE  Seq(S) \subseteq Seq(T)
BY ElementOfSeq, SeqDef

LEMMA FramesMono ==
  ASSUME NEW vs, NEW ws, NEW os, NEW ps, vs \subseteq ws, os \subseteq ps
  PROVE  /\ Seq(FramesIn(vs, os)) \subseteq Seq(FramesIn(ws, ps))
         /\ ContextsIn(vs, os) \subseteq ContextsIn(ws, ps)
<1>1. FramesIn(vs, os) \subseteq FramesIn(ws, ps)
  BY DEF FramesIn
<1>2. Seq(FramesIn(vs, os)) \subseteq Seq(FramesIn(ws, ps))
  BY <1>1, SeqMono
<1>3. [Slots -> vs] \subseteq [Slots -> ws]
  OBVIOUS
<1> QED  BY <1>2, <1>3 DEF ContextsIn

\* Contexts typed over some values are typed over more.
LEMMA ContextsMono ==
  ASSUME NEW vs, NEW ws, NEW os, NEW ps, vs \subseteq ws, os \subseteq ps,
         NEW cx, ContextsOK(cx, vs, os)
  PROVE  ContextsOK(cx, ws, ps)
BY FramesMono DEF ContextsOK

LEMMA NativesMono ==
  ASSUME NEW S, NEW T, S \subseteq T
  PROVE  Seq(NativesOver(S)) \subseteq Seq(NativesOver(T))
<1>1. NativesOver(S) \subseteq NativesOver(T)
  BY DEF NativesOver
<1> QED  BY <1>1, SeqMono

\* A frame of a context, and the top one.
LEMMA FrameOfContext ==
  ASSUME NEW vs, NEW os, NEW cx, ContextsOK(cx, vs, os), NEW c \in Contexts
  PROVE  /\ Len(cx[c].ci) \in Nat
         /\ \A i \in 1..Len(cx[c].ci) : cx[c].ci[i] \in FramesIn(vs, os)
         /\ cx[c].ci # <<>> => Last(cx[c].ci) \in FramesIn(vs, os) /\ Len(cx[c].ci) >= 1
<1>1. cx[c].ci \in Seq(FramesIn(vs, os))
  BY DEF ContextsOK, ContextsIn
<1>2. Len(cx[c].ci) \in Nat /\ \A i \in 1..Len(cx[c].ci) : cx[c].ci[i] \in FramesIn(vs, os)
  BY <1>1, ElementOfSeq, LenProperties
<1>3. cx[c].ci # <<>> => Len(cx[c].ci) >= 1
  BY <1>1, <1>2, EmptySeq, LenProperties
<1> QED  BY <1>2, <1>3 DEF Last

LEMMA Basics ==
  ASSUME IInv
  PROVE  /\ LiveOf(heap) = Live /\ Live \subseteq Objs
         /\ Objs \subseteq Values /\ 0 \in Values /\ 0 \notin Objs
         /\ Over(heap) \subseteq Values
BY SizesAssumption DEF LiveOf, Live, IsLive, Over, Objs, Values

LEMMA InvType == IInv => TypeOK
<1> SUFFICES ASSUME IInv PROVE TypeOK
  OBVIOUS
<1>0. Programs(loaded) \subseteq BOOLEAN /\ Over(heap) \subseteq Values /\ LiveOf(heap) \subseteq Objs
  BY Basics DEF Programs
<1>1. ObjectsIn(Over(heap), Programs(loaded)) \subseteq ObjectsOver(Values)
  BY <1>0 DEF ObjectsIn, ObjectsOver
<1>2. heap \in [Objs -> ObjectsOver(Values)]
  BY <1>1 DEF IInv, HeapOK
<1>3. contexts \in [Contexts -> ContextsOver(Values)]
  <2>1. ContextsOK(contexts, Values, BOOLEAN)
    BY <1>0, ContextsMono DEF IInv
  <2>2. Seq(FramesIn(Values, BOOLEAN)) \subseteq Seq(FramesOver(Values))
    <3>1. FramesIn(Values, BOOLEAN) \subseteq FramesOver(Values)
      BY DEF FramesIn, FramesOver
    <3> QED  BY <3>1, SeqMono
  <2> QED  BY <2>1, <2>2 DEF ContextsOK, ContextsIn, ContextsOver
<1>4. natives \in Seq(NativesOver(Objs))
  BY <1>0, NativesMono DEF IInv, OthersOK
<1>5. \A k \in Objs : ~IsLive(k) => heap[k] = Free
  BY DEF IInv, HeapOK, IsLive
<1> QED  BY <1>0, <1>2, <1>3, <1>4, <1>5, Basics DEF TypeOK, IInv, OthersOK, Over

LEMMA InvHeld == IInv => NothingHeldIsFree
<1> SUFFICES ASSUME IInv, NEW v \in Held, v # 0 PROVE v \in Live
  BY DEF NothingHeldIsFree
<1>0. LiveOf(heap) = Live /\ Over(heap) = Live \cup {0}
  BY Basics DEF Over
<1>1. CASE v \in UNION {InContext(c) : c \in Contexts}
  <2>1. PICK c \in Contexts : v \in InContext(c)
    BY <1>1
  <2>2. contexts[c] \in ContextsIn(Over(heap), Programs(loaded))
    BY DEF IInv, ContextsOK
  <2>3. \A i \in 1..Len(contexts[c].ci) : contexts[c].ci[i].env \in Over(heap) /\ contexts[c].ci[i].proc \in Over(heap)
    BY FrameOfContext DEF IInv, FramesIn
  <2>4. v \in Over(heap)
    BY <2>1, <2>2, <2>3 DEF InContext, ContextsIn
  <2> QED  BY <2>4, <1>0
<1>2. CASE v \in {heap[k].ref : k \in Live}
  <2>1. \A k \in Objs : heap[k].ref \in Over(heap)
    BY DEF IInv, HeapOK, ObjectsIn
  <2> QED  BY <1>2, <2>1, <1>0 DEF Live
<1>3. CASE v \in UNION {natives[i].held : i \in 1..Len(natives)}
  <2>1. PICK i \in 1..Len(natives) : v \in natives[i].held
    BY <1>3
  <2>2. natives[i] \in NativesOver(Live)
    BY <1>0, ElementOfSeq DEF IInv, OthersOK
  <2> QED  BY <2>1, <2>2 DEF NativesOver
<1>4. CASE v \in {exc, running} \cup gc_registered \cup dormant \cup owned
  BY <1>4, <1>0 DEF IInv, OthersOK
<1> QED  BY <1>1, <1>2, <1>3, <1>4 DEF Held

LEMMA InvUnloaded == IInv => UnloadedIsUnused
<1> SUFFICES ASSUME IInv, ~loaded PROVE ~Users(heap, contexts)
  BY DEF UnloadedIsUnused
<1>1. Programs(loaded) = {FALSE}
  BY DEF Programs
<1>2. \A k \in Objs : ~heap[k].ours
  BY <1>1 DEF IInv, HeapOK, ObjectsIn
<1>3. ASSUME NEW c \in Contexts, NEW i \in 1..Len(contexts[c].ci) PROVE ~contexts[c].ci[i].ours
  BY <1>1, FrameOfContext DEF IInv, FramesIn
<1> QED  BY <1>2, <1>3 DEF Users

---------------------------------------------------------------------------
(* What the operators on stacks, frames and objects keep. *)

LEMMA WithRegOK ==
  ASSUME NEW vs, NEW os, NEW cx, ContextsOK(cx, vs, os), NEW c, NEW r, NEW v \in vs
  PROVE  ContextsOK(WithReg(cx, c, r, v), vs, os)
BY DEF ContextsOK, ContextsIn, WithReg

\* A frame that fits, on any block and with any values below it.
LEMMA PushOK ==
  ASSUME NEW vs, 0 \in vs, NEW os, NEW cx, ContextsOK(cx, vs, os), NEW c,
         NEW f \in FramesIn(vs, os), NEW v \in vs
  PROVE  ContextsOK(Push(cx, c, f, v), vs, os)
<1>1. ASSUME NEW d \in Contexts
      PROVE  /\ Cleared(cx[d].stack, f.base, f.regs, v) \in [Slots -> vs]
             /\ Append(cx[d].ci, f) \in Seq(FramesIn(vs, os))
  <2>1. cx[d].stack \in [Slots -> vs] /\ cx[d].ci \in Seq(FramesIn(vs, os))
    BY DEF ContextsOK, ContextsIn
  <2> QED  BY <2>1, AppendProperties DEF Cleared
<1> QED  BY <1>1 DEF ContextsOK, ContextsIn, Push

LEMMA FrameOK ==
  ASSUME NEW vs, 0 \in vs, NEW os, NEW base, NEW regs \in 1..StackSize, NEW p \in vs,
         NEW skip \in BOOLEAN, NEW ours \in os, Fits(Frame(base, regs, p, skip, ours))
  PROVE  Frame(base, regs, p, skip, ours) \in FramesIn(vs, os)
BY DEF Frame, FramesIn, Fits, Slots

\* The frames that are left when the ones above the n-th go.
LEMMA CutOK ==
  ASSUME NEW vs, NEW os, NEW ci \in Seq(FramesIn(vs, os)), NEW n \in 0..Len(ci)
  PROVE  SubSeq(ci, 1, n) \in Seq(FramesIn(vs, os))
BY SubSeqProperties, ElementOfSeq, LenProperties

LEMMA TruncatedOK ==
  ASSUME NEW vs, 0 \in vs, NEW stack \in [Slots -> vs], NEW base
  PROVE  Truncated(stack, base) \in [Slots -> vs]
BY DEF Truncated

LEMMA EmptyOK ==
  ASSUME NEW vs, 0 \in vs, NEW os, NEW status \in Statuses
  PROVE  Context(status) \in ContextsIn(vs, os)
BY EmptySeq DEF Context, ContextsIn

LEMMA FreeOK ==
  ASSUME NEW vs, 0 \in vs, NEW l
  PROVE  Free \in ObjectsIn(vs, Programs(l))
<1>1. FALSE \in Programs(l)
  BY DEF Programs
<1>2. 0 \in 0..StackSize
  BY SizesAssumption
<1> QED  BY <1>1, <1>2 DEF Free, Object, ObjectsIn, Kinds

LEMMA FreshOK ==
  ASSUME NEW vs, 0 \in vs, NEW l, NEW kind \in {"obj", "proc", "env"}
  PROVE  Object(kind, 0) \in ObjectsIn(vs, Programs(l)) /\ WellFormed(Object(kind, 0))
<1>1. FALSE \in Programs(l)
  BY DEF Programs
<1>2. 0 \in 0..StackSize
  BY SizesAssumption
<1> QED  BY <1>1, <1>2 DEF Object, ObjectsIn, Kinds, WellFormed, IsAttached

LEMMA EnvGetOK ==
  ASSUME NEW vs, 0 \in vs, NEW os, NEW cx, ContextsOK(cx, vs, os), NEW hp,
         NEW e \in Objs, hp[e] \in ObjectsIn(vs, os)
  PROVE  EnvGet(hp, cx, e) \in vs
BY DEF EnvGet, Slot, IsAttached, ContextsOK, ContextsIn, ObjectsIn

\* Taking an environment off the stack changes no kind.
LEMMA DetachedOK ==
  ASSUME NEW hp, NEW os, HeapOK(hp, os), NEW cx, ContextsOK(cx, Over(hp), os), NEW envs
  PROVE  /\ HeapOK(Detached(hp, cx, envs), os)
         /\ LiveOf(Detached(hp, cx, envs)) = LiveOf(hp)
         /\ \A k \in Objs : Detached(hp, cx, envs)[k].kind = hp[k].kind
<1> DEFINE hq == Detached(hp, cx, envs)
<1>1. \A k \in Objs : hp[k] \in ObjectsIn(Over(hp), os) /\ WellFormed(hp[k])
  BY DEF HeapOK
<1>2. \A k \in Objs : EnvGet(hp, cx, k) \in Over(hp)
  BY <1>1, EnvGetOK DEF Over
<1>3. ASSUME NEW k \in Objs
      PROVE  /\ hq[k] \in ObjectsIn(Over(hp), os) /\ WellFormed(hq[k])
             /\ hq[k].kind = hp[k].kind
             /\ hq[k].kind = "free" => hq[k] = hp[k]
  <2>1. hq[k] = IF k \in envs /\ IsAttached(hp[k])
                THEN [hp[k] EXCEPT !.ref = EnvGet(hp, cx, k), !.on = NoCtx] ELSE hp[k]
    BY DEF Detached
  <2>2. CASE k \in envs /\ IsAttached(hp[k])
    <3>1. hq[k] = [hp[k] EXCEPT !.ref = EnvGet(hp, cx, k), !.on = NoCtx] /\ hp[k].kind = "env"
      BY <2>1, <2>2 DEF IsAttached
    <3>2. /\ hq[k] \in ObjectsIn(Over(hp), os)
          /\ hq[k].kind = "env" /\ hq[k].on = NoCtx /\ hq[k].ours = hp[k].ours
      BY <3>1, <1>1, <1>2 DEF ObjectsIn
    <3> QED  BY <3>1, <3>2, <1>1 DEF WellFormed, IsAttached
  <2>3. CASE ~(k \in envs /\ IsAttached(hp[k]))
    BY <2>1, <2>3, <1>1
  <2> QED  BY <2>2, <2>3
<1>4. DOMAIN hq = Objs
  BY DEF Detached
<1>5. LiveOf(hq) = LiveOf(hp)
  BY <1>3 DEF LiveOf
<1>6. hq \in [Objs -> ObjectsIn(Over(hq), os)]
  <2>1. hq = [k \in Objs |-> hq[k]]
    BY DEF Detached
  <2> QED  BY <2>1, <1>3, <1>5 DEF Over
<1>7. \A k \in Objs : hq[k].kind = "free" => hq[k] = Free
  BY <1>3 DEF HeapOK
<1> QED  BY <1>3, <1>5, <1>6, <1>7 DEF HeapOK

\* An object is made in a free slot, of values that are live and the slot itself.
LEMMA AllocOK ==
  ASSUME NEW hp, NEW os, HeapOK(hp, os), NEW k \in Objs, hp[k].kind = "free",
         NEW o \in ObjectsIn(Over(hp), os), o.kind # "free", WellFormed(o)
  PROVE  /\ HeapOK([hp EXCEPT ![k] = o], os)
         /\ LiveOf([hp EXCEPT ![k] = o]) = LiveOf(hp) \cup {k}
<1> DEFINE hq == [hp EXCEPT ![k] = o]
<1>1. hp \in [Objs -> ObjectsIn(Over(hp), os)]
  BY DEF HeapOK
<1>2. LiveOf(hq) = LiveOf(hp) \cup {k}
  BY <1>1 DEF LiveOf
<1>3. ObjectsIn(Over(hp), os) \subseteq ObjectsIn(Over(hq), os)
  BY <1>2 DEF Over, ObjectsIn
<1>4. hq \in [Objs -> ObjectsIn(Over(hq), os)]
  BY <1>1, <1>3
<1>5. \A j \in Objs : (hq[j].kind = "free" => hq[j] = Free) /\ WellFormed(hq[j])
  BY <1>1 DEF HeapOK
<1> QED  BY <1>2, <1>4, <1>5 DEF HeapOK

\* A live object refers to another live value.
LEMMA ReferOK ==
  ASSUME NEW hp, NEW os, HeapOK(hp, os), NEW k \in LiveOf(hp), NEW v \in Over(hp)
  PROVE  /\ HeapOK([hp EXCEPT ![k].ref = v], os)
         /\ LiveOf([hp EXCEPT ![k].ref = v]) = LiveOf(hp)
         /\ \A j \in Objs : [hp EXCEPT ![k].ref = v][j].kind = hp[j].kind
<1> DEFINE hq == [hp EXCEPT ![k].ref = v]
<1>1. hp \in [Objs -> ObjectsIn(Over(hp), os)] /\ k \in Objs
  BY DEF HeapOK, LiveOf
<1>2. \A j \in Objs : hq[j].kind = hp[j].kind
  BY <1>1 DEF ObjectsIn
<1>3. LiveOf(hq) = LiveOf(hp)
  BY <1>2 DEF LiveOf
<1>4. hq \in [Objs -> ObjectsIn(Over(hq), os)]
  BY <1>1, <1>3 DEF Over, ObjectsIn
<1>5. \A j \in Objs : (hq[j].kind = "free" => hq[j] = Free) /\ WellFormed(hq[j])
  BY <1>1 DEF HeapOK, ObjectsIn, LiveOf, WellFormed, IsAttached
<1> QED  BY <1>2, <1>3, <1>4, <1>5 DEF HeapOK

---------------------------------------------------------------------------
(* The collection. *)

Reached == Marked([x \in Nodes |-> Marks(x)], Roots)

\* The marking reaches the roots and is closed.
LEMMA ReachedIsClosed ==
  /\ Reached \subseteq Nodes
  /\ Roots \cap Nodes \subseteq Reached
  /\ \A x \in Reached : Marks(x) \cap Nodes \subseteq Reached
<1> DEFINE marks == [x \in Nodes |-> Marks(x)]
           Closed(s) == \A y \in Roots \cup s : marks[y] \subseteq Roots \cup s
<1>1. Reached = {x \in Nodes : x \in Roots \/ \A s \in SUBSET (Nodes \ Roots) : Closed(s) => x \in s}
  BY DEF Reached, Marked
<1>2. ASSUME NEW x \in Reached, NEW y \in Marks(x), y \in Nodes PROVE y \in Reached
  <2>1. marks[x] = Marks(x) /\ x \in Nodes
    BY <1>1
  <2>2. ASSUME y \notin Roots, NEW s \in SUBSET (Nodes \ Roots), Closed(s) PROVE y \in s
    <3>1. x \in Roots \cup s
      BY <1>1, <2>2
    <3>2. marks[x] \subseteq Roots \cup s
      BY <3>1, <2>2
    <3> QED  BY <3>2, <2>1, <2>2, <1>2
  <2> QED  BY <2>2, <1>1, <1>2
<1> QED  BY <1>1, <1>2

\* What a marked object or context refers to was marked.
LEMMA MarkedRefer ==
  ASSUME IInv
  PROVE  /\ \A k \in Reached \cap Objs :
              /\ k \in Live
              /\ heap[k].ref \in Reached \cup {0}
              /\ EnvGet(heap, contexts, k) \in Reached \cup {0}
         /\ \A c \in Reached \cap Contexts :
              /\ contexts[c].fib \in Reached \cup {0} /\ contexts[c].proc \in Reached \cup {0}
              /\ \A s \in 1..LiveEnd(c) \cap Slots : contexts[c].stack[s] \in Reached \cup {0}
              /\ \A i \in 1..Len(contexts[c].ci) :
                   /\ contexts[c].ci[i].env \in Reached \cup {0}
                   /\ contexts[c].ci[i].proc \in Reached \cup {0}
<1>1. Contexts \cap Objs = {} /\ Over(heap) = Live \cup {0} /\ Live \subseteq Nodes
  BY SizesAssumption, Basics DEF Over, Nodes
<1>2. ASSUME NEW k \in Reached \cap Objs
      PROVE  /\ k \in Live
             /\ heap[k].ref \in Reached \cup {0}
             /\ EnvGet(heap, contexts, k) \in Reached \cup {0}
  <2>1. k \in Live /\ Marks(k) = OfObject(k)
    BY <1>1, ReachedIsClosed DEF Nodes, Marks
  <2>2. heap[k] \in ObjectsIn(Over(heap), Programs(loaded))
    BY DEF IInv, HeapOK
  <2>3. heap[k].ref \in Over(heap) /\ EnvGet(heap, contexts, k) \in Over(heap)
    BY <2>2, EnvGetOK DEF IInv, ObjectsIn, Over
  <2>4. ({heap[k].ref} \cup {EnvGet(heap, contexts, k)}) \ {0} \subseteq Marks(k)
    BY <2>1 DEF OfObject
  <2> QED  BY <2>1, <2>3, <2>4, <1>1, ReachedIsClosed
<1>3. ASSUME NEW c \in Reached \cap Contexts
      PROVE  /\ contexts[c].fib \in Reached \cup {0} /\ contexts[c].proc \in Reached \cup {0}
             /\ \A s \in 1..LiveEnd(c) \cap Slots : contexts[c].stack[s] \in Reached \cup {0}
             /\ \A i \in 1..Len(contexts[c].ci) :
                  /\ contexts[c].ci[i].env \in Reached \cup {0}
                  /\ contexts[c].ci[i].proc \in Reached \cup {0}
  <2>1. Marks(c) = OfContext(c)
    BY DEF Marks
  <2>2. contexts[c] \in ContextsIn(Over(heap), Programs(loaded))
    BY DEF IInv, ContextsOK
  <2>3. \A v \in Over(heap) : v \in OfContext(c) \cup {0} => v \in Reached \cup {0}
    BY <2>1, <1>1, ReachedIsClosed
  <2>4. /\ contexts[c].fib \in Over(heap) /\ contexts[c].fib \in OfContext(c) \cup {0}
        /\ contexts[c].proc \in Over(heap) /\ contexts[c].proc \in OfContext(c) \cup {0}
    BY <2>2 DEF ContextsIn, OfContext
  <2>5. ASSUME NEW s \in 1..LiveEnd(c) \cap Slots
        PROVE  contexts[c].stack[s] \in Over(heap) /\ contexts[c].stack[s] \in OfContext(c) \cup {0}
    BY <2>2 DEF ContextsIn, OfContext
  <2>6. ASSUME NEW i \in 1..Len(contexts[c].ci)
        PROVE  /\ contexts[c].ci[i].env \in Over(heap) /\ contexts[c].ci[i].env \in OfContext(c) \cup {0}
               /\ contexts[c].ci[i].proc \in Over(heap) /\ contexts[c].ci[i].proc \in OfContext(c) \cup {0}
    <3>1. contexts[c].ci[i] \in FramesIn(Over(heap), Programs(loaded))
      BY FrameOfContext DEF IInv
    <3> QED  BY <3>1 DEF FramesIn, OfContext
  <2> QED  BY <2>3, <2>4, <2>5, <2>6
<1> QED  BY <1>2, <1>3

\* The heap after a collection: the marked objects, and nothing that refers to another.
LEMMA SweptHeapOK ==
  ASSUME IInv, Collect
  PROVE  /\ LiveOf(heap') = Reached \cap Objs
         /\ HeapOK(heap', Programs(loaded))
         /\ \A k \in LiveOf(heap') : heap'[k].kind = heap[k].kind
<1> DEFINE left == UNION {EnvsFrom(c, 1) : c \in Contexts \ Reached}
           saved == Detached(heap, contexts, left \cap Reached)
<1>1. heap' = [k \in Objs |-> IF k \in Reached THEN saved[k] ELSE Free]
  <2>1. PICK marks \in {[x \in Nodes |-> Marks(x)]}, roots \in {Roots} :
          \E marked \in {Marked(marks, roots)} :
            heap' = [k \in Objs |->
                       IF k \in marked
                       THEN Detached(heap, contexts,
                              (UNION {EnvsFrom(c, 1) : c \in Contexts \ marked}) \cap marked)[k]
                       ELSE Swept(heap[k])]
    BY ZenonT(30) DEF Collect
  <2>2. Marked(marks, roots) = Reached
    BY <2>1 DEF Reached
  <2> QED  BY <2>1, <2>2 DEF Swept
<1>2. /\ HeapOK(saved, Programs(loaded)) /\ LiveOf(saved) = LiveOf(heap)
      /\ \A k \in Objs : saved[k].kind = heap[k].kind
  BY DetachedOK DEF IInv
<1>3. \A k \in Reached \cap Objs : k \in LiveOf(heap)
  BY MarkedRefer, Basics
<1>4. LiveOf(heap') = Reached \cap Objs
  <2>1. ASSUME NEW k \in Reached \cap Objs PROVE heap'[k].kind = heap[k].kind /\ heap[k].kind # "free"
    BY <1>1, <1>2, <1>3 DEF LiveOf
  <2>2. ASSUME NEW k \in Objs \ Reached PROVE heap'[k].kind = "free"
    BY <1>1 DEF Free, Object
  <2> QED  BY <2>1, <2>2 DEF LiveOf
<1>5. ASSUME NEW k \in Reached \cap Objs
      PROVE  heap'[k] = saved[k] /\ saved[k].ref \in Reached \cup {0}
  <2>1. saved[k] = IF k \in left \cap Reached /\ IsAttached(heap[k])
                   THEN [heap[k] EXCEPT !.ref = EnvGet(heap, contexts, k), !.on = NoCtx] ELSE heap[k]
    BY DEF Detached
  <2>2. heap[k] \in ObjectsIn(Over(heap), Programs(loaded))
    BY DEF IInv, HeapOK
  <2>3. saved[k].ref \in {heap[k].ref, EnvGet(heap, contexts, k)}
    BY <2>1, <2>2 DEF ObjectsIn
  <2> QED  BY <2>3, <1>1, MarkedRefer
<1>6. ASSUME NEW k \in Objs PROVE heap'[k] \in ObjectsIn(Over(heap'), Programs(loaded))
  <2>1. CASE k \in Reached
    <3>1. saved[k].ref \in Over(heap')
      <4>1. saved[k].ref \in Over(saved)
        BY <1>2 DEF HeapOK, ObjectsIn
      <4> QED  BY <4>1, <1>2, <1>4, <1>5, <2>1 DEF Over, LiveOf
    <3>2. saved[k] \in ObjectsIn(Over(saved), Programs(loaded))
      BY <1>2 DEF HeapOK
    <3> QED  BY <3>1, <3>2, <2>1, <1>5 DEF ObjectsIn
  <2>2. CASE k \notin Reached
    <3>1. heap'[k] = Free
      BY <2>2, <1>1
    <3> QED  BY <3>1, FreeOK DEF Over
  <2> QED  BY <2>1, <2>2
<1>7. \A k \in Objs : (heap'[k].kind = "free" => heap'[k] = Free) /\ WellFormed(heap'[k])
  <2>1. WellFormed(Free)
    BY DEF WellFormed, Free, Object, IsAttached
  <2> QED  BY <2>1, <1>1, <1>2 DEF HeapOK
<1>8. heap' = [k \in Objs |-> heap'[k]]
  BY <1>1
<1>9. heap' \in [Objs -> ObjectsIn(Over(heap'), Programs(loaded))]
  BY <1>6, <1>8
<1> QED  BY <1>1, <1>2, <1>4, <1>7, <1>9 DEF HeapOK

\* The contexts after a collection hold nothing that was freed.
LEMMA SweptContextsOK ==
  ASSUME IInv, Collect
  PROVE  ContextsOK(contexts', Over(heap'), Programs(loaded))
<1> DEFINE L == Over(heap')
           O == Programs(loaded)
<1>1. contexts' = [c \in Contexts |->
                     IF c \in Reached
                     THEN [contexts[c] EXCEPT !.stack = Truncated(@, LiveEnd(c) + 1)]
                     ELSE Context(IF contexts[c].status = "none" THEN "none" ELSE "terminated")]
  BY DEF Collect, Reached
<1>2. \A v \in Over(heap) : v \in Reached \cup {0} => v \in L
  BY SweptHeapOK DEF Over, LiveOf
<1>3. ASSUME NEW c \in Contexts, c \in Reached
      PROVE  [contexts[c] EXCEPT !.stack = Truncated(@, LiveEnd(c) + 1)] \in ContextsIn(L, O)
  <2>1. contexts[c] \in ContextsIn(Over(heap), O)
    BY DEF IInv, ContextsOK
  <2>2. contexts[c].fib \in L /\ contexts[c].proc \in L
    BY <2>1, <1>2, <1>3, MarkedRefer DEF ContextsIn
  <2>3. Truncated(contexts[c].stack, LiveEnd(c) + 1) \in [Slots -> L]
    <3>1. LiveEnd(c) \in Int
      BY FrameOfContext, SizesAssumption DEF IInv, LiveEnd, TopOf, FramesIn, Slots
    <3>2. ASSUME NEW s \in Slots, ~(s >= LiveEnd(c) + 1) PROVE contexts[c].stack[s] \in L
      <4>1. s \in 1..LiveEnd(c) \cap Slots
        BY <3>1, <3>2, SizesAssumption DEF Slots
      <4>2. contexts[c].stack[s] \in Over(heap)
        BY <2>1 DEF ContextsIn
      <4> QED  BY <4>1, <4>2, <1>2, <1>3, MarkedRefer
    <3> QED  BY <3>2 DEF Truncated, Over
  <2>4. contexts[c].ci \in Seq(FramesIn(L, O))
    <3>1. contexts[c].ci \in Seq(FramesIn(Over(heap), O))
      BY <2>1 DEF ContextsIn
    <3>2. ASSUME NEW i \in 1..Len(contexts[c].ci) PROVE contexts[c].ci[i] \in FramesIn(L, O)
      <4>1. contexts[c].ci[i] \in FramesIn(Over(heap), O)
        BY <3>1, ElementOfSeq
      <4>2. contexts[c].ci[i].env \in L /\ contexts[c].ci[i].proc \in L
        BY <4>1, <1>2, <1>3, MarkedRefer DEF FramesIn
      <4> QED  BY <4>1, <4>2 DEF FramesIn
    <3> QED  BY <3>1, <3>2, SeqDef, ElementOfSeq, LenProperties
  <2> QED  BY <2>1, <2>2, <2>3, <2>4 DEF ContextsIn
<1>4. \A c \in Contexts : Context(IF contexts[c].status = "none" THEN "none" ELSE "terminated") \in ContextsIn(L, O)
  BY EmptyOK DEF Over, Statuses
<1> QED  BY <1>1, <1>3, <1>4 DEF ContextsOK

\* A collection leaves the roots, the tasks that are queued and the program's rule.
LEMMA CollectOK ==
  ASSUME IInv, Collect, natives = <<>>,
         UNCHANGED <<cur, natives, exc, gc_registered, owned, running>>
  PROVE  /\ HeapOK(heap', Programs(loaded)) /\ ContextsOK(contexts', Over(heap'), Programs(loaded))
         /\ natives' \in Seq(NativesOver(LiveOf(heap')))
         /\ cur' \in Contexts /\ exc' \in Over(heap') /\ running' \in Over(heap')
         /\ gc_registered' \subseteq LiveOf(heap') /\ dormant' \subseteq LiveOf(heap')
         /\ owned' \subseteq LiveOf(heap')
         /\ OwnedAreTasks' /\ TasksAreListed'
<1>1. /\ LiveOf(heap') = Reached \cap Objs
      /\ \A k \in LiveOf(heap') : heap'[k].kind = heap[k].kind
      /\ HeapOK(heap', Programs(loaded)) /\ ContextsOK(contexts', Over(heap'), Programs(loaded))
  BY SweptHeapOK, SweptContextsOK
<1>2. dormant' = dormant \cap Reached
  BY DEF Collect, Reached, StillDormant
<1>3. LiveOf(heap) = Live /\ Live \subseteq Objs /\ Live \subseteq Nodes
  BY Basics DEF Nodes
<1>4. ({exc, running} \cup gc_registered \cup owned) \ {0} \subseteq Reached \cap Objs
  <2>1. ({exc, running} \cup gc_registered \cup owned) \ {0} \subseteq Live
    BY <1>3 DEF IInv, OthersOK
  <2> QED  BY <2>1, <1>3, ReachedIsClosed DEF Roots
<1>5. 0 \notin Objs
  BY Basics
<1>6. natives' \in Seq(NativesOver(LiveOf(heap')))
  BY EmptySeq
<1>7. gc_registered' \subseteq LiveOf(heap') /\ owned' \subseteq LiveOf(heap')
  BY <1>1, <1>3, <1>4, <1>5 DEF IInv, OthersOK
<1>8. dormant' \subseteq LiveOf(heap')
  BY <1>1, <1>2, <1>3 DEF IInv, OthersOK
<1>9. exc' \in Over(heap') /\ running' \in Over(heap') /\ cur' \in Contexts
  BY <1>1, <1>4 DEF IInv, OthersOK, Over
<1>10. OwnedAreTasks'
  BY <1>1, <1>7, <1>9 DEF IInv, OwnedAreTasks, Over
<1>11. TasksAreListed'
  <2> SUFFICES ASSUME NEW k \in Objs, heap'[k].kind = "task" PROVE k \in owned' \cup dormant'
    BY DEF TasksAreListed
  <2>1. k \in LiveOf(heap')
    BY DEF LiveOf
  <2>2. heap[k].kind = "task" /\ k \in Reached
    BY <2>1, <1>1
  <2> QED  BY <2>2, <1>2 DEF IInv, TasksAreListed
<1> QED  BY <1>1, <1>6, <1>7, <1>8, <1>9, <1>10, <1>11

---------------------------------------------------------------------------
(* The steps that do not collect. *)

\* A step that keeps every live object of its kind keeps what else holds them.
LEMMA KindsKept ==
  ASSUME IInv, NEW hp, \A k \in LiveOf(heap) : hp[k].kind = heap[k].kind
  PROVE  /\ LiveOf(heap) \subseteq LiveOf(hp) /\ Over(heap) \subseteq Over(hp)
         /\ natives \in Seq(NativesOver(LiveOf(hp)))
         /\ ContextsOK(contexts, Over(hp), Programs(loaded))
         /\ OthersOK(LiveOf(hp))
<1>1. LiveOf(heap) \subseteq LiveOf(hp)
  BY DEF LiveOf
<1>2. Over(heap) \subseteq Over(hp)
  BY <1>1 DEF Over
<1>3. natives \in Seq(NativesOver(LiveOf(hp)))
  BY <1>1, NativesMono DEF IInv, OthersOK
<1>4. ContextsOK(contexts, Over(hp), Programs(loaded))
  BY <1>2, ContextsMono DEF IInv
<1> QED  BY <1>1, <1>2, <1>3, <1>4 DEF IInv, OthersOK

\* The two halves of an instruction are all there is to show of it.
LEMMA InstructionOK ==
  ASSUME IInv, NEW hp, NEW cx, Instruction(hp, cx),
         HeapOK(hp, Programs(loaded)), ContextsOK(cx, Over(hp), Programs(loaded)),
         \A k \in LiveOf(heap) : hp[k].kind = heap[k].kind,
         \A k \in Objs : hp[k].kind = "task" => heap[k].kind = "task"
  PROVE  IInv'
<1>1. heap' = hp /\ contexts' = cx
  BY DEF Instruction
<1>2. UNCHANGED <<cur, natives, exc, gc_registered, dormant, owned, running, loaded>>
  BY DEF Instruction, scheduler
<1>3. (OthersOK(LiveOf(heap)))'
  BY <1>1, <1>2, KindsKept DEF OthersOK
<1>4. OwnedAreTasks'
  BY <1>1, <1>2 DEF OwnedAreTasks, IInv, OthersOK
<1>5. TasksAreListed'
  BY <1>1, <1>2 DEF TasksAreListed, IInv
<1> QED  BY <1>1, <1>2, <1>3, <1>4, <1>5 DEF IInv, OthersOK

\* The registers of a running frame.
LEMMA TopOK ==
  ASSUME IInv, contexts[cur].ci # <<>>
  PROVE  /\ Top \in FramesIn(Over(heap), Programs(loaded))
         /\ Top.base \in Slots
         /\ Window(Top) \subseteq Slots
         /\ \A r \in Slots : Reg(r) \in Over(heap)
         /\ \A v \in Over(heap) : v # 0 => v \in LiveOf(heap) /\ v \in Objs
         /\ Len(contexts[cur].ci) \in Nat /\ Len(contexts[cur].ci) >= 1
         /\ Top = contexts[cur].ci[Len(contexts[cur].ci)]
<1>1. cur \in Contexts
  BY DEF IInv, OthersOK
<1>2. Top \in FramesIn(Over(heap), Programs(loaded)) /\ Top = contexts[cur].ci[Len(contexts[cur].ci)]
  BY <1>1, FrameOfContext DEF IInv, Top, TopOf, Last
<1>3. Window(Top) \subseteq Slots
  BY <1>2, SizesAssumption DEF Window, FramesIn, Slots
<1>4. \A r \in Slots : Reg(r) \in Over(heap)
  BY <1>1 DEF IInv, ContextsOK, ContextsIn, Reg
<1>5. Len(contexts[cur].ci) \in Nat /\ Len(contexts[cur].ci) >= 1
  BY <1>1, FrameOfContext DEF IInv
<1> QED  BY <1>2, <1>3, <1>4, <1>5 DEF FramesIn, Over, LiveOf

LEMMA MoveOK ==
  ASSUME IInv, contexts[cur].ci # <<>>, NEW r, NEW v \in Over(heap),
         Instruction(heap, WithReg(contexts, cur, r, v))
  PROVE  IInv'
<1>1. ContextsOK(WithReg(contexts, cur, r, v), Over(heap), Programs(loaded))
  BY WithRegOK DEF IInv
<1> QED  BY <1>1, InstructionOK DEF IInv

LEMMA NewOK ==
  ASSUME IInv, NEW k \in Objs, NEW r, New(k, r)
  PROVE  IInv'
<1> DEFINE hp == [heap EXCEPT ![k] = Object("obj", 0)]
<1>1. heap[k].kind = "free"
  BY DEF New, IsNew, IsLive
<1>2. Object("obj", 0) \in ObjectsIn(Over(heap), Programs(loaded)) /\ WellFormed(Object("obj", 0))
  BY FreshOK DEF Kinds, Over
<1>3. HeapOK(hp, Programs(loaded)) /\ LiveOf(hp) = LiveOf(heap) \cup {k}
  <2>1. Object("obj", 0).kind # "free"
    BY DEF Object
  <2>2. HeapOK(heap, Programs(loaded))
    BY DEF IInv
  <2> QED  BY <1>1, <1>2, <2>1, <2>2, AllocOK
<1>4. \A j \in Objs : hp[j] = IF j = k THEN Object("obj", 0) ELSE heap[j]
  BY DEF IInv, HeapOK
<1>5. ContextsOK(contexts, Over(hp), Programs(loaded))
  BY <1>1, <1>4, KindsKept DEF LiveOf
<1>6. ContextsOK(WithReg(contexts, cur, r, k), Over(hp), Programs(loaded))
  BY <1>3, <1>5, WithRegOK DEF Over
<1>7. Instruction(hp, WithReg(contexts, cur, r, k))
  BY DEF New
<1>8. \A j \in LiveOf(heap) : hp[j].kind = heap[j].kind
  BY <1>1, <1>4 DEF LiveOf
<1>9. \A j \in Objs : hp[j].kind = "task" => heap[j].kind = "task"
  BY <1>4 DEF Object
<1> HIDE DEF hp
<1> QED  BY <1>3, <1>6, <1>7, <1>8, <1>9, InstructionOK

LEMMA UpvarOK ==
  ASSUME IInv, contexts[cur].ci # <<>>, NEW r \in Slots, GetUpvar(r) \/ SetUpvar(r)
  PROVE  IInv'
<1> DEFINE e == heap[Top.proc].ref
<1>1. e \in Objs /\ e \in LiveOf(heap) /\ Reg(r) \in Over(heap)
  <2>1. Top.proc \in Over(heap) /\ Top.proc # 0 /\ e # 0
    BY TopOK DEF FramesIn, GetUpvar, SetUpvar, RunsBlock
  <2>2. Top.proc \in Objs
    BY <2>1, TopOK
  <2>3. e \in Over(heap)
    BY <2>2 DEF IInv, HeapOK, ObjectsIn
  <2> QED  BY <2>1, <2>3, TopOK
<1>2. CASE GetUpvar(r)
  <2>1. EnvGet(heap, contexts, e) \in Over(heap)
    BY <1>1, EnvGetOK DEF IInv, HeapOK, Over
  <2> QED  BY <1>2, <2>1, MoveOK DEF GetUpvar
<1>3. CASE SetUpvar(r)
  <2>1. CASE heap[e].on = NoCtx
    <3>1. Instruction([heap EXCEPT ![e].ref = Reg(r)], contexts)
      BY <1>3, <2>1 DEF SetUpvar
    <3>2. /\ HeapOK([heap EXCEPT ![e].ref = Reg(r)], Programs(loaded))
          /\ LiveOf([heap EXCEPT ![e].ref = Reg(r)]) = LiveOf(heap)
          /\ \A j \in Objs : [heap EXCEPT ![e].ref = Reg(r)][j].kind = heap[j].kind
      BY <1>1, ReferOK DEF IInv
    <3> QED  BY <3>1, <3>2, InstructionOK DEF IInv, Over, LiveOf
  <2>2. CASE heap[e].on # NoCtx
    <3>1. Instruction(heap, WithReg(contexts, heap[e].on, heap[e].base, Reg(r)))
      BY <1>3, <2>2 DEF SetUpvar
    <3>2. ContextsOK(WithReg(contexts, heap[e].on, heap[e].base, Reg(r)), Over(heap), Programs(loaded))
      BY <1>1, WithRegOK DEF IInv
    <3> QED  BY <3>1, <3>2, InstructionOK DEF IInv
  <2> QED  BY <2>1, <2>2
<1> QED  BY <1>2, <1>3

LEMMA CallsOK ==
  ASSUME IInv, contexts[cur].ci # <<>>, NEW r \in Slots, Send \/ CallBlock(r)
  PROVE  IInv'
<1>1. CASE Send
  <2> DEFINE f == Frame(Top.base + 1, MethodRegs, 0, FALSE, FALSE)
  <2>1. FALSE \in Programs(loaded) /\ 0 \in Over(heap)
    BY DEF Programs, Over
  <2>2. Fits(f) /\ Instruction(heap, Push(contexts, cur, f, Reg(f.base)))
    BY <1>1 DEF Send
  <2>3. f \in FramesIn(Over(heap), Programs(loaded))
    BY <2>1, <2>2, FrameOK, SizesAssumption
  <2>4. Reg(f.base) \in Over(heap)
    BY <2>3, TopOK DEF FramesIn
  <2>5. ContextsOK(Push(contexts, cur, f, Reg(f.base)), Over(heap), Programs(loaded))
    BY <2>1, <2>3, <2>4, PushOK DEF IInv
  <2> QED  BY <2>2, <2>5, InstructionOK DEF IInv
<1>2. CASE CallBlock(r)
  <2> DEFINE f == Frame(Top.base + 1, BlockRegs, Reg(r), FALSE, heap[Reg(r)].ours)
  <2>1. Reg(r) \in Over(heap) /\ Reg(r) \in Objs /\ 0 \in Over(heap)
    BY <1>2, TopOK DEF CallBlock, IsProc, Over
  <2>2. heap[Reg(r)].ours \in Programs(loaded)
    BY <2>1 DEF IInv, HeapOK, ObjectsIn
  <2>3. Fits(f) /\ Instruction(heap, Push(contexts, cur, f, 0))
    BY <1>2 DEF CallBlock
  <2>4. f \in FramesIn(Over(heap), Programs(loaded))
    BY <2>1, <2>2, <2>3, FrameOK, SizesAssumption
  <2>5. ContextsOK(Push(contexts, cur, f, 0), Over(heap), Programs(loaded))
    BY <2>1, <2>4, PushOK DEF IInv
  <2> QED  BY <2>3, <2>5, InstructionOK DEF IInv
<1> QED  BY <1>1, <1>2

\* What an allocation gives an instruction to show.
LEMMA MadeOK ==
  ASSUME IInv, NEW k \in Objs, heap[k].kind = "free", NEW o \in ObjectsIn(Over(heap), Programs(loaded)),
         o.kind # "free", WellFormed(o)
  PROVE  /\ HeapOK([heap EXCEPT ![k] = o], Programs(loaded))
         /\ LiveOf([heap EXCEPT ![k] = o]) = LiveOf(heap) \cup {k}
         /\ \A j \in Objs : [heap EXCEPT ![k] = o][j] = IF j = k THEN o ELSE heap[j]
         /\ \A j \in LiveOf(heap) : [heap EXCEPT ![k] = o][j].kind = heap[j].kind
         /\ ContextsOK(contexts, Over([heap EXCEPT ![k] = o]), Programs(loaded))
<1> DEFINE hp == [heap EXCEPT ![k] = o]
<1>1. HeapOK(hp, Programs(loaded)) /\ LiveOf(hp) = LiveOf(heap) \cup {k}
  BY AllocOK DEF IInv
<1>2. \A j \in Objs : hp[j] = IF j = k THEN o ELSE heap[j]
  BY DEF IInv, HeapOK
<1>3. \A j \in LiveOf(heap) : hp[j].kind = heap[j].kind
  BY <1>2 DEF LiveOf
<1> HIDE DEF hp
<1>4. ContextsOK(contexts, Over(hp), Programs(loaded))
  BY <1>3, KindsKept
<1> QED  BY <1>1, <1>2, <1>3, <1>4 DEF hp

\* A step is shown by the types of what it leaves and by its tasks.
LEMMA StepOK ==
  ASSUME IInv, loaded' = loaded,
         HeapOK(heap', Programs(loaded)), ContextsOK(contexts', Over(heap'), Programs(loaded)),
         natives' \in Seq(NativesOver(LiveOf(heap'))),
         cur' \in Contexts, exc' \in Over(heap'), running' \in Over(heap'),
         gc_registered' \subseteq LiveOf(heap'), dormant' \subseteq LiveOf(heap'),
         owned' \subseteq LiveOf(heap'), OwnedAreTasks', TasksAreListed'
  PROVE  IInv'
<1>1. (OthersOK(LiveOf(heap)))'
  BY DEF OthersOK, Over, IInv
<1> QED  BY <1>1 DEF IInv

\* A step that leaves the queues alone and makes no task.
LEMMA QuietOK ==
  ASSUME IInv, UNCHANGED <<scheduler, loaded>>,
         HeapOK(heap', Programs(loaded)), ContextsOK(contexts', Over(heap'), Programs(loaded)),
         \A k \in LiveOf(heap) : heap'[k].kind = heap[k].kind,
         \A k \in Objs : heap'[k].kind = "task" => heap[k].kind = "task",
         natives' = natives \/ natives' \in Seq(NativesOver(LiveOf(heap'))),
         cur' \in Contexts, exc' \in Over(heap), gc_registered' \subseteq LiveOf(heap)
  PROVE  IInv'
<1>1. UNCHANGED <<dormant, owned, running>>
  BY DEF scheduler
<1>2. LiveOf(heap) \subseteq LiveOf(heap') /\ Over(heap) \subseteq Over(heap')
  BY DEF LiveOf, Over
<1>3. natives' \in Seq(NativesOver(LiveOf(heap')))
  BY <1>2, NativesMono DEF IInv, OthersOK
<1>4. /\ running' \in Over(heap') /\ exc' \in Over(heap')
      /\ gc_registered' \subseteq LiveOf(heap') /\ dormant' \subseteq LiveOf(heap')
      /\ owned' \subseteq LiveOf(heap')
  BY <1>1, <1>2 DEF IInv, OthersOK, Over
<1>5. OwnedAreTasks'
  BY <1>1 DEF OwnedAreTasks, IInv, OthersOK
<1>6. TasksAreListed'
  BY <1>1 DEF TasksAreListed, IInv
<1> QED  BY <1>3, <1>4, <1>5, <1>6, StepOK

\* A context whose first frames alone are kept.
LEMMA ShortenedOK ==
  ASSUME NEW vs, NEW os, NEW cx, ContextsOK(cx, vs, os), NEW c \in Contexts, NEW n \in 0..Len(cx[c].ci)
  PROVE  ContextsOK([cx EXCEPT ![c].ci = SubSeq(@, 1, n)], vs, os)
<1>1. SubSeq(cx[c].ci, 1, n) \in Seq(FramesIn(vs, os))
  BY CutOK DEF ContextsOK, ContextsIn
<1> QED  BY <1>1 DEF ContextsOK, ContextsIn

LEMMA TaskValueOK ==
  ASSUME IInv, contexts[cur].ci # <<>>, NEW r, NEW s \in Slots, TaskValue(r, s)
  PROVE  IInv'
<1>1. Reg(s) \in Objs
  BY TopOK DEF TaskValue
<1>2. heap[Reg(s)].ref \in Over(heap)
  BY <1>1 DEF IInv, HeapOK, ObjectsIn
<1> QED  BY <1>2, MoveOK DEF TaskValue

\* The frame's environment, made now or before, and the Proc that refers to it.
LEMMA MakeProcOK ==
  ASSUME IInv, contexts[cur].ci # <<>>, NEW r \in Slots, NEW e \in Objs, NEW k \in Objs,
         MakeProc(r, e, k)
  PROVE  IInv'
<1> DEFINE P == Programs(loaded)
           n == Len(contexts[cur].ci)
           env == [Object("env", 0) EXCEPT !.on = cur, !.base = Top.base]
           made == IF Top.env = 0 THEN [heap EXCEPT ![e] = env] ELSE heap
           proc == [Object("proc", e) EXCEPT !.ours = Top.ours]
           hp == [made EXCEPT ![k] = proc]
           cx == [contexts EXCEPT ![cur].ci[n].env = e, ![cur].stack[r] = k]
<1>1. /\ Top \in FramesIn(Over(heap), P) /\ Top.base \in Slots /\ Top.ours \in P
      /\ cur \in Contexts /\ n \in Nat /\ n >= 1 /\ FALSE \in P
  BY TopOK DEF FramesIn, IInv, OthersOK, Programs
<1>2. /\ HeapOK(made, P) /\ made[k].kind = "free" /\ e \in LiveOf(made)
      /\ \A j \in LiveOf(heap) : made[j].kind = heap[j].kind
      /\ \A j \in Objs : made[j].kind = "task" => heap[j].kind = "task"
  <2>1. CASE Top.env = 0
    <3>1. heap[e].kind = "free" /\ heap[k].kind = "free" /\ e # k
      BY <2>1, SizesAssumption DEF MakeProc, AreNew, IsNew, IsLive, Objs
    <3>2. env \in ObjectsIn(Over(heap), P) /\ WellFormed(env) /\ env.kind = "env"
      <4>1. env.kind = "env" /\ env.on = cur /\ env.base = Top.base /\ env.ours = FALSE
        BY DEF Object
      <4>2. Top.base \in 0..StackSize /\ 0 \in Over(heap)
        BY <1>1, SizesAssumption DEF Slots, Over
      <4>3. Object("env", 0) \in ObjectsIn(Over(heap), P)
        BY <4>2, FreshOK
      <4>4. env \in ObjectsIn(Over(heap), P)
        BY <1>1, <4>2, <4>3 DEF ObjectsIn
      <4> HIDE DEF env
      <4> QED  BY <1>1, <4>1, <4>4 DEF WellFormed
    <3>3. made = [heap EXCEPT ![e] = env]
      BY <2>1
    <3> HIDE DEF env, made
    <3>4. HeapOK(made, P) /\ LiveOf(made) = LiveOf(heap) \cup {e}
      <4>1. HeapOK(heap, P) /\ env.kind # "free"
        BY <3>2 DEF IInv
      <4>2. env \in ObjectsIn(Over(heap), P) /\ WellFormed(env) /\ heap[e].kind = "free"
        BY <3>1, <3>2
      <4> HIDE DEF P
      <4>3. HeapOK([heap EXCEPT ![e] = env], P) /\ LiveOf([heap EXCEPT ![e] = env]) = LiveOf(heap) \cup {e}
        BY <4>1, <4>2, AllocOK
      <4> QED  BY <3>3, <4>3
    <3>5. \A j \in Objs : made[j] = IF j = e THEN env ELSE heap[j]
      BY <3>3 DEF IInv, HeapOK
    <3> QED  BY <3>1, <3>2, <3>4, <3>5 DEF LiveOf
  <2>2. CASE Top.env # 0
    <3>1. e = Top.env /\ heap[k].kind = "free"
      BY <2>2 DEF MakeProc, IsNew, IsLive
    <3>2. e \in LiveOf(heap)
      BY <3>1, <2>2, <1>1 DEF FramesIn, Over
    <3> QED  BY <3>1, <3>2, <2>2 DEF IInv
  <2> QED  BY <2>1, <2>2
<1>3. proc \in ObjectsIn(Over(made), P) /\ WellFormed(proc) /\ proc.kind = "proc"
  <2>1. e \in Over(made)
    BY <1>2 DEF Over
  <2> HIDE DEF made
  <2> QED  BY <1>1, <2>1, SizesAssumption DEF Object, ObjectsIn, Kinds, WellFormed, IsAttached
<1>4. Instruction(hp, cx)
  BY DEF MakeProc
<1> HIDE DEF made, proc
<1>5. HeapOK(hp, P) /\ LiveOf(hp) = LiveOf(made) \cup {k}
  <2>1. /\ HeapOK(made, P) /\ made[k].kind = "free" /\ proc.kind # "free"
        /\ proc \in ObjectsIn(Over(made), P) /\ WellFormed(proc)
    BY <1>2, <1>3
  <2> HIDE DEF P
  <2> QED  BY <2>1, AllocOK
<1>6. \A j \in Objs : hp[j] = IF j = k THEN proc ELSE made[j]
  BY <1>2 DEF HeapOK
<1>7. /\ \A j \in LiveOf(heap) : hp[j].kind = heap[j].kind
      /\ \A j \in Objs : hp[j].kind = "task" => heap[j].kind = "task"
  BY <1>2, <1>3, <1>6 DEF LiveOf
<1>8. ContextsOK(cx, Over(hp), P)
  <2> DEFINE V == Over(hp)
  <2>1. e \in V /\ k \in V
    BY <1>2, <1>5 DEF Over
  <2>2. ContextsOK(contexts, V, P)
    BY <1>7, KindsKept
  <2> HIDE DEF hp, V
  <2>3. contexts[cur].ci \in Seq(FramesIn(V, P)) /\ contexts[cur].ci[n] \in FramesIn(V, P)
    BY <1>1, <2>2, ElementOfSeq DEF ContextsOK, ContextsIn
  <2>4. [contexts[cur].ci EXCEPT ![n].env = e] \in Seq(FramesIn(V, P))
    <3>1. [contexts[cur].ci[n] EXCEPT !.env = e] \in FramesIn(V, P)
      BY <2>1, <2>3 DEF FramesIn
    <3> QED  BY <3>1, <2>3, <1>1, ExceptSeq
  <2>5. [contexts[cur].stack EXCEPT ![r] = k] \in [Slots -> V]
    BY <1>1, <2>1, <2>2 DEF ContextsOK, ContextsIn
  <2> DEFINE x == [contexts[cur] EXCEPT !.ci = [contexts[cur].ci EXCEPT ![n].env = e],
                                        !.stack = [contexts[cur].stack EXCEPT ![r] = k]]
  <2>6. contexts \in [Contexts -> ContextsIn(V, P)]
    BY <2>2 DEF ContextsOK
  <2>7. x \in ContextsIn(V, P)
    BY <1>1, <2>4, <2>5, <2>6 DEF ContextsIn
  <2>8. cx = [contexts EXCEPT ![cur] = x]
    BY <1>1, <2>6 DEF ContextsIn
  <2> HIDE DEF cx, x
  <2> QED  BY <2>6, <2>7, <2>8 DEF ContextsOK, V
<1> HIDE DEF hp, cx
<1> QED  BY <1>4, <1>5, <1>7, <1>8, InstructionOK

LEMMA RaiseOK ==
  ASSUME IInv, contexts[cur].ci # <<>>, NEW s \in Slots, NEW n \in 1..Len(contexts[cur].ci), Raise(s, n)
  PROVE  IInv'
<1>1. cur \in Contexts /\ n \in 0..Len(contexts[cur].ci) /\ Reg(s) \in Over(heap)
  BY TopOK DEF IInv, OthersOK
<1>2. ContextsOK(contexts', Over(heap), Programs(loaded))
  BY <1>1, ShortenedOK DEF Raise, IInv
<1>3. /\ HeapOK(heap', Programs(loaded)) /\ LiveOf(heap') = LiveOf(heap)
      /\ \A k \in Objs : heap'[k].kind = heap[k].kind
  BY DetachedOK DEF Raise, IInv
<1>4. Over(heap') = Over(heap)
  BY <1>3 DEF Over
<1>5. UNCHANGED <<scheduler, loaded, natives, cur, gc_registered>> /\ exc' = Reg(s)
  BY DEF Raise
<1>6. cur' \in Contexts /\ gc_registered' \subseteq LiveOf(heap)
  BY <1>1, <1>5 DEF IInv, OthersOK
<1>7. \A k \in LiveOf(heap) : heap'[k].kind = heap[k].kind
  BY <1>3 DEF LiveOf
<1> QED  BY <1>1, <1>2, <1>3, <1>4, <1>5, <1>6, <1>7, QuietOK

LEMMA ExceptOK ==
  ASSUME IInv, NEW r, Except(r)
  PROVE  IInv'
<1>1. exc \in Over(heap) /\ 0 \in Over(heap) /\ cur \in Contexts /\ gc_registered \subseteq LiveOf(heap)
  BY DEF IInv, OthersOK, Over
<1>2. heap' = heap /\ ContextsOK(contexts', Over(heap), Programs(loaded))
  BY <1>1, WithRegOK DEF Except, IInv
<1> QED  BY <1>1, <1>2, QuietOK DEF Except, IInv

---------------------------------------------------------------------------
(* Returns, fibers. *)

\* A context that ended holds nothing.
LEMMA EndedOK ==
  ASSUME NEW vs, 0 \in vs, NEW os, ContextsOK(contexts, vs, os), NEW c \in Contexts
  PROVE  Ended(c) \in ContextsIn(vs, os)
<1>1. <<>> \in Seq(FramesIn(vs, os)) /\ [s \in Slots |-> 0] \in [Slots -> vs]
  BY EmptySeq
<1> QED  BY <1>1 DEF ContextsOK, ContextsIn, Ended, Statuses

\* The heap when a frame's environment has left it, and the frames below.
LEMMA PoppedOK ==
  ASSUME IInv, contexts[cur].ci # <<>>
  PROVE  LET hp == Detached(heap, contexts, {Top.env})
         IN  /\ HeapOK(hp, Programs(loaded)) /\ LiveOf(hp) = LiveOf(heap)
             /\ \A k \in Objs : hp[k].kind = heap[k].kind
             /\ ContextsOK(Popped, Over(heap), Programs(loaded))
             /\ Over(hp) = Over(heap)
<1> DEFINE hp == Detached(heap, contexts, {Top.env})
<1>1. /\ HeapOK(hp, Programs(loaded)) /\ LiveOf(hp) = LiveOf(heap)
      /\ \A k \in Objs : hp[k].kind = heap[k].kind
  BY DetachedOK DEF IInv
<1>2. cur \in Contexts /\ Len(contexts[cur].ci) \in Nat /\ Len(contexts[cur].ci) >= 1
  BY TopOK DEF IInv, OthersOK
<1>3. ContextsOK(Popped, Over(heap), Programs(loaded))
  <2>1. Len(contexts[cur].ci) - 1 \in 0..Len(contexts[cur].ci)
    BY <1>2
  <2>2. ContextsOK(contexts, Over(heap), Programs(loaded))
    BY DEF IInv
  <2>3. ContextsOK([contexts EXCEPT ![cur].ci = SubSeq(@, 1, Len(contexts[cur].ci) - 1)],
                   Over(heap), Programs(loaded))
    BY <1>2, <2>1, <2>2, ShortenedOK
  <2> QED  BY <2>3 DEF Popped, Front
<1> QED  BY <1>1, <1>3 DEF Over

\* What a native holds is live.
LEMMA NativeOK ==
  ASSUME IInv, natives # <<>>
  PROVE  /\ Last(natives) \in NativesOver(LiveOf(heap))
         /\ Len(natives) \in 1..Len(natives)
         /\ Front(natives) \in Seq(NativesOver(LiveOf(heap)))
<1>1. natives \in Seq(NativesOver(LiveOf(heap)))
  BY DEF IInv, OthersOK
<1>2. Len(natives) \in Nat /\ Len(natives) >= 1
  BY <1>1, EmptySeq, LenProperties
<1>3. Last(natives) \in NativesOver(LiveOf(heap))
  BY <1>1, <1>2, ElementOfSeq DEF Last
<1>4. Front(natives) \in Seq(NativesOver(LiveOf(heap)))
  BY <1>1, <1>2, SubSeqProperties, ElementOfSeq DEF Front
<1> QED  BY <1>2, <1>3, <1>4

LEMMA ReturnToCallerOK ==
  ASSUME IInv, contexts[cur].ci # <<>>, NEW r \in Slots, ReturnToCaller(r)
  PROVE  IInv'
<1> DEFINE hp == Detached(heap, contexts, {Top.env})
           cx == WithReg(Popped, cur, Top.base, Reg(r))
<1>1. Instruction(hp, cx)
  BY DEF ReturnToCaller
<1>2. /\ HeapOK(hp, Programs(loaded)) /\ LiveOf(hp) = LiveOf(heap) /\ Over(hp) = Over(heap)
      /\ \A k \in Objs : hp[k].kind = heap[k].kind
      /\ ContextsOK(Popped, Over(heap), Programs(loaded)) /\ Reg(r) \in Over(heap)
  BY PoppedOK, TopOK
<1>3. ContextsOK(cx, Over(hp), Programs(loaded))
  BY <1>2, WithRegOK
<1>4. \A k \in LiveOf(heap) : hp[k].kind = heap[k].kind
  BY <1>2 DEF LiveOf
<1> HIDE DEF hp, cx
<1> QED  BY <1>1, <1>2, <1>3, <1>4, InstructionOK

LEMMA ReturnToNativeOK ==
  ASSUME IInv, contexts[cur].ci # <<>>, NEW r \in Slots, ReturnToNative(r)
  PROVE  IInv'
<1>1. /\ HeapOK(heap', Programs(loaded)) /\ LiveOf(heap') = LiveOf(heap) /\ Over(heap') = Over(heap)
      /\ \A k \in Objs : heap'[k].kind = heap[k].kind
      /\ ContextsOK(Popped, Over(heap), Programs(loaded)) /\ Reg(r) \in Over(heap)
  BY PoppedOK, TopOK DEF ReturnToNative
<1>2. ContextsOK(contexts', Over(heap'), Programs(loaded))
  <2>1. Popped \in [Contexts -> ContextsIn(Over(heap), Programs(loaded))] /\ cur \in Contexts
    BY <1>1 DEF ContextsOK, IInv, OthersOK
  <2>2. Popped[cur].stack \in [Slots -> Over(heap)] /\ 0 \in Over(heap)
    BY <2>1 DEF ContextsIn, Over
  <2>3. Truncated(Popped[cur].stack, Top.base) \in [Slots -> Over(heap)]
    BY <2>2, TruncatedOK
  <2>4. contexts' = [Popped EXCEPT ![cur].stack = Truncated(@, Top.base)]
    BY DEF ReturnToNative
  <2> QED  BY <2>1, <2>3, <2>4, <1>1 DEF ContextsOK, ContextsIn
<1>3. natives' \in Seq(NativesOver(LiveOf(heap')))
  <2> DEFINE n == [loop |-> FALSE, held |-> natives[Len(natives)].held \cup ({Reg(r)} \ {0})]
  <2>1. natives \in Seq(NativesOver(LiveOf(heap))) /\ Last(natives) \in NativesOver(LiveOf(heap))
        /\ Len(natives) \in 1..Len(natives)
    BY NativeOK DEF IInv, OthersOK, ReturnToNative
  <2>2. {Reg(r)} \ {0} \subseteq LiveOf(heap)
    BY <1>1 DEF Over
  <2>3. n \in NativesOver(LiveOf(heap))
    BY <2>1, <2>2 DEF Last, NativesOver
  <2>4. natives' = [natives EXCEPT ![Len(natives)] = n]
    BY DEF ReturnToNative
  <2> HIDE DEF n
  <2> QED  BY <1>1, <2>1, <2>3, <2>4, ExceptSeq
<1>4. UNCHANGED <<scheduler, loaded, cur, exc, gc_registered>>
  BY DEF ReturnToNative
<1>5. /\ cur' \in Contexts /\ exc' \in Over(heap) /\ gc_registered' \subseteq LiveOf(heap)
      /\ \A k \in LiveOf(heap) : heap'[k].kind = heap[k].kind
  BY <1>1, <1>4 DEF IInv, OthersOK, Over, LiveOf
<1> QED  BY <1>1, <1>2, <1>3, <1>4, <1>5, QuietOK

LEMMA ReturnToHostOK ==
  ASSUME IInv, contexts[cur].ci # <<>>, NEW r \in Slots, ReturnToHost(r)
  PROVE  IInv'
<1>1. /\ HeapOK(heap', Programs(loaded)) /\ LiveOf(heap') = LiveOf(heap) /\ Over(heap') = Over(heap)
      /\ \A k \in Objs : heap'[k].kind = heap[k].kind
      /\ ContextsOK(Popped, Over(heap), Programs(loaded)) /\ Reg(r) \in Over(heap)
  BY PoppedOK, TopOK DEF ReturnToHost
<1>2. ContextsOK(contexts', Over(heap'), Programs(loaded))
  <2>1. Popped \in [Contexts -> ContextsIn(Over(heap), Programs(loaded))] /\ Root \in Contexts
    BY <1>1 DEF ContextsOK, Contexts
  <2>2. [s \in Slots |-> 0] \in [Slots -> Over(heap)]
    BY DEF Over
  <2>3. contexts' = [Popped EXCEPT ![Root].stack = [s \in Slots |-> 0]]
    BY DEF ReturnToHost
  <2> QED  BY <2>1, <2>2, <2>3, <1>1 DEF ContextsOK, ContextsIn
<1>3. UNCHANGED <<scheduler, loaded, cur, exc, natives>>
  BY DEF ReturnToHost
<1>4. {Reg(r)} \ {0} \subseteq LiveOf(heap)
  BY <1>1 DEF Over
<1>5. gc_registered' \subseteq LiveOf(heap)
  BY <1>4 DEF ReturnToHost, IInv, OthersOK
<1>6. /\ cur' \in Contexts /\ exc' \in Over(heap)
      /\ \A k \in LiveOf(heap) : heap'[k].kind = heap[k].kind
  BY <1>1, <1>3 DEF IInv, OthersOK, Over, LiveOf
<1> QED  BY <1>1, <1>2, <1>3, <1>5, <1>6, QuietOK

LEMMA ReturnFromTaskOK ==
  ASSUME IInv, contexts[cur].ci # <<>>, NEW r \in Slots, ReturnFromTask(r)
  PROVE  IInv'
<1> DEFINE hp == Detached(heap, contexts, {Top.env})
<1>1. /\ HeapOK(hp, Programs(loaded)) /\ LiveOf(hp) = LiveOf(heap) /\ Over(hp) = Over(heap)
      /\ \A k \in Objs : hp[k].kind = heap[k].kind
      /\ Reg(r) \in Over(heap) /\ heap' = [hp EXCEPT ![running].ref = Reg(r)]
      /\ running \in LiveOf(heap) /\ 0 \in Over(heap) /\ cur \in Contexts /\ Root \in Contexts
  BY PoppedOK, TopOK DEF ReturnFromTask, IInv, OthersOK, Over, Contexts
<1> HIDE DEF hp
<1>2. /\ HeapOK(heap', Programs(loaded)) /\ LiveOf(heap') = LiveOf(heap) /\ Over(heap') = Over(heap)
      /\ \A k \in Objs : heap'[k].kind = heap[k].kind
  <2> DEFINE hq == [hp EXCEPT ![running].ref = Reg(r)]
  <2>0. running \in LiveOf(hp) /\ Reg(r) \in Over(hp) /\ HeapOK(hp, Programs(loaded))
    BY <1>1
  <2>2. heap' = hq
    BY <1>1
  <2>1. HeapOK(hq, Programs(loaded)) /\ LiveOf(hq) = LiveOf(hp)
        /\ \A k \in Objs : hq[k].kind = hp[k].kind
    BY <2>0, ReferOK
  <2> HIDE DEF hq
  <2> QED  BY <2>1, <2>2, <1>1 DEF Over
<1>3. ContextsOK(contexts', Over(heap'), Programs(loaded))
  <2>1. contexts \in [Contexts -> ContextsIn(Over(heap), Programs(loaded))]
    BY DEF IInv, ContextsOK
  <2>2. Ended(cur) \in ContextsIn(Over(heap), Programs(loaded))
    BY <1>1, EndedOK DEF IInv
  <2> DEFINE cx == [contexts EXCEPT ![cur] = Ended(cur)]
  <2>3. contexts' = [cx EXCEPT ![Root].status = "running"]
    BY DEF ReturnFromTask
  <2>4. cx \in [Contexts -> ContextsIn(Over(heap), Programs(loaded))]
    BY <2>1, <2>2
  <2> HIDE DEF cx
  <2>5. ContextsOK(contexts', Over(heap), Programs(loaded))
    BY <2>3, <2>4, ZenonT(60) DEF ContextsOK, ContextsIn, Statuses
  <2> QED  BY <1>2, <2>5
<1>4. /\ cur' = Root /\ dormant' = dormant \cup {running} /\ owned' = owned \ {running} /\ running' = 0
      /\ UNCHANGED <<natives, exc, gc_registered, loaded>>
  BY DEF ReturnFromTask
<1>5. /\ natives' \in Seq(NativesOver(LiveOf(heap')))
      /\ cur' \in Contexts /\ exc' \in Over(heap') /\ running' \in Over(heap')
      /\ gc_registered' \subseteq LiveOf(heap') /\ dormant' \subseteq LiveOf(heap')
      /\ owned' \subseteq LiveOf(heap')
  BY <1>1, <1>2, <1>4 DEF IInv, OthersOK, Over
<1>6. OwnedAreTasks' /\ TasksAreListed'
  BY <1>2, <1>4, Basics DEF OwnedAreTasks, TasksAreListed, IInv, OthersOK, LiveOf
<1>7. loaded' = loaded
  BY <1>4
<1> QED  BY <1>2, <1>3, <1>5, <1>6, <1>7, StepOK

LEMMA ReturnFromFiberOK ==
  ASSUME IInv, contexts[cur].ci # <<>>, NEW r \in Slots, ReturnFromFiber(r)
  PROVE  IInv'
<1>1. /\ HeapOK(heap', Programs(loaded)) /\ LiveOf(heap') = LiveOf(heap) /\ Over(heap') = Over(heap)
      /\ \A k \in Objs : heap'[k].kind = heap[k].kind
      /\ Reg(r) \in Over(heap) /\ 0 \in Over(heap)
  BY PoppedOK, TopOK DEF ReturnFromFiber, Over
<1>2. contexts \in [Contexts -> ContextsIn(Over(heap), Programs(loaded))] /\ cur \in Contexts
  BY DEF IInv, ContextsOK, OthersOK
<1>3. cur' = Resumer(cur) /\ cur' \in Contexts
  BY <1>2 DEF ReturnFromFiber, Resumer, ContextsIn, Contexts
<1> DEFINE cx == [contexts EXCEPT ![cur] = Ended(cur), ![cur'].status = "running"]
<1>4. ContextsOK(cx, Over(heap), Programs(loaded))
  <2>1. Ended(cur) \in ContextsIn(Over(heap), Programs(loaded))
    BY <1>1, <1>2, EndedOK DEF IInv
  <2> QED  BY <1>2, <1>3, <2>1, ZenonT(60) DEF ContextsOK, ContextsIn, Statuses
<1>5. contexts' = Deliver(cx, cur', Reg(r))
  BY DEF ReturnFromFiber
<1> HIDE DEF cx
<1>6. ContextsOK(contexts', Over(heap'), Programs(loaded))
  BY <1>1, <1>4, <1>5, WithRegOK DEF Deliver
<1>7. UNCHANGED <<scheduler, loaded, natives, exc, gc_registered>>
  BY DEF ReturnFromFiber
<1>8. /\ exc' \in Over(heap) /\ gc_registered' \subseteq LiveOf(heap)
      /\ \A k \in LiveOf(heap) : heap'[k].kind = heap[k].kind
  BY <1>1, <1>7 DEF IInv, OthersOK, Over, LiveOf
<1> QED  BY <1>1, <1>3, <1>6, <1>7, <1>8, QuietOK

\* One context that is written anew.
LEMMA UpdatedOK ==
  ASSUME NEW vs, NEW os, NEW cx, ContextsOK(cx, vs, os), NEW c \in Contexts, NEW x \in ContextsIn(vs, os)
  PROVE  ContextsOK([cx EXCEPT ![c] = x], vs, os)
BY DEF ContextsOK

\* Or only some of its fields.
LEMMA FieldsOK ==
  ASSUME NEW vs, NEW os, NEW cx, ContextsOK(cx, vs, os), NEW c \in Contexts,
         NEW st \in Statuses, NEW p \in Contexts \cup {NoCtx}, NEW b \in BOOLEAN
  PROVE  /\ ContextsOK([cx EXCEPT ![c].status = st], vs, os)
         /\ ContextsOK([cx EXCEPT ![c].prev = p], vs, os)
         /\ ContextsOK([cx EXCEPT ![c].vmexec = b], vs, os)
BY DEF ContextsOK, ContextsIn

\* A Fiber or a Task is made with a context of its own.
LEMMA CoroutineOK ==
  ASSUME IInv, contexts[cur].ci # <<>>, NEW k \in Objs, IsNew(k), NEW c \in Contexts,
         NEW kind \in {"fiber", "task"}, NEW fib \in {0, k}, NEW s \in Slots, NEW r
  PROVE  LET o == [Object(kind, 0) EXCEPT !.on = c]
             hp == [heap EXCEPT ![k] = o]
             x == Created(fib, Reg(s))
             cx == WithReg([contexts EXCEPT ![c] = x], cur, r, k)
         IN  /\ HeapOK(hp, Programs(loaded)) /\ LiveOf(hp) = LiveOf(heap) \cup {k}
             /\ \A j \in Objs : hp[j] = IF j = k THEN o ELSE heap[j]
             /\ \A j \in LiveOf(heap) : hp[j].kind = heap[j].kind
             /\ o.kind = kind
             /\ ContextsOK(cx, Over(hp), Programs(loaded))
<1> DEFINE o == [Object(kind, 0) EXCEPT !.on = c]
           hp == [heap EXCEPT ![k] = o]
           x == Created(fib, Reg(s))
           cy == [contexts EXCEPT ![c] = x]
<1>1. heap[k].kind = "free"
  BY DEF IsNew, IsLive
<1>2. o.kind = kind /\ o.ours = FALSE /\ o.on = c
  BY DEF Object
<1>3. o \in ObjectsIn(Over(heap), Programs(loaded))
  <2>1. FALSE \in Programs(loaded)
    BY DEF Programs
  <2>2. 0 \in 0..StackSize /\ 0 \in Over(heap)
    BY SizesAssumption DEF Over
  <2>3. Object(kind, 0) \in ObjectsIn(Over(heap), Programs(loaded))
    BY <2>1, <2>2 DEF Object, ObjectsIn, Kinds
  <2> QED  BY <2>3 DEF ObjectsIn
<1>4. WellFormed(o) /\ o.kind # "free"
  BY <1>2 DEF WellFormed, IsAttached
<1> HIDE DEF o
<1>5. /\ HeapOK(hp, Programs(loaded)) /\ LiveOf(hp) = LiveOf(heap) \cup {k}
      /\ \A j \in Objs : hp[j] = IF j = k THEN o ELSE heap[j]
      /\ \A j \in LiveOf(heap) : hp[j].kind = heap[j].kind
      /\ ContextsOK(contexts, Over(hp), Programs(loaded))
  BY <1>1, <1>3, <1>4, MadeOK
<1> HIDE DEF hp
<1>6. x \in ContextsIn(Over(hp), Programs(loaded))
  <2>1. Reg(s) \in Over(heap) /\ 0 \in Over(hp)
    BY TopOK DEF Over
  <2>2. Reg(s) \in Over(hp) /\ fib \in Over(hp)
    BY <2>1, <1>5 DEF Over
  <2>3. Context("created") \in ContextsIn(Over(hp), Programs(loaded))
    BY <2>1, EmptyOK DEF Statuses
  <2> QED  BY <2>2, <2>3 DEF ContextsIn, Created
<1> HIDE DEF x
<1>7. ContextsOK(cy, Over(hp), Programs(loaded))
  BY <1>5, <1>6, UpdatedOK
<1> HIDE DEF cy
<1>8. ContextsOK(WithReg(cy, cur, r, k), Over(hp), Programs(loaded))
  BY <1>5, <1>7, WithRegOK DEF Over
<1> QED  BY <1>2, <1>5, <1>8 DEF o, hp, x, cy

LEMMA FiberNewOK ==
  ASSUME IInv, contexts[cur].ci # <<>>, NEW k \in Objs, NEW r, NEW s \in Slots, NEW c \in Others,
         FiberNew(k, r, s, c)
  PROVE  IInv'
<1> DEFINE o == [Object("fiber", 0) EXCEPT !.on = c]
           hp == [heap EXCEPT ![k] = o]
           x == Created(k, Reg(s))
           cx == WithReg([contexts EXCEPT ![c] = x], cur, r, k)
<1>1. Instruction(hp, cx) /\ IsNew(k) /\ c \in Contexts
  BY DEF FiberNew, Contexts
<1>2. /\ HeapOK(hp, Programs(loaded))
      /\ \A j \in Objs : hp[j] = IF j = k THEN o ELSE heap[j]
      /\ \A j \in LiveOf(heap) : hp[j].kind = heap[j].kind
      /\ o.kind = "fiber"
      /\ ContextsOK(cx, Over(hp), Programs(loaded))
  BY <1>1, CoroutineOK
<1> HIDE DEF o, hp, cx
<1>3. \A j \in Objs : hp[j].kind = "task" => heap[j].kind = "task"
  BY <1>2
<1> QED  BY <1>1, <1>2, <1>3, InstructionOK

LEMMA TaskNewOK ==
  ASSUME IInv, contexts[cur].ci # <<>>, NEW k \in Objs, NEW r, NEW s \in Slots, NEW c \in Others,
         TaskNew(k, r, s, c)
  PROVE  IInv'
<1> DEFINE o == [Object("task", 0) EXCEPT !.on = c]
           hp == [heap EXCEPT ![k] = o]
           x == Created(0, Reg(s))
           cx == WithReg([contexts EXCEPT ![c] = x], cur, r, k)
<1>1. IsNew(k) /\ c \in Contexts /\ heap[k].kind = "free"
  BY DEF TaskNew, Contexts, IsNew, IsLive
<1>2. heap' = hp /\ contexts' = cx
  BY DEF TaskNew
<1>3. /\ HeapOK(hp, Programs(loaded)) /\ LiveOf(hp) = LiveOf(heap) \cup {k}
      /\ \A j \in Objs : hp[j] = IF j = k THEN o ELSE heap[j]
      /\ \A j \in LiveOf(heap) : hp[j].kind = heap[j].kind
      /\ o.kind = "task"
      /\ ContextsOK(cx, Over(hp), Programs(loaded))
  BY <1>1, CoroutineOK
<1> HIDE DEF o, hp, cx
<1>4. /\ owned' = owned \cup {k} /\ loaded' = loaded
      /\ UNCHANGED <<cur, natives, exc, gc_registered, dormant, running>>
  BY DEF TaskNew
<1>5. (OthersOK(LiveOf(heap)))'
  BY <1>2, <1>3, <1>4, KindsKept DEF OthersOK
<1>6. OwnedAreTasks'
  BY <1>1, <1>2, <1>3, <1>4 DEF OwnedAreTasks, IInv, OthersOK, LiveOf, Over
<1>7. TasksAreListed'
  BY <1>2, <1>3, <1>4 DEF TasksAreListed, IInv
<1> QED  BY <1>2, <1>3, <1>4, <1>5, <1>6, <1>7 DEF IInv

\* The first frame of a context, whose block is live.
LEMMA StartedOK ==
  ASSUME IInv, NEW c \in Contexts
  PROVE  ContextsOK(Started(contexts, c), Over(heap), Programs(loaded))
<1> DEFINE p == contexts[c].proc
           f == Frame(1, BlockRegs, p, FALSE, heap[p].ours)
<1>1. ContextsOK(contexts, Over(heap), Programs(loaded)) /\ p \in Over(heap) /\ 0 \in Over(heap)
  BY DEF IInv, ContextsOK, ContextsIn, Over
<1>2. ASSUME p # 0 PROVE ContextsOK(Push(contexts, c, f, 0), Over(heap), Programs(loaded))
  <2>1. p \in Objs /\ heap[p].ours \in Programs(loaded)
    BY <1>1, <1>2 DEF Over, LiveOf, IInv, HeapOK, ObjectsIn
  <2>2. Fits(f) /\ BlockRegs \in 1..StackSize
    BY SizesAssumption DEF Fits, Frame, Slots
  <2>3. f \in FramesIn(Over(heap), Programs(loaded))
    BY <1>1, <2>1, <2>2, FrameOK
  <2> QED  BY <1>1, <2>3, PushOK
<1> QED  BY <1>1, <1>2 DEF Started

\* A switch to another context.
LEMMA ResumeOK ==
  ASSUME IInv, contexts[cur].ci # <<>>, NEW s \in Slots, Resume(s)
  PROVE  IInv'
<1> DEFINE c == heap[Reg(s)].on
<1>1. Reg(s) \in Objs /\ heap[Reg(s)].kind = "fiber" /\ cur \in Contexts
  BY TopOK DEF Resume, IInv, OthersOK
<1>2. c \in Contexts
  BY <1>1 DEF IInv, HeapOK, WellFormed
<1>3. /\ contexts' = [Started(contexts, c) EXCEPT ![cur].status = "resumed",
                        ![c].status = "running", ![c].prev = cur]
      /\ cur' = c /\ UNCHANGED <<heap, natives, exc, gc_registered, scheduler, loaded>>
  BY DEF Resume
<1>4. ContextsOK(Started(contexts, c), Over(heap), Programs(loaded))
  BY <1>2, StartedOK
<1>5. ContextsOK(contexts', Over(heap'), Programs(loaded))
  <2> DEFINE c1 == [Started(contexts, c) EXCEPT ![cur].status = "resumed"]
             c2 == [c1 EXCEPT ![c].status = "running"]
             c3 == [c2 EXCEPT ![c].prev = cur]
  <2>1. ContextsOK(Started(contexts, c), Over(heap), Programs(loaded))
    BY <1>4
  <2>2. ContextsOK(c1, Over(heap), Programs(loaded))
    BY <2>1, <1>1, <1>2, FieldsOK DEF Statuses
  <2> HIDE DEF c1
  <2>3. ContextsOK(c2, Over(heap), Programs(loaded))
    BY <2>2, <1>1, <1>2, FieldsOK DEF Statuses
  <2> HIDE DEF c2
  <2>4. ContextsOK(c3, Over(heap), Programs(loaded))
    BY <2>3, <1>1, <1>2, FieldsOK DEF Statuses
  <2> HIDE DEF c3
  <2>5. contexts' = c3
    BY <1>3 DEF c1, c2, c3
  <2> QED  BY <2>4, <2>5, <1>3
<1> QED  BY <1>2, <1>3, <1>5, QuietOK DEF IInv, OthersOK, Over

LEMMA YieldOK ==
  ASSUME IInv, contexts[cur].ci # <<>>, NEW r \in Slots, Yield(r)
  PROVE  IInv'
<1> DEFINE prev == contexts[cur].prev
           cx == [contexts EXCEPT ![cur].status = "suspended", ![cur].prev = NoCtx,
                                  ![prev].status = "running"]
<1>1. Reg(r) \in Over(heap) /\ cur \in Contexts /\ prev # NoCtx
  BY TopOK DEF IInv, OthersOK, Yield
<1>2. contexts \in [Contexts -> ContextsIn(Over(heap), Programs(loaded))] /\ prev \in Contexts
  BY <1>1 DEF IInv, ContextsOK, ContextsIn
<1>3. ContextsOK(cx, Over(heap), Programs(loaded))
  <2> DEFINE c1 == [contexts EXCEPT ![cur].status = "suspended"]
             c2 == [c1 EXCEPT ![cur].prev = NoCtx]
             c3 == [c2 EXCEPT ![prev].status = "running"]
  <2>1. ContextsOK(contexts, Over(heap), Programs(loaded))
    BY DEF IInv
  <2>2. ContextsOK(c1, Over(heap), Programs(loaded))
    BY <2>1, <1>1, <1>2, FieldsOK DEF Statuses
  <2> HIDE DEF c1
  <2>3. ContextsOK(c2, Over(heap), Programs(loaded))
    BY <2>2, <1>1, <1>2, FieldsOK DEF Statuses
  <2> HIDE DEF c2
  <2>4. ContextsOK(c3, Over(heap), Programs(loaded))
    BY <2>3, <1>1, <1>2, FieldsOK DEF Statuses
  <2> HIDE DEF c3
  <2>5. cx = c3
    BY DEF c1, c2, c3
  <2> QED  BY <2>4, <2>5
<1>4. /\ contexts' = Deliver(cx, prev, Reg(r)) /\ cur' = prev
      /\ UNCHANGED <<heap, natives, exc, gc_registered, scheduler, loaded>>
  BY DEF Yield
<1> HIDE DEF cx, prev
<1>5. ContextsOK(contexts', Over(heap'), Programs(loaded))
  BY <1>1, <1>3, <1>4, WithRegOK DEF Deliver
<1> QED  BY <1>2, <1>4, <1>5, QuietOK DEF IInv, OthersOK, Over

---------------------------------------------------------------------------
(* Tasks. *)

LEMMA TaskStepOK ==
  ASSUME IInv, NEW t \in owned, TaskStep(t)
  PROVE  IInv'
<1> DEFINE c == heap[t].on
<1>1. t \in Objs /\ t \in LiveOf(heap) /\ heap[t].kind = "task" /\ Root \in Contexts
  BY DEF IInv, OthersOK, OwnedAreTasks, LiveOf, Contexts
<1>2. c \in Contexts
  BY <1>1 DEF IInv, HeapOK, WellFormed
<1>3. /\ contexts' = [Started(contexts, c) EXCEPT ![Root].status = "resumed",
                        ![c].status = "running", ![c].prev = Root, ![c].vmexec = TRUE]
      /\ cur' = c /\ running' = t
      /\ UNCHANGED <<heap, natives, exc, gc_registered, dormant, owned, loaded>>
  BY DEF TaskStep
<1>4. ContextsOK(Started(contexts, c), Over(heap), Programs(loaded))
  BY <1>2, StartedOK
<1>5. ContextsOK(contexts', Over(heap'), Programs(loaded))
  <2> DEFINE c1 == [Started(contexts, c) EXCEPT ![Root].status = "resumed"]
             c2 == [c1 EXCEPT ![c].status = "running"]
             c3 == [c2 EXCEPT ![c].prev = Root]
             c4 == [c3 EXCEPT ![c].vmexec = TRUE]
  <2>1. ContextsOK(Started(contexts, c), Over(heap), Programs(loaded))
    BY <1>4
  <2>2. ContextsOK(c1, Over(heap), Programs(loaded))
    BY <2>1, <1>1, <1>2, FieldsOK DEF Statuses
  <2> HIDE DEF c1
  <2>3. ContextsOK(c2, Over(heap), Programs(loaded))
    BY <2>2, <1>1, <1>2, FieldsOK DEF Statuses
  <2> HIDE DEF c2
  <2>4. ContextsOK(c3, Over(heap), Programs(loaded))
    BY <2>3, <1>1, <1>2, FieldsOK DEF Statuses
  <2> HIDE DEF c3
  <2>5. ContextsOK(c4, Over(heap), Programs(loaded))
    BY <2>4, <1>1, <1>2, FieldsOK DEF Statuses
  <2> HIDE DEF c4
  <2>6. contexts' = c4
    BY <1>3 DEF c1, c2, c3, c4
  <2> QED  BY <2>5, <2>6, <1>3
<1>6. (OthersOK(LiveOf(heap)))' /\ OwnedAreTasks' /\ TasksAreListed'
  BY <1>1, <1>2, <1>3 DEF IInv, OthersOK, OwnedAreTasks, TasksAreListed
<1> QED  BY <1>3, <1>5, <1>6 DEF IInv

LEMMA SpawnOK ==
  ASSUME IInv, NEW p \in Objs, NEW k \in Objs, NEW c \in Others, Spawn(p, k, c)
  PROVE  IInv'
<1> DEFINE P == Programs(loaded)
           proc == [Object("proc", 0) EXCEPT !.ours = TRUE]
           task == [Object("task", 0) EXCEPT !.on = c]
           made == [heap EXCEPT ![p] = proc]
           hp == [made EXCEPT ![k] = task]
           x == Created(0, p)
<1>1. heap[p].kind = "free" /\ heap[k].kind = "free" /\ p # k /\ c \in Contexts
  BY SizesAssumption DEF Spawn, AreNew, IsNew, IsLive, Objs, Contexts
<1>2. /\ proc.kind = "proc" /\ proc.ref = 0 /\ proc.on = NoCtx /\ proc.base = 0 /\ proc.ours = TRUE
      /\ task.kind = "task" /\ task.ref = 0 /\ task.on = c /\ task.base = 0 /\ task.ours = FALSE
  BY DEF Object
<1>3. \A vs : 0 \in vs => proc \in ObjectsIn(vs, P) /\ task \in ObjectsIn(vs, P)
  <2>1. TRUE \in P /\ FALSE \in P /\ 0 \in 0..StackSize
    BY SizesAssumption DEF Spawn, Programs
  <2>2. ASSUME NEW vs, 0 \in vs PROVE proc \in ObjectsIn(vs, P) /\ task \in ObjectsIn(vs, P)
    <3>1. Object("proc", 0) \in ObjectsIn(vs, P) /\ Object("task", 0) \in ObjectsIn(vs, P)
      BY <2>1, <2>2 DEF Object, ObjectsIn, Kinds
    <3> QED  BY <1>1, <2>1, <3>1 DEF ObjectsIn
  <2> QED  BY <2>2
<1>4. WellFormed(proc) /\ WellFormed(task)
  <2> HIDE DEF proc, task
  <2> QED  BY <1>1, <1>2 DEF WellFormed, IsAttached
<1> HIDE DEF proc, task, P
<1>5. HeapOK(made, P) /\ LiveOf(made) = LiveOf(heap) \cup {p}
  <2>1. HeapOK(heap, P) /\ proc \in ObjectsIn(Over(heap), P) /\ proc.kind # "free"
    BY <1>2, <1>3 DEF IInv, P, Over
  <2>2. heap[p].kind = "free" /\ WellFormed(proc)
    BY <1>1, <1>4
  <2>3. HeapOK([heap EXCEPT ![p] = proc], P) /\ LiveOf([heap EXCEPT ![p] = proc]) = LiveOf(heap) \cup {p}
    BY <2>1, <2>2, AllocOK
  <2> QED  BY <2>3
<1>6. \A j \in Objs : made[j] = IF j = p THEN proc ELSE heap[j]
  BY DEF IInv, HeapOK
<1> HIDE DEF made
<1>7. HeapOK(hp, P) /\ LiveOf(hp) = LiveOf(made) \cup {k}
  <2>1. /\ HeapOK(made, P) /\ made[k].kind = "free" /\ task.kind # "free"
        /\ task \in ObjectsIn(Over(made), P) /\ WellFormed(task)
    BY <1>1, <1>2, <1>3, <1>4, <1>5, <1>6 DEF Over
  <2>2. HeapOK([made EXCEPT ![k] = task], P) /\ LiveOf([made EXCEPT ![k] = task]) = LiveOf(made) \cup {k}
    BY <2>1, AllocOK
  <2> QED  BY <2>2
<1>8. \A j \in Objs : hp[j] = IF j = k THEN task ELSE made[j]
  BY <1>5 DEF HeapOK
<1>9. /\ heap' = hp /\ contexts' = [contexts EXCEPT ![c] = x]
      /\ owned' = owned \cup {k}
      /\ UNCHANGED <<cur, natives, exc, gc_registered, dormant, running, loaded>>
  BY DEF Spawn, made, proc, task
<1> HIDE DEF hp
<1>10. /\ \A j \in LiveOf(heap) : hp[j].kind = heap[j].kind
       /\ \A j \in Objs : hp[j].kind = "task" => j = k \/ heap[j].kind = "task"
       /\ hp[k].kind = "task"
  BY <1>1, <1>2, <1>6, <1>8 DEF LiveOf
<1>11. ContextsOK(contexts, Over(hp), P)
  BY <1>10, KindsKept DEF P
<1>12. x \in ContextsIn(Over(hp), P)
  <2>1. p \in Over(hp) /\ 0 \in Over(hp)
    BY <1>5, <1>7 DEF Over
  <2>2. Context("created") \in ContextsIn(Over(hp), P)
    BY <2>1, EmptyOK DEF Statuses
  <2> QED  BY <2>1, <2>2 DEF ContextsIn, Created
<1> HIDE DEF x
<1>13. ContextsOK([contexts EXCEPT ![c] = x], Over(hp), P)
  BY <1>1, <1>11, <1>12, UpdatedOK
<1>14. /\ OthersOK(LiveOf(hp)) /\ k \in LiveOf(hp)
  BY <1>7, <1>10, KindsKept
<1>15. OwnedAreTasks'
  BY <1>1, <1>9, <1>10 DEF OwnedAreTasks, IInv, OthersOK, LiveOf, Over
<1>16. TasksAreListed'
  BY <1>9, <1>10 DEF TasksAreListed, IInv
<1> QED  BY <1>7, <1>9, <1>13, <1>14, <1>15, <1>16 DEF IInv, OthersOK, P

LEMMA TaskLeavesOK ==
  ASSUME IInv, TaskLeaves
  PROVE  IInv'
<1>1. Root \in Contexts /\ cur \in Contexts
  BY DEF IInv, OthersOK, Contexts
<1>2. /\ contexts' = [contexts EXCEPT ![cur].status = "suspended", ![cur].prev = NoCtx,
                                      ![cur].vmexec = FALSE, ![Root].status = "running"]
      /\ cur' = Root /\ running' = 0
      /\ UNCHANGED <<heap, natives, exc, gc_registered, dormant, owned, loaded>>
  BY DEF TaskLeaves
<1>3. ContextsOK(contexts', Over(heap'), Programs(loaded))
  <2> DEFINE c1 == [contexts EXCEPT ![cur].status = "suspended"]
             c2 == [c1 EXCEPT ![cur].prev = NoCtx]
             c3 == [c2 EXCEPT ![cur].vmexec = FALSE]
             c4 == [c3 EXCEPT ![Root].status = "running"]
  <2>1. ContextsOK(contexts, Over(heap), Programs(loaded))
    BY DEF IInv
  <2>2. ContextsOK(c1, Over(heap), Programs(loaded))
    BY <2>1, <1>1, FieldsOK DEF Statuses
  <2> HIDE DEF c1
  <2>3. ContextsOK(c2, Over(heap), Programs(loaded))
    BY <2>2, <1>1, FieldsOK DEF Statuses
  <2> HIDE DEF c2
  <2>4. ContextsOK(c3, Over(heap), Programs(loaded))
    BY <2>3, <1>1, FieldsOK DEF Statuses
  <2> HIDE DEF c3
  <2>5. ContextsOK(c4, Over(heap), Programs(loaded))
    BY <2>4, <1>1, FieldsOK DEF Statuses
  <2> HIDE DEF c4
  <2>6. contexts' = c4
    BY <1>2 DEF c1, c2, c3, c4
  <2> QED  BY <2>5, <2>6, <1>2
<1>4. (OthersOK(LiveOf(heap)))' /\ OwnedAreTasks' /\ TasksAreListed'
  BY <1>1, <1>2 DEF IInv, OthersOK, OwnedAreTasks, TasksAreListed
<1> QED  BY <1>2, <1>3, <1>4 DEF IInv

LEMMA TerminateOK ==
  ASSUME IInv, NEW s \in Slots, Terminate(s)
  PROVE  IInv'
<1> DEFINE t == Reg(s)
           c == heap[t].on
<1>1. t \in owned /\ t # running /\ t \in Objs /\ t \in LiveOf(heap) /\ heap[t].kind = "task"
  BY DEF Terminate, IInv, OthersOK, OwnedAreTasks, LiveOf
<1>2. c \in Contexts
  BY <1>1 DEF IInv, HeapOK, WellFormed
<1>3. /\ HeapOK(heap', Programs(loaded)) /\ LiveOf(heap') = LiveOf(heap)
      /\ \A k \in Objs : heap'[k].kind = heap[k].kind
  BY DetachedOK DEF Terminate, IInv
<1>4. /\ contexts' = [contexts EXCEPT ![c].status = "terminated", ![c].ci = <<>>,
                                      ![c].stack = [i \in Slots |-> 0]]
      /\ dormant' = dormant \cup {t} /\ owned' = owned \ {t}
      /\ UNCHANGED <<cur, natives, exc, gc_registered, running, loaded>>
  BY DEF Terminate
<1>5. ContextsOK(contexts', Over(heap'), Programs(loaded))
  <2>1. /\ contexts \in [Contexts -> ContextsIn(Over(heap), Programs(loaded))]
        /\ <<>> \in Seq(FramesIn(Over(heap), Programs(loaded)))
        /\ [i \in Slots |-> 0] \in [Slots -> Over(heap)]
        /\ Over(heap') = Over(heap)
    BY <1>3, EmptySeq DEF IInv, ContextsOK, Over
  <2> QED  BY <1>2, <1>4, <2>1 DEF ContextsOK, ContextsIn, Statuses
<1>6. (OthersOK(LiveOf(heap)))'
  BY <1>1, <1>3, <1>4 DEF IInv, OthersOK
<1>7. OwnedAreTasks' /\ TasksAreListed'
  BY <1>1, <1>3, <1>4 DEF IInv, OthersOK, OwnedAreTasks, TasksAreListed, LiveOf
<1> QED  BY <1>3, <1>4, <1>5, <1>6, <1>7 DEF IInv

---------------------------------------------------------------------------
(* Natives. *)

LEMMA CallNativeOK ==
  ASSUME IInv, contexts[cur].ci # <<>>, NEW s \in Slots, CallNative(s)
  PROVE  IInv'
<1> DEFINE n == [loop |-> FALSE, held |-> {Reg(s)} \ {0}]
<1>1. Reg(s) \in Over(heap) /\ natives \in Seq(NativesOver(LiveOf(heap)))
  BY TopOK DEF IInv, OthersOK
<1>2. n \in NativesOver(LiveOf(heap))
  BY <1>1 DEF NativesOver, Over
<1>3. natives' = Append(natives, n) /\ UNCHANGED <<heap, contexts, cur, exc, gc_registered, scheduler, loaded>>
  BY DEF CallNative
<1> HIDE DEF n
<1>4. natives' \in Seq(NativesOver(LiveOf(heap')))
  BY <1>1, <1>2, <1>3, AppendProperties
<1> QED  BY <1>3, <1>4, QuietOK DEF IInv, OthersOK, Over

LEMMA NativeAllocatesOK ==
  ASSUME IInv, natives # <<>>, NEW k \in Objs, NativeAllocates(k)
  PROVE  IInv'
<1> DEFINE o == Object("obj", 0)
           hp == [heap EXCEPT ![k] = o]
           held == Last(natives).held \cup {k}
<1>1. heap[k].kind = "free" /\ o.kind = "obj"
  BY DEF NativeAllocates, IsNew, IsLive, Object
<1>2. o \in ObjectsIn(Over(heap), Programs(loaded)) /\ WellFormed(o)
  BY FreshOK DEF Over
<1>3. /\ heap' = hp /\ natives' = [natives EXCEPT ![Len(natives)].held = held]
      /\ UNCHANGED <<contexts, cur, exc, gc_registered, scheduler, loaded>>
  BY DEF NativeAllocates, NativeHolds
<1> HIDE DEF o
<1>4. /\ HeapOK(hp, Programs(loaded)) /\ LiveOf(hp) = LiveOf(heap) \cup {k}
      /\ \A j \in Objs : hp[j] = IF j = k THEN o ELSE heap[j]
      /\ \A j \in LiveOf(heap) : hp[j].kind = heap[j].kind
      /\ ContextsOK(contexts, Over(hp), Programs(loaded))
  BY <1>1, <1>2, MadeOK
<1> HIDE DEF hp
<1>5. \A j \in Objs : heap'[j].kind = "task" => heap[j].kind = "task"
  BY <1>1, <1>3, <1>4
<1>6. natives' \in Seq(NativesOver(LiveOf(heap')))
  <2>1. natives \in Seq(NativesOver(LiveOf(hp))) /\ natives[Len(natives)] \in NativesOver(LiveOf(hp))
        /\ Len(natives) \in 1..Len(natives)
    BY <1>4, KindsKept, NativeOK, ElementOfSeq
  <2>2. held \subseteq LiveOf(hp)
    BY <1>4, NativeOK DEF NativesOver
  <2> DEFINE n == [natives[Len(natives)] EXCEPT !.held = held]
  <2>3. n \in NativesOver(LiveOf(hp))
    BY <2>1, <2>2 DEF NativesOver
  <2>4. natives' = [natives EXCEPT ![Len(natives)] = n]
    BY <1>3
  <2> HIDE DEF n
  <2>5. [natives EXCEPT ![Len(natives)] = n] \in Seq(NativesOver(LiveOf(hp)))
    BY <2>1, <2>3, ExceptSeq
  <2> QED  BY <1>3, <2>4, <2>5
<1>7. heap' = hp /\ UNCHANGED <<contexts, cur, exc, gc_registered, scheduler, loaded>>
  BY <1>3
<1> QED  BY <1>4, <1>5, <1>6, <1>7, QuietOK DEF IInv, OthersOK, Over

LEMMA NativeCallsBlockOK ==
  ASSUME IInv, natives # <<>>, NEW p \in Last(natives).held, NativeCallsBlock(p)
  PROVE  IInv'
<1> DEFINE f == Frame(StackEnd(cur), BlockRegs, p, TRUE, heap[p].ours)
<1>1. p \in LiveOf(heap) /\ p \in Objs /\ p \in Over(heap) /\ 0 \in Over(heap)
  BY NativeOK DEF NativesOver, LiveOf, Over
<1>2. heap[p].ours \in Programs(loaded)
  BY <1>1 DEF IInv, HeapOK, ObjectsIn
<1>3. /\ Fits(f) /\ contexts' = Push(contexts, cur, f, 0)
      /\ natives' = [natives EXCEPT ![Len(natives)].loop = TRUE]
      /\ UNCHANGED <<heap, cur, exc, gc_registered, scheduler, loaded>>
  BY DEF NativeCallsBlock
<1>4. f \in FramesIn(Over(heap), Programs(loaded))
  BY <1>1, <1>2, <1>3, FrameOK, SizesAssumption
<1> HIDE DEF f
<1>5. ContextsOK(contexts', Over(heap'), Programs(loaded))
  BY <1>1, <1>3, <1>4, PushOK DEF IInv
<1>6. natives' \in Seq(NativesOver(LiveOf(heap')))
  <2>1. natives \in Seq(NativesOver(LiveOf(heap))) /\ natives[Len(natives)] \in NativesOver(LiveOf(heap))
        /\ Len(natives) \in 1..Len(natives)
    BY NativeOK, ElementOfSeq DEF IInv, OthersOK
  <2> DEFINE n == [natives[Len(natives)] EXCEPT !.loop = TRUE]
  <2>2. n \in NativesOver(LiveOf(heap))
    BY <2>1 DEF NativesOver
  <2>3. natives' = [natives EXCEPT ![Len(natives)] = n]
    BY <1>3
  <2> HIDE DEF n
  <2>4. [natives EXCEPT ![Len(natives)] = n] \in Seq(NativesOver(LiveOf(heap)))
    BY <2>1, <2>2, ExceptSeq
  <2> QED  BY <1>3, <2>3, <2>4
<1> QED  BY <1>3, <1>5, <1>6, QuietOK DEF IInv, OthersOK, Over

LEMMA NativeReturnsOK ==
  ASSUME IInv, natives # <<>>, NEW v \in Last(natives).held \cup {0}, NativeReturns(v)
  PROVE  IInv'
<1>1. v \in Over(heap) /\ Front(natives) \in Seq(NativesOver(LiveOf(heap)))
  BY NativeOK DEF NativesOver, Over
<1>2. /\ contexts' = WithReg(contexts, cur, Top.base, v) /\ natives' = Front(natives)
      /\ UNCHANGED <<heap, cur, exc, gc_registered, scheduler, loaded>>
  BY DEF NativeReturns
<1>3. ContextsOK(contexts', Over(heap'), Programs(loaded))
  BY <1>1, <1>2, WithRegOK DEF IInv
<1>4. natives' \in Seq(NativesOver(LiveOf(heap')))
  BY <1>1, <1>2
<1> QED  BY <1>2, <1>3, <1>4, QuietOK DEF IInv, OthersOK, Over

---------------------------------------------------------------------------
(* The host. *)

LEMMA RunOK ==
  ASSUME IInv, Run
  PROVE  IInv'
<1> DEFINE f == Frame(1, TopRegs, 0, TRUE, TRUE)
<1>1. /\ loaded /\ contexts' = Push(contexts, Root, f, 0)
      /\ UNCHANGED <<heap, cur, natives, exc, gc_registered, scheduler, loaded>>
  BY DEF Run
<1>2. TRUE \in Programs(loaded) /\ 0 \in Over(heap)
  BY <1>1 DEF Programs, Over
<1>3. Fits(f) /\ TopRegs \in 1..StackSize
  BY SizesAssumption DEF Fits, Frame, Slots
<1>4. f \in FramesIn(Over(heap), Programs(loaded))
  BY <1>2, <1>3, FrameOK
<1> HIDE DEF f
<1>5. ContextsOK(contexts', Over(heap'), Programs(loaded))
  BY <1>1, <1>2, <1>4, PushOK DEF IInv
<1> QED  BY <1>1, <1>5, QuietOK DEF IInv, OthersOK, Over

\* What runs nothing of the program is typed without it.
LEMMA UnusedOK ==
  ASSUME NEW hp, NEW cx, HeapOK(hp, BOOLEAN), ContextsOK(cx, Over(hp), BOOLEAN), NEW l,
         l = Users(hp, cx)
  PROVE  HeapOK(hp, Programs(l)) /\ ContextsOK(cx, Over(hp), Programs(l)) /\ l \in BOOLEAN
<1>1. l \in BOOLEAN
  BY DEF Users
<1>2. CASE l
  <2>1. Programs(l) = BOOLEAN
    BY <1>2 DEF Programs
  <2> QED  BY <1>1, <2>1
<1>3. CASE ~l
  <2>1. Programs(l) = {FALSE} /\ ~Users(hp, cx)
    BY <1>3 DEF Programs
  <2>2. ASSUME NEW k \in Objs PROVE hp[k] \in ObjectsIn(Over(hp), {FALSE})
    <3>1. hp[k] \in ObjectsIn(Over(hp), BOOLEAN) /\ (hp[k].ours => hp[k].kind = "proc")
      BY DEF HeapOK, WellFormed
    <3>2. ~hp[k].ours
      BY <2>1, <3>1 DEF Users
    <3> QED  BY <3>1, <3>2 DEF ObjectsIn
  <2>3. HeapOK(hp, {FALSE})
    BY <2>2 DEF HeapOK
  <2>4. ASSUME NEW c \in Contexts PROVE cx[c] \in ContextsIn(Over(hp), {FALSE})
    <3>1. cx[c] \in ContextsIn(Over(hp), BOOLEAN) /\ cx[c].ci \in Seq(FramesIn(Over(hp), BOOLEAN))
      BY DEF ContextsOK, ContextsIn
    <3>2. ASSUME NEW i \in 1..Len(cx[c].ci) PROVE cx[c].ci[i] \in FramesIn(Over(hp), {FALSE})
      <4>1. cx[c].ci[i] \in FramesIn(Over(hp), BOOLEAN)
        BY <3>1, ElementOfSeq
      <4>2. ~cx[c].ci[i].ours
        BY <2>1 DEF Users
      <4> QED  BY <4>1, <4>2 DEF FramesIn
    <3>3. cx[c].ci \in Seq(FramesIn(Over(hp), {FALSE}))
      BY <3>1, <3>2, SeqDef, ElementOfSeq, LenProperties
    <3> QED  BY <3>1, <3>3 DEF ContextsIn
  <2>5. ContextsOK(cx, Over(hp), {FALSE})
    BY <2>4 DEF ContextsOK
  <2> QED  BY <1>1, <2>1, <2>3, <2>5
<1> QED  BY <1>1, <1>2, <1>3

LEMMA UnloadOK ==
  ASSUME IInv, Unload
  PROVE  IInv'
<1>1. /\ Programs(loaded) = BOOLEAN
      /\ UNCHANGED <<cur, natives, exc, gc_registered, owned, running>>
  BY DEF Unload, Programs
<1>2. CASE Users(heap, contexts) /\ natives = <<>>
  <2>1. Collect /\ loaded' = Users(heap', contexts') /\ natives = <<>>
    BY <1>2 DEF Unload
  <2>2. /\ HeapOK(heap', BOOLEAN) /\ ContextsOK(contexts', Over(heap'), BOOLEAN)
        /\ natives' \in Seq(NativesOver(LiveOf(heap')))
        /\ cur' \in Contexts /\ exc' \in Over(heap') /\ running' \in Over(heap')
        /\ gc_registered' \subseteq LiveOf(heap') /\ dormant' \subseteq LiveOf(heap')
        /\ owned' \subseteq LiveOf(heap')
        /\ OwnedAreTasks' /\ TasksAreListed'
    BY <1>1, <2>1, CollectOK
  <2>3. HeapOK(heap', Programs(loaded')) /\ ContextsOK(contexts', Over(heap'), Programs(loaded'))
        /\ loaded' \in BOOLEAN
    BY <2>1, <2>2, UnusedOK
  <2> QED  BY <2>2, <2>3 DEF IInv, OthersOK, Over
<1>3. CASE ~(Users(heap, contexts) /\ natives = <<>>)
  <2>1. loaded' = Users(heap, contexts) /\ UNCHANGED <<heap, contexts, dormant>>
    BY <1>3 DEF Unload
  <2>2. HeapOK(heap, Programs(loaded')) /\ ContextsOK(contexts, Over(heap), Programs(loaded'))
        /\ loaded' \in BOOLEAN
    BY <1>1, <2>1, UnusedOK DEF IInv
  <2> QED  BY <1>1, <2>1, <2>2 DEF IInv, OthersOK, OwnedAreTasks, TasksAreListed
<1> QED  BY <1>2, <1>3

LEMMA GcUnregisterOK ==
  ASSUME IInv, NEW k, GcUnregister(k)
  PROVE  IInv'
BY DEF GcUnregister, scheduler, IInv, OthersOK, OwnedAreTasks, TasksAreListed

LEMMA GcMaybeOK ==
  ASSUME IInv, GcMaybe
  PROVE  IInv'
<1>1. /\ Collect /\ natives = <<>> /\ loaded' = loaded
      /\ UNCHANGED <<cur, natives, exc, gc_registered, owned, running>>
  BY DEF GcMaybe
<1>2. /\ HeapOK(heap', Programs(loaded)) /\ ContextsOK(contexts', Over(heap'), Programs(loaded))
      /\ natives' \in Seq(NativesOver(LiveOf(heap')))
      /\ cur' \in Contexts /\ exc' \in Over(heap') /\ running' \in Over(heap')
      /\ gc_registered' \subseteq LiveOf(heap') /\ dormant' \subseteq LiveOf(heap')
      /\ owned' \subseteq LiveOf(heap')
      /\ OwnedAreTasks' /\ TasksAreListed'
  BY <1>1, CollectOK
<1> QED  BY <1>1, <1>2, StepOK

---------------------------------------------------------------------------
(* The theorems. *)

LEMMA InitOK == Init => IInv
<1> SUFFICES ASSUME Init PROVE IInv
  OBVIOUS
<1>1. /\ heap = [k \in Objs |-> Free] /\ natives = <<>> /\ exc = 0 /\ cur = Root
      /\ gc_registered = {} /\ dormant = {} /\ owned = {} /\ running = 0 /\ loaded = TRUE
      /\ contexts = [c \in Contexts |-> Context(IF c = Root THEN "running" ELSE "none")]
  BY DEF Init
<1>2. 0 \in Over(heap) /\ Root \in Contexts
  BY DEF Over, Contexts
<1>3. HeapOK(heap, Programs(loaded))
  <2>1. WellFormed(Free) /\ Free.kind = "free"
    BY DEF WellFormed, Free, Object, IsAttached
  <2>2. Free \in ObjectsIn(Over(heap), Programs(loaded))
    BY <1>2, FreeOK
  <2> QED  BY <1>1, <2>1, <2>2 DEF HeapOK
<1>4. ContextsOK(contexts, Over(heap), Programs(loaded))
  <2>1. \A st \in Statuses : Context(st) \in ContextsIn(Over(heap), Programs(loaded))
    BY <1>2, EmptyOK
  <2> QED  BY <1>1, <2>1 DEF ContextsOK, Statuses
<1>5. OthersOK(LiveOf(heap))
  BY <1>1, <1>2, EmptySeq DEF OthersOK
<1>6. OwnedAreTasks /\ TasksAreListed
  BY <1>1 DEF OwnedAreTasks, TasksAreListed, Free, Object
<1> QED  BY <1>3, <1>4, <1>5, <1>6 DEF IInv

LEMMA ReturnOK ==
  ASSUME IInv, contexts[cur].ci # <<>>, NEW r \in Slots, Return(r)
  PROVE  IInv'
BY ReturnToCallerOK, ReturnToNativeOK, ReturnToHostOK, ReturnFromTaskOK, ReturnFromFiberOK DEF Return

LEMMA InstructionsOK ==
  ASSUME IInv, Instructions
  PROVE  IInv'
<1>1. contexts[cur].ci # <<>>
  BY DEF Instructions, Executes, InRuby
<1>2. Window(Top) \subseteq Slots /\ \A r \in Slots : Reg(r) \in Over(heap)
  BY <1>1, TopOK
<1>3. 0 \in Over(heap)
  BY DEF Over
<1>4. CASE Send
  BY <1>1, <1>2, <1>4, TopOK, CallsOK
<1>5. CASE TaskLeaves
  BY <1>5, TaskLeavesOK
<1>6. ASSUME NEW r \in Window(Top),
             \/ LoadNil(r) \/ GetUpvar(r) \/ SetUpvar(r) \/ CallBlock(r) \/ CallNative(r)
             \/ Return(r) \/ Resume(r) \/ Yield(r) \/ Terminate(r) \/ TaskGet(r)
      PROVE  IInv'
  <2>1. r \in Slots
    BY <1>2
  <2>3. CASE TaskGet(r)
    <3>1. owned \cup dormant \subseteq Over(heap)
      BY DEF IInv, OthersOK, Over
    <3> QED  BY <1>1, <2>3, <3>1, MoveOK DEF TaskGet
  <2>2. CASE LoadNil(r)
    BY <1>1, <1>3, <2>2, MoveOK DEF LoadNil
  <2> QED  BY <1>1, <1>6, <2>1, <2>2, <2>3, UpvarOK, CallsOK, CallNativeOK, ReturnOK, ResumeOK, YieldOK, TerminateOK
<1>7. ASSUME NEW r \in Window(Top), NEW k \in Objs, New(k, r) PROVE IInv'
  BY <1>7, NewOK
<1>8. ASSUME NEW r \in Window(Top), NEW e \in Objs, NEW k \in Objs, MakeProc(r, e, k) PROVE IInv'
  BY <1>1, <1>2, <1>8, MakeProcOK
<1>9. ASSUME NEW r \in Window(Top), NEW n \in 1..Len(contexts[cur].ci), Raise(r, n) PROVE IInv'
  BY <1>1, <1>2, <1>9, RaiseOK
<1>10. ASSUME NEW r \in Window(Top), NEW s \in Window(Top), Move(r, s) \/ TaskValue(r, s) PROVE IInv'
  <2>1. s \in Slots
    BY <1>2
  <2> QED  BY <1>1, <1>2, <1>10, <2>1, MoveOK, TaskValueOK DEF Move
<1>11. ASSUME NEW r \in Window(Top), NEW s \in Window(Top), NEW k \in Objs, NEW c \in Others,
              FiberNew(k, r, s, c) \/ TaskNew(k, r, s, c)
       PROVE  IInv'
  <2>1. s \in Slots
    BY <1>2
  <2> QED  BY <1>1, <1>11, <2>1, FiberNewOK, TaskNewOK
<1> QED  BY <1>4, <1>5, <1>6, <1>7, <1>8, <1>9, <1>10, <1>11 DEF Instructions

LEMMA NativesOK ==
  ASSUME IInv, Natives
  PROVE  IInv'
<1>1. natives # <<>>
  BY DEF Natives, InNative
<1> QED  BY <1>1, NativeAllocatesOK, NativeCallsBlockOK, NativeReturnsOK DEF Natives

LEMMA HostOK ==
  ASSUME IInv, Host
  PROVE  IInv'
BY UnloadOK, RunOK, TaskStepOK, SpawnOK, GcUnregisterOK DEF Host

LEMMA NextOK == IInv /\ [Next]_vars => IInv'
<1> SUFFICES ASSUME IInv, [Next]_vars PROVE IInv'
  OBVIOUS
<1>1. CASE GcMaybe
  BY <1>1, GcMaybeOK
<1>2. CASE Instructions
  BY <1>2, InstructionsOK
<1>3. CASE Handlers
  BY <1>3, ExceptOK DEF Handlers
<1>4. CASE Natives
  BY <1>4, NativesOK
<1>5. CASE Host
  BY <1>5, HostOK
<1>6. CASE UNCHANGED vars
  BY <1>6 DEF vars, scheduler, IInv, OthersOK, OwnedAreTasks, TasksAreListed
<1> QED  BY <1>1, <1>2, <1>3, <1>4, <1>5, <1>6 DEF Next

\* The invariant holds throughout: everything is over live values.
THEOREM Invariance == Spec => []IInv
BY InitOK, NextOK, PTL DEF Spec

\* The types of the heap, the contexts and what else holds values, for any
\* sizes (gc_collect, call_native and what the frames do).
THEOREM Typed == Spec => []TypeOK
BY Invariance, InvType, PTL

\* Nothing a register, a frame, an environment, a queue, a native or the host
\* holds is ever freed: what Heap::get asserts at every access.
THEOREM NothingHeldIsEverFree == Spec => []NothingHeldIsFree
BY Invariance, InvHeld, PTL

\* A task that lives is in a queue, the weak one of the ended tasks included.
THEOREM TasksStayListed == Spec => []TasksAreListed
<1>1. IInv => TasksAreListed
  BY DEF IInv
<1> QED  BY <1>1, Invariance, PTL

\* unload hands a program back only when no frame and no Proc runs it, and
\* nothing can run it later.
THEOREM UnloadIsSafe == Spec => []UnloadedIsUnused
BY Invariance, InvUnloaded, PTL

---------------------------------------------------------------------------
(* Environments off the stack. *)

\* What a step may make of an environment whose frame stands.
Saved(e) == [heap[e] EXCEPT !.ref = EnvGet(heap, contexts, e), !.on = NoCtx]
Kept(e) == heap'[e] \in {heap[e], Saved(e), Free}

LEMMA DetachedKeeps ==
  ASSUME NEW e \in Objs, NEW envs
  PROVE  Detached(heap, contexts, envs)[e] \in {heap[e], Saved(e)}
BY DEF Detached, Saved

LEMMA CollectKeeps ==
  ASSUME IInv, Collect, NEW e \in Objs
  PROVE  Kept(e)
<1>1. \E envs, marked : heap'[e] = IF e \in marked THEN Detached(heap, contexts, envs)[e] ELSE Free
  <2>1. PICK marks \in {[x \in Nodes |-> Marks(x)]}, roots \in {Roots} :
          \E marked \in {Marked(marks, roots)} :
            heap' = [k \in Objs |->
                       IF k \in marked
                       THEN Detached(heap, contexts,
                              (UNION {EnvsFrom(c, 1) : c \in Contexts \ marked}) \cap marked)[k]
                       ELSE Swept(heap[k])]
    BY ZenonT(30) DEF Collect
  <2> QED  BY <2>1 DEF Swept
<1> QED  BY <1>1, DetachedKeeps DEF Kept

\* An object made in a free slot, or one of another kind written to.
LEMMA AllocKeeps ==
  ASSUME IInv, NEW e \in Objs, IsAttached(heap[e]), NEW k, k # e, NEW o, heap' = [heap EXCEPT ![k] = o]
  PROVE  Kept(e)
BY DEF Kept, IInv, HeapOK

LEMMA InstructionsKeep ==
  ASSUME IInv, Instructions, NEW e \in Objs, IsAttached(heap[e])
  PROVE  Kept(e)
<1>1. /\ contexts[cur].ci # <<>> /\ heap[e].kind = "env" /\ heap[e].on # NoCtx
      /\ Window(Top) \subseteq Slots
  BY TopOK DEF Instructions, Executes, InRuby, IsAttached
<1>2. ASSUME heap' = heap PROVE Kept(e)
  BY <1>2 DEF Kept
<1>3. ASSUME NEW envs, heap' = Detached(heap, contexts, envs) PROVE Kept(e)
  BY <1>3, DetachedKeeps DEF Kept
<1>4. ASSUME NEW k \in Objs, IsNew(k) PROVE k # e
  BY <1>1, <1>4 DEF IsNew, IsLive
<1>5. CASE Send \/ TaskLeaves
  BY <1>2, <1>5 DEF Send, TaskLeaves, Instruction
<1>6. ASSUME NEW r \in Window(Top),
             \/ LoadNil(r) \/ GetUpvar(r) \/ CallBlock(r) \/ CallNative(r)
             \/ Resume(r) \/ Yield(r) \/ TaskGet(r)
      PROVE  Kept(e)
  BY <1>2, <1>6 DEF LoadNil, TaskGet, GetUpvar, CallBlock, CallNative, Resume, Yield, Instruction
<1>7. ASSUME NEW r \in Window(Top), SetUpvar(r) PROVE Kept(e)
  <2> DEFINE p == heap[Top.proc].ref
  <2>1. CASE heap[p].on = NoCtx
    <3>1. heap' = [heap EXCEPT ![p].ref = Reg(r)] /\ p # e
      BY <1>1, <1>7, <2>1 DEF SetUpvar, Instruction
    <3>2. heap'[e] = heap[e]
      BY <3>1 DEF IInv, HeapOK
    <3> QED  BY <3>2 DEF Kept
  <2>2. CASE heap[p].on # NoCtx
    BY <1>2, <1>7, <2>2 DEF SetUpvar, Instruction
  <2> QED  BY <2>1, <2>2
<1>8. ASSUME NEW r \in Window(Top), Return(r) PROVE Kept(e)
  <2>1. CASE ReturnToCaller(r) \/ ReturnToNative(r) \/ ReturnToHost(r) \/ ReturnFromFiber(r)
    BY <1>3, <2>1 DEF ReturnToCaller, ReturnToNative, ReturnToHost, ReturnFromFiber, Instruction
  <2>2. CASE ReturnFromTask(r)
    <3>1. heap' = [Detached(heap, contexts, {Top.env}) EXCEPT ![running].ref = Reg(r)]
      BY <2>2 DEF ReturnFromTask
    <3>2. running # e
      BY <1>1, <2>2 DEF ReturnFromTask, IInv, OwnedAreTasks
    <3>3. heap'[e] = Detached(heap, contexts, {Top.env})[e]
      BY <3>1, <3>2 DEF Detached
    <3> QED  BY <3>3, DetachedKeeps DEF Kept
  <2> QED  BY <1>8, <2>1, <2>2 DEF Return
<1>9. ASSUME NEW r \in Window(Top), Terminate(r) PROVE Kept(e)
  BY <1>3, <1>9 DEF Terminate
<1>10. ASSUME NEW r \in Window(Top), NEW k \in Objs, New(k, r) PROVE Kept(e)
  BY <1>4, <1>10, AllocKeeps DEF New, Instruction
<1>11. ASSUME NEW r \in Window(Top), NEW f \in Objs, NEW k \in Objs, MakeProc(r, f, k) PROVE Kept(e)
  <2> DEFINE env == [Object("env", 0) EXCEPT !.on = cur, !.base = Top.base]
             made == IF Top.env = 0 THEN [heap EXCEPT ![f] = env] ELSE heap
             proc == [Object("proc", f) EXCEPT !.ours = Top.ours]
  <2>1. heap' = [made EXCEPT ![k] = proc]
    BY <1>11 DEF MakeProc, Instruction
  <2>2. k # e /\ (Top.env = 0 => f # e)
    BY <1>1, <1>4, <1>11 DEF MakeProc, AreNew, IsNew, IsLive
  <2> HIDE DEF env, proc
  <2>3. heap'[e] = heap[e]
    BY <2>1, <2>2 DEF IInv, HeapOK
  <2> QED  BY <2>3 DEF Kept
<1>12. ASSUME NEW r \in Window(Top), NEW n \in 1..Len(contexts[cur].ci), Raise(r, n) PROVE Kept(e)
  BY <1>3, <1>12 DEF Raise
<1>13. ASSUME NEW r \in Window(Top), NEW s \in Window(Top), Move(r, s) \/ TaskValue(r, s) PROVE Kept(e)
  BY <1>2, <1>13 DEF Move, TaskValue, Instruction
<1>14. ASSUME NEW r \in Window(Top), NEW s \in Window(Top), NEW k \in Objs, NEW c \in Others,
              FiberNew(k, r, s, c) \/ TaskNew(k, r, s, c)
       PROVE  Kept(e)
  BY <1>4, <1>14, AllocKeeps DEF FiberNew, TaskNew, Instruction
<1> QED  BY <1>5, <1>6, <1>7, <1>8, <1>9, <1>10, <1>11, <1>12, <1>13, <1>14 DEF Instructions

LEMMA NextKeeps ==
  ASSUME IInv, [Next]_vars, NEW e \in Objs, IsAttached(heap[e])
  PROVE  Kept(e)
<1>1. ASSUME heap' = heap PROVE Kept(e)
  BY <1>1 DEF Kept
<1>2. CASE GcMaybe
  BY <1>2, CollectKeeps DEF GcMaybe
<1>3. CASE Instructions
  BY <1>3, InstructionsKeep
<1>4. CASE Handlers
  BY <1>1, <1>4 DEF Handlers, Except
<1>5. CASE Natives
  <2>1. ASSUME NEW k \in Objs, NativeAllocates(k) PROVE Kept(e)
    <3>1. k # e /\ heap' = [heap EXCEPT ![k] = Object("obj", 0)]
      BY <2>1 DEF NativeAllocates, IsNew, IsLive, IsAttached
    <3> QED  BY <3>1, AllocKeeps
  <2> QED  BY <1>1, <1>5, <2>1 DEF Natives, NativeCallsBlock, NativeReturns
<1>6. CASE Host
  <2>1. ASSUME NEW p \in Objs, NEW k \in Objs, NEW c \in Others, Spawn(p, k, c) PROVE Kept(e)
    <3>1. p # e /\ k # e
      BY <2>1 DEF Spawn, AreNew, IsNew, IsLive, IsAttached
    <3>2. heap'[e] = heap[e]
      BY <2>1, <3>1 DEF Spawn, IInv, HeapOK
    <3> QED  BY <3>2 DEF Kept
  <2> QED  BY <1>1, <1>6, <2>1, CollectKeeps DEF Host, Unload, Run, TaskStep, GcUnregister
<1>7. CASE UNCHANGED vars
  BY <1>1, <1>7 DEF vars
<1> QED  BY <1>2, <1>3, <1>4, <1>5, <1>6, <1>7 DEF Next

\* An environment that leaves the stack takes the value its frame's register
\* has: in a return, a raise, Task#terminate or a collection.
THEOREM EnvsKeepThem == Spec => EnvsKeepTheirValues
<1>1. ASSUME IInv, [Next]_vars, NEW e \in Objs, IsAttached(heap[e]),
             heap'[e].kind = "env", heap'[e].on = NoCtx
      PROVE  heap'[e].ref = contexts[heap[e].on].stack[heap[e].base]
  <2>1. heap[e].on # NoCtx /\ heap[e].base \in Slots /\ heap[e] \in ObjectsIn(Over(heap), Programs(loaded))
    BY <1>1 DEF IInv, HeapOK, WellFormed, IsAttached
  <2>2. heap'[e] = Saved(e)
    BY <1>1, <2>1, NextKeeps DEF Kept, Free, Object
  <2>3. heap'[e].ref = EnvGet(heap, contexts, e)
    BY <2>1, <2>2 DEF Saved, ObjectsIn
  <2> QED  BY <1>1, <2>1, <2>3 DEF EnvGet, Slot
<1>2. IInv /\ [Next]_vars =>
        [\A e \in Objs : /\ IsAttached(heap[e])
                         /\ heap'[e].kind = "env" /\ heap'[e].on = NoCtx
                         => heap'[e].ref = contexts[heap[e].on].stack[heap[e].base]]_vars
  BY <1>1
<1> QED  BY <1>2, Invariance, PTL DEF Spec, EnvsKeepTheirValues

---------------------------------------------------------------------------
(* Contexts and those who use them. *)

Active(c) == contexts[c].status \in {"running", "resumed"}

\* A context nothing has used yet has no frames and no Fiber.
Unmade ==
  \A c \in Contexts : contexts[c].status = "none" => contexts[c].ci = <<>> /\ contexts[c].fib = 0

FibersOwn == \A k \in Objs : heap[k].kind = "fiber" => contexts[heap[k].on].fib = k

\* A task that may still run has a context of its own.
TasksOwn ==
  /\ \A t \in owned :
       /\ heap[t].on \in Others /\ contexts[heap[t].on].fib = 0
       /\ contexts[heap[t].on].status \in {"created", "suspended"} \/ contexts[heap[t].on].vmexec
  /\ \A t, u \in owned : heap[t].on = heap[u].on => t = u

\* The one context that runs, and the way back from it: who resumed a context
\* waits for that one alone.
OneRuns ==
  /\ \A c \in Contexts : contexts[c].status = "running" <=> c = cur
  /\ Active(Root)
  /\ \A c \in Others : Active(c) => /\ contexts[c].prev \in Contexts
                                     /\ contexts[contexts[c].prev].status = "resumed"
  /\ \A c, d \in Others : Active(c) /\ Active(d) /\ contexts[c].prev = contexts[d].prev => c = d

TaskRuns ==
  \A c \in Contexts : contexts[c].vmexec =>
    /\ running \in owned /\ heap[running].on = c
    /\ Active(c) /\ contexts[c].prev = Root

ContextsInv == Unmade /\ FibersOwn /\ TasksOwn /\ OneRuns /\ TaskRuns

LEMMA ContextsInvUse ==
  ASSUME ContextsInv, IInv
  PROVE  ContextsOutliveTheirUse
<1>1. cur \in Contexts
  BY DEF IInv, OthersOK
<1>2. \A t \in owned : contexts[heap[t].on].status # "terminated"
  BY DEF ContextsInv, TasksOwn, TaskRuns, Active, Contexts
<1>3. contexts[cur].status = "running" /\ (contexts[cur].vmexec => running \in owned /\ heap[running].on = cur)
  BY <1>1 DEF ContextsInv, OneRuns, TaskRuns
<1>4. cur # Root => contexts[cur].prev # NoCtx /\ contexts[contexts[cur].prev].status = "resumed"
  BY <1>1, <1>3, SizesAssumption DEF ContextsInv, OneRuns, Active, Contexts
<1> QED  BY <1>2, <1>3, <1>4 DEF ContextsInv, FibersOwn, ContextsOutliveTheirUse

\* What switches, Fibers and tasks change of a context, the rest left out.
Same(x, y) == x.status = y.status /\ x.prev = y.prev /\ x.vmexec = y.vmexec /\ x.fib = y.fib

LEMMA WithRegSame ==
  ASSUME NEW vs, NEW os, NEW cx, ContextsOK(cx, vs, os), NEW c, NEW r, NEW v, NEW d \in Contexts
  PROVE  Same(WithReg(cx, c, r, v)[d], cx[d]) /\ WithReg(cx, c, r, v)[d].ci = cx[d].ci
BY DEF ContextsOK, ContextsIn, WithReg, Same

LEMMA PushSame ==
  ASSUME NEW vs, NEW os, NEW cx, ContextsOK(cx, vs, os), NEW c, NEW f, NEW v, NEW d \in Contexts
  PROVE  /\ Same(Push(cx, c, f, v)[d], cx[d])
         /\ Push(cx, c, f, v)[d].ci = IF d = c THEN Append(cx[d].ci, f) ELSE cx[d].ci
BY DEF ContextsOK, ContextsIn, Push, Same

LEMMA StartedSame ==
  ASSUME IInv, NEW c \in Contexts, NEW d \in Contexts
  PROVE  /\ Same(Started(contexts, c)[d], contexts[d])
         /\ \/ Started(contexts, c)[d].ci = contexts[d].ci
            \/ d = c /\ \E f : Started(contexts, c)[d].ci = Append(contexts[d].ci, f)
<1>1. ContextsOK(contexts, Over(heap), Programs(loaded))
  BY DEF IInv
<1> DEFINE f == Frame(1, BlockRegs, contexts[c].proc, FALSE, heap[contexts[c].proc].ours)
<1>2. /\ Same(Push(contexts, c, f, 0)[d], contexts[d])
      /\ Push(contexts, c, f, 0)[d].ci = IF d = c THEN Append(contexts[d].ci, f) ELSE contexts[d].ci
  <2> HIDE DEF f
  <2> QED  BY <1>1, PushSame
<1>3. Started(contexts, c) \in {contexts, Push(contexts, c, f, 0)}
  BY DEF Started
<1> HIDE DEF f
<1> QED  BY <1>2, <1>3 DEF Same

\* A step that changes none of that.
LEMMA QuietContexts ==
  ASSUME IInv, IInv', ContextsInv, UNCHANGED <<cur, owned, running>>,
         \A c \in Contexts : Same(contexts'[c], contexts[c]),
         \A c \in Contexts \ {cur} : contexts'[c].ci = contexts[c].ci,
         \A k \in Objs : heap'[k].kind \in {"fiber", "task"}
                           => heap'[k].kind = heap[k].kind /\ heap'[k].on = heap[k].on
  PROVE  ContextsInv'
<1>1. cur \in Contexts /\ owned \subseteq Objs /\ Root \in Contexts /\ Others \subseteq Contexts
  BY DEF IInv, OthersOK, LiveOf, Contexts
<1>2. \A t \in owned : heap'[t].on = heap[t].on
  BY <1>1 DEF IInv, OwnedAreTasks
<1>3. \A c \in Contexts : Active(c)' <=> Active(c)
  BY DEF Active, Same
<1>4. Unmade'
  BY <1>1 DEF ContextsInv, Unmade, OneRuns, Same
<1>5. FibersOwn'
  BY DEF ContextsInv, FibersOwn, Same, IInv, HeapOK, WellFormed
<1>6. TasksOwn'
  BY <1>1, <1>2 DEF ContextsInv, TasksOwn, Same
<1>7. OneRuns'
  BY <1>1, <1>3 DEF ContextsInv, OneRuns, Same
<1>8. TaskRuns'
  BY <1>1, <1>2, <1>3 DEF ContextsInv, TaskRuns, Same
<1> QED  BY <1>4, <1>5, <1>6, <1>7, <1>8 DEF ContextsInv

\* A context that waits is resumed.
LEMMA ResumedRuns ==
  ASSUME OneRuns, cur \in Contexts, NEW c \in Others, cur' = c,
         contexts[c].status \notin {"running", "resumed"},
         \A d \in Contexts :
           /\ contexts'[d].status = IF d = c THEN "running" ELSE IF d = cur THEN "resumed"
                                    ELSE contexts[d].status
           /\ contexts'[d].prev = IF d = c THEN cur ELSE contexts[d].prev
  PROVE  OneRuns'
<1>1. Others \subseteq Contexts /\ Root \in Contexts /\ c # cur /\ Root \notin Others /\ contexts[cur].status = "running"
  BY SizesAssumption DEF Contexts, OneRuns
<1>2. \A d \in Contexts : Active(d)' <=> (Active(d) \/ d = c)
  BY <1>1 DEF Active
<1>3. \A d \in Contexts : contexts'[d].status = "running" <=> d = cur'
  BY <1>1 DEF OneRuns
<1>4. Active(Root)'
  BY <1>1, <1>2 DEF OneRuns
<1>5. ASSUME NEW d \in Others, Active(d)'
      PROVE  contexts'[d].prev \in Contexts /\ contexts'[contexts'[d].prev].status = "resumed"
  <2>1. CASE d = c
    BY <1>1, <2>1
  <2>2. CASE d # c
    <3>1. contexts[d].prev \in Contexts /\ contexts[contexts[d].prev].status = "resumed"
      BY <1>1, <1>2, <1>5, <2>2 DEF OneRuns
    <3>2. contexts'[d].prev = contexts[d].prev /\ contexts[d].prev # c
      BY <1>1, <2>2, <3>1
    <3> QED  BY <3>1, <3>2
  <2> QED  BY <2>1, <2>2
<1>6. ASSUME NEW d \in Others, NEW e \in Others, Active(d)', Active(e)', contexts'[d].prev = contexts'[e].prev
      PROVE  d = e
  <2>1. \A f \in Others : f # c /\ Active(f)' => Active(f) /\ contexts'[f].prev = contexts[f].prev
                                                  /\ contexts[f].prev # cur
    BY <1>1, <1>2 DEF OneRuns
  <2>2. contexts'[c].prev = cur
    BY <1>1
  <2>3. CASE d = c \/ e = c
    BY <1>6, <2>1, <2>2, <2>3
  <2>4. CASE d # c /\ e # c
    BY <1>6, <2>1, <2>4 DEF OneRuns
  <2> QED  BY <2>3, <2>4
<1> QED  BY <1>3, <1>4, <1>5, <1>6 DEF OneRuns

\* The running context leaves, and who resumed it goes on.
LEMMA ResumerRuns ==
  ASSUME OneRuns, cur \in Others, cur' = contexts[cur].prev,
         contexts'[cur].status \notin {"running", "resumed"},
         \A d \in Contexts \ {cur} :
           /\ contexts'[d].status = IF d = contexts[cur].prev THEN "running" ELSE contexts[d].status
           /\ contexts'[d].prev = contexts[d].prev
  PROVE  OneRuns'
<1> DEFINE prev == contexts[cur].prev
<1>1. Others \subseteq Contexts /\ Root \in Contexts /\ Root \notin Others /\ contexts[cur].status = "running"
  BY SizesAssumption DEF Contexts, OneRuns
<1>2. prev \in Contexts /\ prev # cur /\ contexts[prev].status = "resumed"
  BY <1>1 DEF OneRuns, Active
<1>3. \A d \in Contexts : Active(d)' <=> (Active(d) /\ d # cur)
  BY <1>1, <1>2 DEF Active
<1>4. \A d \in Contexts : contexts'[d].status = "running" <=> d = cur'
  BY <1>1, <1>2 DEF OneRuns
<1>5. Active(Root)'
  BY <1>1, <1>3 DEF OneRuns
<1>6. \A d \in Others : Active(d)' => Active(d) /\ d # cur /\ contexts'[d].prev = contexts[d].prev
  BY <1>1, <1>3
<1>7. ASSUME NEW d \in Others, Active(d)'
      PROVE  contexts'[d].prev \in Contexts /\ contexts'[contexts'[d].prev].status = "resumed"
  <2>1. contexts[d].prev \in Contexts /\ contexts[contexts[d].prev].status = "resumed"
    BY <1>6, <1>7 DEF OneRuns
  <2>2. contexts[d].prev # prev
    BY <1>1, <1>6, <1>7 DEF OneRuns, Active
  <2> QED  BY <1>1, <1>6, <1>7, <2>1, <2>2
<1>8. ASSUME NEW d \in Others, NEW e \in Others, Active(d)', Active(e)', contexts'[d].prev = contexts'[e].prev
      PROVE  d = e
  BY <1>6, <1>8 DEF OneRuns
<1> QED  BY <1>4, <1>5, <1>7, <1>8 DEF OneRuns

LEMMA ResumeContexts ==
  ASSUME IInv, IInv', ContextsInv, contexts[cur].ci # <<>>, NEW s \in Slots, Resume(s)
  PROVE  /\ ContextsInv'
         /\ \A d \in Contexts : \/ contexts'[d].ci = contexts[d].ci
                               \/ \E f : contexts'[d].ci = Append(contexts[d].ci, f)
<1> DEFINE k == Reg(s)
           c == heap[k].on
           cx == Started(contexts, c)
<1>1. /\ k \in Objs /\ heap[k].kind = "fiber" /\ cur \in Contexts /\ c \in Contexts
      /\ contexts[c].status \in {"created", "suspended"}
      /\ cur' = c /\ heap' = heap /\ owned' = owned /\ running' = running
  BY TopOK DEF Resume, IInv, OthersOK, HeapOK, WellFormed, scheduler
<1>2. /\ c \in Others /\ c # cur /\ Root \in Contexts /\ contexts[c].fib = k /\ k # 0
      /\ Others \subseteq Contexts /\ owned \subseteq Objs
  BY <1>1, Basics DEF ContextsInv, OneRuns, Active, FibersOwn, Contexts, IInv, OthersOK, LiveOf
<1>3. /\ ContextsOK(cx, Over(heap), Programs(loaded))
      /\ \A d \in Contexts : Same(cx[d], contexts[d]) /\ (d # c => cx[d].ci = contexts[d].ci)
      /\ \A d \in Contexts : cx[d].ci = contexts[d].ci \/ \E f : cx[d].ci = Append(contexts[d].ci, f)
  BY <1>1, StartedOK, StartedSame
<1>0. contexts' = [cx EXCEPT ![cur].status = "resumed", ![c].status = "running", ![c].prev = cur]
  BY DEF Resume
<1> HIDE DEF k, c, cx
<1>4. ASSUME NEW d \in Contexts
      PROVE  /\ contexts'[d].status = IF d = c THEN "running" ELSE IF d = cur THEN "resumed"
                                      ELSE contexts[d].status
             /\ contexts'[d].prev = IF d = c THEN cur ELSE contexts[d].prev
             /\ contexts'[d].vmexec = contexts[d].vmexec /\ contexts'[d].fib = contexts[d].fib
             /\ d # c => contexts'[d].ci = contexts[d].ci
  <2>1. cx \in [Contexts -> ContextsIn(Over(heap), Programs(loaded))]
    BY <1>3 DEF ContextsOK
  <2>2. Same(cx[d], contexts[d]) /\ (d # c => cx[d].ci = contexts[d].ci)
    BY <1>3
  <2> QED  BY <1>0, <1>1, <1>2, <2>1, <2>2 DEF ContextsIn, Same
<1>11. \A d \in Contexts : contexts'[d].ci = cx[d].ci
  BY <1>0, <1>3 DEF ContextsOK, ContextsIn
<1>5. contexts[cur].status = "running"
  BY <1>1 DEF ContextsInv, OneRuns
<1>6. Unmade'
  BY <1>4 DEF ContextsInv, Unmade
<1>7. FibersOwn'
  BY <1>1, <1>4 DEF ContextsInv, FibersOwn, IInv, HeapOK, WellFormed
<1>8. TasksOwn'
  <2>1. ASSUME NEW t \in owned
        PROVE  /\ heap[t].on \in Others /\ contexts'[heap[t].on].fib = 0
               /\ contexts'[heap[t].on].status \in {"created", "suspended"} \/ contexts'[heap[t].on].vmexec
    <3>1. /\ heap[t].on \in Others /\ contexts[heap[t].on].fib = 0
          /\ contexts[heap[t].on].status \in {"created", "suspended"} \/ contexts[heap[t].on].vmexec
      BY DEF ContextsInv, TasksOwn
    <3> QED  BY <1>2, <1>4, <1>5, <3>1
  <2> QED  BY <1>1, <2>1 DEF ContextsInv, TasksOwn
<1>9. OneRuns'
  <2>1. /\ OneRuns /\ cur \in Contexts /\ cur' = c /\ c \in Others
        /\ contexts[c].status \notin {"running", "resumed"}
        /\ \A d \in Contexts :
             /\ contexts'[d].status = IF d = c THEN "running" ELSE IF d = cur THEN "resumed"
                                      ELSE contexts[d].status
             /\ contexts'[d].prev = IF d = c THEN cur ELSE contexts[d].prev
    BY <1>1, <1>2, <1>4 DEF ContextsInv
  <2> QED  BY <2>1, ResumedRuns
<1>10. TaskRuns'
  <2> SUFFICES ASSUME NEW d \in Contexts, contexts'[d].vmexec
               PROVE  /\ running' \in owned' /\ heap'[running'].on = d
                      /\ Active(d)' /\ contexts'[d].prev = Root
    BY DEF TaskRuns
  <2>1. contexts[d].vmexec
    BY <1>4
  <2>2. running \in owned /\ heap[running].on = d /\ Active(d) /\ contexts[d].prev = Root
    BY <2>1 DEF ContextsInv, TaskRuns
  <2>3. d # c
    BY <1>1, <2>2 DEF Active
  <2> QED  BY <1>1, <1>4, <2>2, <2>3 DEF Active
<1> QED  BY <1>6, <1>7, <1>8, <1>9, <1>10, <1>11, <1>3 DEF ContextsInv

LEMMA TaskStepContexts ==
  ASSUME IInv, IInv', ContextsInv, cur = Root, NEW t \in owned, TaskStep(t)
  PROVE  /\ ContextsInv'
         /\ \A d \in Contexts : \/ contexts'[d].ci = contexts[d].ci
                               \/ \E f : contexts'[d].ci = Append(contexts[d].ci, f)
<1> DEFINE c == heap[t].on
           cx == Started(contexts, c)
<1>1. /\ t \in Objs /\ c \in Contexts /\ c \in Others /\ contexts[c].fib = 0 /\ Root \in Contexts
      /\ cur' = c /\ running' = t /\ heap' = heap /\ owned' = owned
      /\ Others \subseteq Contexts /\ owned \subseteq Objs /\ c # Root
  <2>1. cur' = c /\ running' = t /\ heap' = heap /\ owned' = owned
    BY DEF TaskStep
  <2>2. owned \subseteq Objs
    BY DEF IInv, OthersOK, LiveOf
  <2>3. c \in Others /\ contexts[c].fib = 0
    BY DEF ContextsInv, TasksOwn
  <2>4. Root \notin Others /\ Root \in Contexts /\ Others \subseteq Contexts
    BY SizesAssumption DEF Contexts
  <2> HIDE DEF c
  <2> QED  BY <2>1, <2>2, <2>3, <2>4
<1>2. contexts[Root].status = "running" /\ \A d \in Contexts : contexts[d].vmexec = FALSE
  <2>1. contexts[Root].status = "running"
    BY <1>1 DEF ContextsInv, OneRuns
  <2>2. ASSUME NEW d \in Contexts, contexts[d].vmexec PROVE FALSE
    <3>1. running \in owned /\ heap[running].on = d /\ Active(d) /\ contexts[d].prev = Root
      BY <2>2 DEF ContextsInv, TaskRuns
    <3>2. d \in Others
      BY <3>1 DEF ContextsInv, TasksOwn
    <3>3. contexts[Root].status = "resumed"
      BY <3>1, <3>2 DEF ContextsInv, OneRuns
    <3> QED  BY <2>1, <3>3
  <2>3. \A d \in Contexts : contexts[d].vmexec \in BOOLEAN
    BY DEF IInv, ContextsOK, ContextsIn
  <2> QED  BY <2>1, <2>2, <2>3
<1>3. contexts[c].status \in {"created", "suspended"}
  BY <1>1, <1>2 DEF ContextsInv, TasksOwn
<1>0. contexts' = [cx EXCEPT ![Root].status = "resumed", ![c].status = "running",
                             ![c].prev = Root, ![c].vmexec = TRUE]
  BY DEF TaskStep
<1>4. /\ ContextsOK(cx, Over(heap), Programs(loaded))
      /\ \A d \in Contexts : Same(cx[d], contexts[d]) /\ (d # c => cx[d].ci = contexts[d].ci)
      /\ \A d \in Contexts : cx[d].ci = contexts[d].ci \/ \E f : cx[d].ci = Append(contexts[d].ci, f)
  BY <1>1, StartedOK, StartedSame
<1> HIDE DEF c, cx
<1>5. ASSUME NEW d \in Contexts
      PROVE  /\ contexts'[d].status = IF d = c THEN "running" ELSE IF d = Root THEN "resumed"
                                      ELSE contexts[d].status
             /\ contexts'[d].prev = IF d = c THEN Root ELSE contexts[d].prev
             /\ contexts'[d].vmexec = (d = c) /\ contexts'[d].fib = contexts[d].fib
             /\ d # c => contexts'[d].ci = contexts[d].ci
  <2>1. cx \in [Contexts -> ContextsIn(Over(heap), Programs(loaded))]
    BY <1>4 DEF ContextsOK
  <2>2. Same(cx[d], contexts[d]) /\ (d # c => cx[d].ci = contexts[d].ci) /\ contexts[d].vmexec = FALSE
    BY <1>2, <1>4
  <2>3. contexts'[d] = IF d = c THEN [cx[d] EXCEPT !.status = "running", !.prev = Root, !.vmexec = TRUE]
                       ELSE IF d = Root THEN [cx[d] EXCEPT !.status = "resumed"] ELSE cx[d]
    BY <1>0, <1>1, <2>1 DEF ContextsIn
  <2> QED  BY <1>1, <2>1, <2>2, <2>3 DEF ContextsIn, Same
<1>11. ASSUME NEW d \in Contexts PROVE contexts'[d].ci = cx[d].ci
  <2>1. cx \in [Contexts -> ContextsIn(Over(heap), Programs(loaded))]
    BY <1>4 DEF ContextsOK
  <2>2. contexts'[d] = IF d = c THEN [cx[d] EXCEPT !.status = "running", !.prev = Root, !.vmexec = TRUE]
                       ELSE IF d = Root THEN [cx[d] EXCEPT !.status = "resumed"] ELSE cx[d]
    BY <1>0, <1>1, <2>1 DEF ContextsIn
  <2> QED  BY <2>1, <2>2 DEF ContextsIn
<1>6. Unmade'
  BY <1>5 DEF ContextsInv, Unmade
<1>7. FibersOwn'
  BY <1>1, <1>5 DEF ContextsInv, FibersOwn, IInv, HeapOK, WellFormed
<1>8. TasksOwn'
  <2>1. ASSUME NEW u \in owned
        PROVE  /\ heap[u].on \in Others /\ contexts'[heap[u].on].fib = 0
               /\ contexts'[heap[u].on].status \in {"created", "suspended"} \/ contexts'[heap[u].on].vmexec
    <3>1. /\ heap[u].on \in Others /\ contexts[heap[u].on].fib = 0 /\ heap[u].on # Root
          /\ contexts[heap[u].on].status \in {"created", "suspended"} \/ contexts[heap[u].on].vmexec
      BY SizesAssumption DEF ContextsInv, TasksOwn
    <3> QED  BY <1>1, <1>2, <1>5, <3>1
  <2> QED  BY <1>1, <2>1 DEF ContextsInv, TasksOwn
<1>9. OneRuns'
  <2>1. /\ OneRuns /\ cur \in Contexts /\ cur' = c /\ c \in Others
        /\ contexts[c].status \notin {"running", "resumed"}
        /\ \A d \in Contexts :
             /\ contexts'[d].status = IF d = c THEN "running" ELSE IF d = cur THEN "resumed"
                                      ELSE contexts[d].status
             /\ contexts'[d].prev = IF d = c THEN cur ELSE contexts[d].prev
    BY <1>1, <1>3, <1>5 DEF ContextsInv
  <2> QED  BY <2>1, ResumedRuns
<1>10. TaskRuns'
  <2>1. heap'[t].on = c
    BY <1>1 DEF c
  <2> QED  BY <1>1, <1>2, <1>3, <1>5, <2>1 DEF TaskRuns, Active
<1> QED  BY <1>6, <1>7, <1>8, <1>9, <1>10, <1>11, <1>4 DEF ContextsInv

LEMMA TaskLeavesContexts ==
  ASSUME IInv, IInv', ContextsInv, TaskLeaves
  PROVE  ContextsInv' /\ \A d \in Contexts : contexts'[d].ci = contexts[d].ci
<1>1. /\ cur \in Contexts /\ cur \in Others /\ cur # Root /\ Root \in Contexts /\ contexts[cur].vmexec
      /\ cur' = Root /\ running' = 0 /\ heap' = heap /\ owned' = owned
      /\ Others \subseteq Contexts /\ owned \subseteq Objs
  BY SizesAssumption DEF TaskLeaves, IInv, OthersOK, LiveOf, Contexts
<1>0. contexts' = [contexts EXCEPT ![cur].status = "suspended", ![cur].prev = NoCtx,
                                   ![cur].vmexec = FALSE, ![Root].status = "running"]
  BY DEF TaskLeaves
<1>2. /\ running \in owned /\ heap[running].on = cur /\ contexts[cur].prev = Root
      /\ contexts[cur].status = "running" /\ contexts[Root].status = "resumed"
      /\ \A d \in Contexts : contexts[d].vmexec => d = cur
  BY <1>1 DEF ContextsInv, OneRuns, TaskRuns, Active
<1>3. ASSUME NEW d \in Contexts
      PROVE  /\ contexts'[d].status = IF d = cur THEN "suspended" ELSE IF d = Root THEN "running"
                                      ELSE contexts[d].status
             /\ contexts'[d].prev = IF d = cur THEN NoCtx ELSE contexts[d].prev
             /\ contexts'[d].vmexec = FALSE /\ contexts'[d].fib = contexts[d].fib
             /\ contexts'[d].ci = contexts[d].ci
  <2>1. contexts \in [Contexts -> ContextsIn(Over(heap), Programs(loaded))]
    BY DEF IInv, ContextsOK
  <2>2. contexts'[d] = IF d = cur THEN [contexts[d] EXCEPT !.status = "suspended", !.prev = NoCtx, !.vmexec = FALSE]
                       ELSE IF d = Root THEN [contexts[d] EXCEPT !.status = "running"] ELSE contexts[d]
    BY <1>0, <1>1, <2>1 DEF ContextsIn
  <2> QED  BY <1>1, <1>2, <2>1, <2>2 DEF ContextsIn
<1>4. Unmade'
  BY <1>3 DEF ContextsInv, Unmade
<1>5. FibersOwn'
  BY <1>1, <1>3 DEF ContextsInv, FibersOwn, IInv, HeapOK, WellFormed
<1>6. TasksOwn'
  <2>1. ASSUME NEW t \in owned
        PROVE  /\ heap[t].on \in Others /\ contexts'[heap[t].on].fib = 0
               /\ contexts'[heap[t].on].status \in {"created", "suspended"}
    <3>1. /\ heap[t].on \in Others /\ contexts[heap[t].on].fib = 0 /\ heap[t].on # Root
          /\ contexts[heap[t].on].status \in {"created", "suspended"} \/ contexts[heap[t].on].vmexec
          /\ heap[t].on \in Contexts
      BY <1>1, SizesAssumption DEF ContextsInv, TasksOwn
    <3> QED  BY <1>2, <1>3, <3>1
  <2> QED  BY <1>1, <2>1 DEF ContextsInv, TasksOwn
<1>7. OneRuns'
  <2>1. /\ OneRuns /\ cur \in Others /\ cur' = contexts[cur].prev
        /\ contexts'[cur].status \notin {"running", "resumed"}
        /\ \A d \in Contexts \ {cur} :
             /\ contexts'[d].status = IF d = contexts[cur].prev THEN "running" ELSE contexts[d].status
             /\ contexts'[d].prev = contexts[d].prev
    BY <1>1, <1>2, <1>3 DEF ContextsInv
  <2> QED  BY <2>1, ResumerRuns
<1>8. TaskRuns'
  BY <1>3 DEF TaskRuns
<1> QED  BY <1>4, <1>5, <1>6, <1>7, <1>8, <1>3 DEF ContextsInv

LEMMA YieldContexts ==
  ASSUME IInv, IInv', ContextsInv, NEW r, Yield(r)
  PROVE  ContextsInv' /\ \A d \in Contexts : contexts'[d].ci = contexts[d].ci
<1> DEFINE prev == contexts[cur].prev
           cx == [contexts EXCEPT ![cur].status = "suspended", ![cur].prev = NoCtx, ![prev].status = "running"]
<1>1. /\ cur \in Contexts /\ cur \in Others /\ cur # Root /\ Root \in Contexts
      /\ contexts[cur].vmexec = FALSE
      /\ cur' = prev /\ running' = running /\ heap' = heap /\ owned' = owned
      /\ Others \subseteq Contexts /\ owned \subseteq Objs
  BY DEF Yield, Deliver, IInv, OthersOK, LiveOf, Contexts, ContextsOK, ContextsIn, scheduler
<1>0. contexts' = WithReg(cx, prev, Last(cx[prev].ci).base, Reg(r))
  BY DEF Yield, Deliver
<1>2. /\ contexts[cur].status = "running" /\ prev \in Contexts
      /\ contexts[prev].status = "resumed" /\ prev # cur
  BY <1>1 DEF ContextsInv, OneRuns, Active
<1>3. /\ ContextsOK(cx, Over(heap), Programs(loaded))
      /\ \A d \in Contexts :
           cx[d] = IF d = cur THEN [contexts[d] EXCEPT !.status = "suspended", !.prev = NoCtx]
                   ELSE IF d = prev THEN [contexts[d] EXCEPT !.status = "running"] ELSE contexts[d]
  <2>1. contexts \in [Contexts -> ContextsIn(Over(heap), Programs(loaded))]
    BY DEF IInv, ContextsOK
  <2>2. \A d \in Contexts :
          cx[d] = IF d = cur THEN [contexts[d] EXCEPT !.status = "suspended", !.prev = NoCtx]
                  ELSE IF d = prev THEN [contexts[d] EXCEPT !.status = "running"] ELSE contexts[d]
    BY <1>1, <1>2, <2>1 DEF ContextsIn
  <2> DEFINE c1 == [contexts EXCEPT ![cur].status = "suspended"]
             c2 == [c1 EXCEPT ![cur].prev = NoCtx]
             c3 == [c2 EXCEPT ![prev].status = "running"]
  <2>3. cx = c3
    OBVIOUS
  <2>4. ContextsOK(contexts, Over(heap), Programs(loaded))
    BY DEF IInv
  <2> HIDE DEF prev, cx
  <2>5. ContextsOK(c1, Over(heap), Programs(loaded))
    BY <2>4, <1>1, FieldsOK DEF Statuses
  <2> HIDE DEF c1
  <2>6. ContextsOK(c2, Over(heap), Programs(loaded))
    BY <2>5, <1>1, FieldsOK DEF Statuses
  <2> HIDE DEF c2
  <2>7. ContextsOK(c3, Over(heap), Programs(loaded))
    BY <2>6, <1>2, FieldsOK DEF Statuses
  <2> HIDE DEF c3
  <2> QED  BY <2>2, <2>3, <2>7
<1> HIDE DEF cx, prev
<1>4. ASSUME NEW d \in Contexts
      PROVE  /\ contexts'[d].status = IF d = cur THEN "suspended" ELSE IF d = prev THEN "running"
                                      ELSE contexts[d].status
             /\ contexts'[d].prev = IF d = cur THEN NoCtx ELSE contexts[d].prev
             /\ contexts'[d].vmexec = contexts[d].vmexec /\ contexts'[d].fib = contexts[d].fib
             /\ contexts'[d].ci = contexts[d].ci
  <2> DEFINE r0 == Last(cx[prev].ci).base
             v == Reg(r)
  <2>1. contexts' = WithReg(cx, prev, r0, v)
    BY <1>0
  <2> HIDE DEF r0, v
  <2>4. Same(WithReg(cx, prev, r0, v)[d], cx[d]) /\ WithReg(cx, prev, r0, v)[d].ci = cx[d].ci
    <3>1. ContextsOK(cx, Over(heap), Programs(loaded))
      BY <1>3
    <3> QED  BY <3>1, WithRegSame
  <2>2. Same(contexts'[d], cx[d]) /\ contexts'[d].ci = cx[d].ci
    BY <2>1, <2>4
  <2>3. contexts[d] \in ContextsIn(Over(heap), Programs(loaded))
    BY DEF IInv, ContextsOK
  <2> QED  BY <1>2, <1>3, <2>2, <2>3 DEF ContextsIn, Same
<1>5. Unmade'
  BY <1>4 DEF ContextsInv, Unmade
<1>6. FibersOwn'
  BY <1>1, <1>4 DEF ContextsInv, FibersOwn, IInv, HeapOK, WellFormed
<1>7. TasksOwn'
  <2>1. ASSUME NEW t \in owned
        PROVE  /\ heap[t].on \in Others /\ contexts'[heap[t].on].fib = 0
               /\ contexts'[heap[t].on].status \in {"created", "suspended"} \/ contexts'[heap[t].on].vmexec
    <3>1. /\ heap[t].on \in Others /\ contexts[heap[t].on].fib = 0
          /\ contexts[heap[t].on].status \in {"created", "suspended"} \/ contexts[heap[t].on].vmexec
      BY DEF ContextsInv, TasksOwn
    <3> QED  BY <1>1, <1>2, <1>4, <3>1
  <2> QED  BY <1>1, <2>1 DEF ContextsInv, TasksOwn
<1>8. OneRuns'
  <2>1. /\ OneRuns /\ cur \in Others /\ cur' = contexts[cur].prev
        /\ contexts'[cur].status \notin {"running", "resumed"}
        /\ \A d \in Contexts \ {cur} :
             /\ contexts'[d].status = IF d = contexts[cur].prev THEN "running" ELSE contexts[d].status
             /\ contexts'[d].prev = contexts[d].prev
    BY <1>1, <1>2, <1>4 DEF ContextsInv, prev
  <2> QED  BY <2>1, ResumerRuns
<1>9. TaskRuns'
  BY <1>1, <1>2, <1>4 DEF ContextsInv, TaskRuns, Active
<1> QED  BY <1>5, <1>6, <1>7, <1>8, <1>9, <1>4 DEF ContextsInv

LEMMA FibersKeep ==
  ASSUME IInv, FibersOwn, \A d \in Contexts : contexts'[d].fib = contexts[d].fib,
         \A k \in Objs : heap'[k].kind = "fiber" => heap[k].kind = "fiber" /\ heap'[k].on = heap[k].on
  PROVE  FibersOwn'
<1> SUFFICES ASSUME NEW k \in Objs, heap'[k].kind = "fiber" PROVE contexts'[heap'[k].on].fib = k
  BY DEF FibersOwn
<1>1. heap[k].kind = "fiber" /\ heap'[k].on = heap[k].on
  OBVIOUS
<1>2. heap[k].on \in Contexts
  BY <1>1 DEF IInv, HeapOK, WellFormed
<1> QED  BY <1>1, <1>2 DEF FibersOwn

\* Environments off the stack: whose contexts the others are stays.
LEMMA DetachedStays ==
  ASSUME NEW hp, NEW os, HeapOK(hp, os), NEW cx, NEW envs, NEW k \in Objs
  PROVE  /\ Detached(hp, cx, envs)[k].kind = hp[k].kind
         /\ hp[k].kind # "env" => Detached(hp, cx, envs)[k].on = hp[k].on
BY DEF Detached, IsAttached, HeapOK, ObjectsIn

LEMMA ReturnFromTaskContexts ==
  ASSUME IInv, IInv', ContextsInv, NEW r, ReturnFromTask(r)
  PROVE  ContextsInv' /\ \A d \in Contexts : contexts'[d].ci = IF d = cur THEN <<>> ELSE contexts[d].ci
<1>1. /\ cur \in Contexts /\ contexts[cur].vmexec /\ cur' = Root /\ Root \in Contexts
      /\ owned' = owned \ {running} /\ running' = 0
      /\ owned \subseteq Objs /\ Others \subseteq Contexts
  BY DEF ReturnFromTask, IInv, OthersOK, LiveOf, Contexts
<1>2. contexts' = [contexts EXCEPT ![cur] = Ended(cur), ![Root].status = "running"]
  BY DEF ReturnFromTask
<1>3. /\ running \in owned /\ heap[running].on = cur /\ contexts[cur].prev = Root
      /\ cur \in Others /\ cur # Root /\ contexts[cur].status = "running"
      /\ \A d \in Contexts : contexts[d].vmexec => d = cur
  BY <1>1, SizesAssumption DEF ContextsInv, OneRuns, TaskRuns, TasksOwn
<1>4. ASSUME NEW d \in Contexts
      PROVE  /\ contexts'[d].status = IF d = cur THEN "terminated" ELSE IF d = Root THEN "running"
                                      ELSE contexts[d].status
             /\ d # cur => contexts'[d].prev = contexts[d].prev
             /\ contexts'[d].vmexec = FALSE /\ contexts'[d].fib = contexts[d].fib
             /\ contexts'[d].ci = IF d = cur THEN <<>> ELSE contexts[d].ci
  <2>1. contexts \in [Contexts -> ContextsIn(Over(heap), Programs(loaded))]
    BY DEF IInv, ContextsOK
  <2>2. contexts'[d] = IF d = cur THEN Ended(cur)
                       ELSE IF d = Root THEN [contexts[d] EXCEPT !.status = "running"] ELSE contexts[d]
    BY <1>1, <1>2, <1>3, <2>1 DEF ContextsIn
  <2> QED  BY <1>1, <1>3, <2>1, <2>2 DEF ContextsIn, Ended
<1>5. \A k \in Objs : heap'[k].kind = heap[k].kind /\ (heap[k].kind # "env" => heap'[k].on = heap[k].on)
  <2>1. HeapOK(heap, Programs(loaded)) /\ ContextsOK(contexts, Over(heap), Programs(loaded))
    BY DEF IInv
  <2>2. heap' = [Detached(heap, contexts, {Top.env}) EXCEPT ![running].ref = Reg(r)]
    BY DEF ReturnFromTask
  <2> DEFINE hp == Detached(heap, contexts, {Top.env})
  <2>3. \A k \in Objs : hp[k].kind = heap[k].kind /\ (heap[k].kind # "env" => hp[k].on = heap[k].on)
    BY <2>1, DetachedStays
  <2>4. hp \in [Objs -> ObjectsIn(Over(hp), Programs(loaded))]
    BY <2>1, DetachedOK DEF HeapOK
  <2> HIDE DEF hp
  <2>5. heap' = [hp EXCEPT ![running].ref = Reg(r)]
    BY <2>2 DEF hp
  <2> QED  BY <2>3, <2>4, <2>5 DEF ObjectsIn
<1>6. \A t \in owned : heap'[t].on = heap[t].on
  BY <1>1, <1>5 DEF IInv, OwnedAreTasks
<1>7. Unmade'
  BY <1>4, <1>3, ZenonT(60) DEF ContextsInv, Unmade
<1>8. FibersOwn'
  BY <1>4, <1>5, FibersKeep DEF ContextsInv
<1>9. TasksOwn'
  <2>1. ASSUME NEW t \in owned, t # running
        PROVE  /\ heap'[t].on \in Others /\ contexts'[heap'[t].on].fib = 0
               /\ contexts'[heap'[t].on].status \in {"created", "suspended"}
    <3>1. /\ heap[t].on \in Others /\ contexts[heap[t].on].fib = 0 /\ heap[t].on # Root
          /\ contexts[heap[t].on].status \in {"created", "suspended"} \/ contexts[heap[t].on].vmexec
          /\ heap[t].on \in Contexts /\ heap[t].on # cur
      BY <1>1, <1>3, <2>1, SizesAssumption DEF ContextsInv, TasksOwn
    <3> QED  BY <1>3, <1>4, <1>6, <3>1, ZenonT(60)
  <2> QED  BY <1>1, <1>6, <2>1 DEF ContextsInv, TasksOwn
<1>10. OneRuns'
  <2>1. /\ OneRuns /\ cur \in Others /\ cur' = contexts[cur].prev
        /\ contexts'[cur].status \notin {"running", "resumed"}
        /\ \A d \in Contexts \ {cur} :
             /\ contexts'[d].status = IF d = contexts[cur].prev THEN "running" ELSE contexts[d].status
             /\ contexts'[d].prev = contexts[d].prev
    BY <1>1, <1>3, <1>4 DEF ContextsInv
  <2> QED  BY <2>1, ResumerRuns
<1>11. TaskRuns'
  BY <1>4 DEF TaskRuns
<1> QED  BY <1>7, <1>8, <1>9, <1>10, <1>11, <1>4 DEF ContextsInv

LEMMA ReturnFromFiberContexts ==
  ASSUME IInv, IInv', ContextsInv, NEW r, ReturnFromFiber(r)
  PROVE  ContextsInv' /\ \A d \in Contexts : contexts'[d].ci = IF d = cur THEN <<>> ELSE contexts[d].ci
<1> DEFINE prev == contexts[cur].prev
           cx == [contexts EXCEPT ![cur] = Ended(cur), ![prev].status = "running"]
<1>1. /\ cur \in Contexts /\ cur \in Others /\ contexts[cur].vmexec = FALSE
      /\ running' = running /\ owned' = owned
      /\ owned \subseteq Objs /\ Others \subseteq Contexts
  BY DEF ReturnFromFiber, IInv, OthersOK, LiveOf, Contexts, scheduler, ContextsOK, ContextsIn
<1>2. /\ contexts[cur].status = "running" /\ prev \in Contexts
      /\ contexts[prev].status = "resumed" /\ prev # cur
  BY <1>1 DEF ContextsInv, OneRuns, Active
<1>3. cur' = prev
  BY <1>2, SizesAssumption DEF ReturnFromFiber, Resumer
<1>4. contexts' = WithReg(cx, prev, Last(cx[prev].ci).base, Reg(r))
  BY <1>3 DEF ReturnFromFiber, Deliver
<1>5. /\ ContextsOK(cx, Over(heap), Programs(loaded))
      /\ \A d \in Contexts :
           cx[d] = IF d = cur THEN Ended(cur)
                   ELSE IF d = prev THEN [contexts[d] EXCEPT !.status = "running"] ELSE contexts[d]
  <2>1. contexts \in [Contexts -> ContextsIn(Over(heap), Programs(loaded))]
    BY DEF IInv, ContextsOK
  <2>2. \A d \in Contexts :
          cx[d] = IF d = cur THEN Ended(cur)
                  ELSE IF d = prev THEN [contexts[d] EXCEPT !.status = "running"] ELSE contexts[d]
    BY <1>1, <1>2, <2>1 DEF ContextsIn
  <2> DEFINE c1 == [contexts EXCEPT ![cur] = Ended(cur)]
             c2 == [c1 EXCEPT ![prev].status = "running"]
  <2>3. cx = c2
    OBVIOUS
  <2>4. ContextsOK(contexts, Over(heap), Programs(loaded)) /\ 0 \in Over(heap)
    BY DEF IInv, Over
  <2>5. Ended(cur) \in ContextsIn(Over(heap), Programs(loaded))
    BY <1>1, <2>4, EndedOK DEF IInv
  <2> HIDE DEF prev, cx
  <2>6. ContextsOK(c1, Over(heap), Programs(loaded))
    BY <2>4, <2>5, <1>1, UpdatedOK
  <2> HIDE DEF c1
  <2>7. ContextsOK(c2, Over(heap), Programs(loaded))
    BY <2>6, <1>2, FieldsOK DEF Statuses
  <2> HIDE DEF c2
  <2> QED  BY <2>2, <2>3, <2>7
<1> HIDE DEF cx, prev
<1>6. ASSUME NEW d \in Contexts
      PROVE  /\ contexts'[d].status = IF d = cur THEN "terminated" ELSE IF d = prev THEN "running"
                                      ELSE contexts[d].status
             /\ d # cur => contexts'[d].prev = contexts[d].prev
             /\ contexts'[d].vmexec = contexts[d].vmexec /\ contexts'[d].fib = contexts[d].fib
             /\ contexts'[d].ci = IF d = cur THEN <<>> ELSE contexts[d].ci
  <2> DEFINE r0 == Last(cx[prev].ci).base
             v == Reg(r)
  <2>1. contexts' = WithReg(cx, prev, r0, v)
    BY <1>4
  <2> HIDE DEF r0, v
  <2>2. Same(WithReg(cx, prev, r0, v)[d], cx[d]) /\ WithReg(cx, prev, r0, v)[d].ci = cx[d].ci
    <3>1. ContextsOK(cx, Over(heap), Programs(loaded))
      BY <1>5
    <3> QED  BY <3>1, WithRegSame
  <2>3. Same(contexts'[d], cx[d]) /\ contexts'[d].ci = cx[d].ci
    BY <2>1, <2>2
  <2>4. contexts[d] \in ContextsIn(Over(heap), Programs(loaded))
    BY DEF IInv, ContextsOK
  <2>5. /\ Ended(cur).status = "terminated" /\ Ended(cur).vmexec = FALSE /\ Ended(cur).ci = <<>>
        /\ d = cur => Ended(cur).fib = contexts[d].fib
    BY <2>4, <1>1 DEF ContextsIn, Ended, IInv, ContextsOK
  <2>6. CASE d = cur
    BY <1>1, <1>5, <2>3, <2>5, <2>6 DEF Same
  <2>7. CASE d # cur
    BY <1>2, <1>5, <2>3, <2>4, <2>7 DEF ContextsIn, Same
  <2> QED  BY <2>6, <2>7
<1>7. \A k \in Objs : heap'[k].kind = heap[k].kind /\ (heap[k].kind # "env" => heap'[k].on = heap[k].on)
  BY DetachedStays DEF ReturnFromFiber, IInv
<1>8. \A t \in owned : heap'[t].on = heap[t].on
  BY <1>1, <1>7 DEF IInv, OwnedAreTasks
<1>9. Unmade'
  BY <1>2, <1>6 DEF ContextsInv, Unmade
<1>10. FibersOwn'
  BY <1>6, <1>7, FibersKeep DEF ContextsInv
<1>11. TasksOwn'
  <2>1. ASSUME NEW t \in owned
        PROVE  /\ heap'[t].on \in Others /\ contexts'[heap'[t].on].fib = 0
               /\ contexts'[heap'[t].on].status \in {"created", "suspended"} \/ contexts'[heap'[t].on].vmexec
    <3>1. /\ heap[t].on \in Others /\ contexts[heap[t].on].fib = 0
          /\ contexts[heap[t].on].status \in {"created", "suspended"} \/ contexts[heap[t].on].vmexec
      BY DEF ContextsInv, TasksOwn
    <3> QED  BY <1>1, <1>2, <1>6, <1>8, <3>1
  <2> QED  BY <1>1, <1>8, <2>1 DEF ContextsInv, TasksOwn
<1>12. OneRuns'
  <2>1. /\ OneRuns /\ cur \in Others /\ cur' = contexts[cur].prev
        /\ contexts'[cur].status \notin {"running", "resumed"}
        /\ \A d \in Contexts \ {cur} :
             /\ contexts'[d].status = IF d = contexts[cur].prev THEN "running" ELSE contexts[d].status
             /\ contexts'[d].prev = contexts[d].prev
    BY <1>1, <1>3, <1>6 DEF ContextsInv, prev
  <2> QED  BY <2>1, ResumerRuns
<1>13. TaskRuns'
  <2> SUFFICES ASSUME NEW d \in Contexts, contexts'[d].vmexec
               PROVE  /\ running' \in owned' /\ heap'[running'].on = d
                      /\ Active(d)' /\ contexts'[d].prev = Root
    BY DEF TaskRuns
  <2>1. contexts[d].vmexec /\ d # cur
    BY <1>1, <1>6
  <2>2. running \in owned /\ heap[running].on = d /\ Active(d) /\ contexts[d].prev = Root
    BY <2>1 DEF ContextsInv, TaskRuns
  <2> QED  BY <1>1, <1>6, <1>8, <2>1, <2>2 DEF Active
<1> QED  BY <1>9, <1>10, <1>11, <1>12, <1>13, <1>6 DEF ContextsInv

\* A context nothing has used becomes a Fiber's or a Task's.
LEMMA MadeContexts ==
  ASSUME IInv, IInv', ContextsInv, NEW c \in Others, contexts[c].status = "none",
         cur' = cur, running' = running, owned \subseteq owned', owned' \ owned \subseteq Objs,
         \A d \in Contexts \ {c} : Same(contexts'[d], contexts[d]) /\ contexts'[d].ci = contexts[d].ci,
         contexts'[c].status = "created", contexts'[c].vmexec = FALSE,
         \A j \in LiveOf(heap) : heap'[j] = heap[j],
         \A j \in Objs : heap'[j].kind = "fiber" /\ j \notin LiveOf(heap) =>
                           heap'[j].on = c /\ contexts'[c].fib = j,
         \A t \in owned' \ owned : heap'[t].on = c /\ contexts'[c].fib = 0,
         \A t, u \in owned' \ owned : t = u
  PROVE  ContextsInv'
<1>1. /\ cur \in Contexts /\ owned \subseteq LiveOf(heap) /\ Others \subseteq Contexts
      /\ c \in Contexts /\ c # cur /\ Root \in Contexts /\ c # Root
  BY SizesAssumption DEF IInv, OthersOK, Contexts, ContextsInv, OneRuns
<1>2. contexts[c].fib = 0
  BY <1>1 DEF ContextsInv, Unmade
<1>3. \A d \in Contexts : Active(d) => d # c
  BY DEF Active
<1>4. \A d \in Contexts : Active(d)' <=> Active(d)
  BY <1>3 DEF Active, Same
<1>5. \A t \in owned : heap'[t].on = heap[t].on /\ heap[t].on # c /\ heap[t].on \in Others
  <2>1. ASSUME NEW t \in owned PROVE heap[t].on # c
    <3>1. contexts[heap[t].on].status \in {"created", "suspended"} \/ contexts[heap[t].on].vmexec
      BY DEF ContextsInv, TasksOwn
    <3> QED  BY <3>1, <1>1 DEF ContextsInv, TaskRuns, Active
  <2> QED  BY <1>1, <2>1 DEF ContextsInv, TasksOwn
<1>6. Unmade'
  BY DEF ContextsInv, Unmade, Same
<1>7. FibersOwn'
  <2> SUFFICES ASSUME NEW k \in Objs, heap'[k].kind = "fiber" PROVE contexts'[heap'[k].on].fib = k
    BY DEF FibersOwn
  <2>1. CASE k \in LiveOf(heap)
    <3>1. heap[k].kind = "fiber" /\ heap'[k].on = heap[k].on
      BY <2>1
    <3>2. heap[k].on \in Contexts /\ contexts[heap[k].on].fib = k /\ k # 0
      BY <3>1, Basics DEF IInv, HeapOK, WellFormed, ContextsInv, FibersOwn
    <3>3. heap[k].on # c
      BY <3>2, <1>2
    <3> QED  BY <3>1, <3>2, <3>3 DEF Same
  <2> QED  BY <2>1
<1>8. TasksOwn'
  <2>1. ASSUME NEW t \in owned'
        PROVE  /\ heap'[t].on \in Others /\ contexts'[heap'[t].on].fib = 0
               /\ contexts'[heap'[t].on].status \in {"created", "suspended"} \/ contexts'[heap'[t].on].vmexec
    BY <1>1, <1>5 DEF ContextsInv, TasksOwn, Same
  <2>2. ASSUME NEW t \in owned', NEW u \in owned', heap'[t].on = heap'[u].on PROVE t = u
    BY <1>5, <2>2 DEF ContextsInv, TasksOwn
  <2> QED  BY <2>1, <2>2 DEF TasksOwn
<1>9. OneRuns'
  <2>1. ASSUME NEW d \in Others, Active(d)'
        PROVE  contexts'[d].prev \in Contexts /\ contexts'[contexts'[d].prev].status = "resumed"
    <3>1. Active(d) /\ contexts[d].prev \in Contexts /\ contexts[contexts[d].prev].status = "resumed"
      BY <1>1, <1>4, <2>1 DEF ContextsInv, OneRuns
    <3> QED  BY <1>1, <1>3, <3>1 DEF Same
  <2>2. ASSUME NEW d \in Others, NEW e \in Others, Active(d)', Active(e)', contexts'[d].prev = contexts'[e].prev
        PROVE  d = e
    BY <1>1, <1>3, <1>4, <2>2 DEF ContextsInv, OneRuns, Same
  <2>3. \A d \in Contexts : contexts'[d].status = "running" <=> d = cur'
    BY <1>1 DEF ContextsInv, OneRuns, Same
  <2>4. Active(Root)'
    BY <1>1, <1>4 DEF ContextsInv, OneRuns
  <2> QED  BY <2>1, <2>2, <2>3, <2>4 DEF OneRuns
<1>10. TaskRuns'
  <2> SUFFICES ASSUME NEW d \in Contexts, contexts'[d].vmexec
               PROVE  /\ running' \in owned' /\ heap'[running'].on = d
                      /\ Active(d)' /\ contexts'[d].prev = Root
    BY DEF TaskRuns
  <2>1. contexts[d].vmexec /\ d # c
    BY <1>1 DEF Same
  <2>2. running \in owned /\ heap[running].on = d /\ Active(d) /\ contexts[d].prev = Root
    BY <2>1 DEF ContextsInv, TaskRuns
  <2> QED  BY <1>4, <1>5, <2>1, <2>2 DEF Same
<1> QED  BY <1>6, <1>7, <1>8, <1>9, <1>10 DEF ContextsInv

\* The contexts once one more is made.
LEMMA CreatedIs ==
  ASSUME IInv, NEW c \in Contexts, NEW fib \in Values, NEW p \in Values
  PROVE  LET cy == [contexts EXCEPT ![c] = Created(fib, p)] IN
         /\ cy \in [Contexts -> ContextsIn(Values, BOOLEAN)]
         /\ cy[c] = Created(fib, p) /\ \A d \in Contexts \ {c} : cy[d] = contexts[d]
<1> DEFINE x == Created(fib, p)
<1>2. x \in ContextsIn(Values, BOOLEAN)
  <2>1. Context("created") \in ContextsIn(Values, BOOLEAN)
    BY EmptyOK, Basics DEF Statuses
  <2> QED  BY <2>1 DEF ContextsIn, Created
<1> HIDE DEF x
<1>3. contexts \in [Contexts -> ContextsIn(Values, BOOLEAN)]
  <2>1. Over(heap) \subseteq Values /\ Programs(loaded) \subseteq BOOLEAN
    BY Basics DEF Programs
  <2> QED  BY <2>1, ContextsMono DEF IInv, ContextsOK
<1>4. LET cy == [contexts EXCEPT ![c] = x] IN
      /\ cy \in [Contexts -> ContextsIn(Values, BOOLEAN)]
      /\ cy[c] = x /\ \A d \in Contexts \ {c} : cy[d] = contexts[d]
  BY <1>2, <1>3
<1> QED  BY <1>4 DEF x

MadeOn(cx, c, fib) ==
  /\ cx[c].status = "created" /\ cx[c].vmexec = FALSE /\ cx[c].fib = fib /\ cx[c].ci = <<>>
  /\ \A d \in Contexts \ {c} : Same(cx[d], contexts[d]) /\ cx[d].ci = contexts[d].ci

LEMMA CreatedFields ==
  ASSUME IInv, NEW c \in Contexts, NEW fib \in Values, NEW p \in Values
  PROVE  MadeOn([contexts EXCEPT ![c] = Created(fib, p)], c, fib)
<1> DEFINE x == Created(fib, p)
           cy == [contexts EXCEPT ![c] = x]
<1>1. x.status = "created" /\ x.vmexec = FALSE /\ x.fib = fib /\ x.ci = <<>>
  BY DEF Created, Context
<1>2. cy[c] = x /\ \A d \in Contexts \ {c} : cy[d] = contexts[d]
  BY CreatedIs
<1> HIDE DEF x, cy
<1>3. MadeOn(cy, c, fib)
  BY <1>1, <1>2 DEF MadeOn, Same
<1> QED  BY <1>3 DEF x, cy

LEMMA MadeInto ==
  ASSUME NEW c \in Contexts, NEW fib, NEW cy, MadeOn(cy, c, fib),
         cy \in [Contexts -> ContextsIn(Values, BOOLEAN)], NEW r, NEW v
  PROVE  MadeOn(WithReg(cy, cur, r, v), c, fib)
<1>1. ContextsOK(cy, Values, BOOLEAN)
  BY DEF ContextsOK
<1>2. \A d \in Contexts : Same(WithReg(cy, cur, r, v)[d], cy[d]) /\ WithReg(cy, cur, r, v)[d].ci = cy[d].ci
  BY <1>1, WithRegSame
<1> QED  BY <1>2 DEF MadeOn, Same

LEMMA NewContexts ==
  ASSUME IInv, IInv', ContextsInv, contexts[cur].ci # <<>>,
         NEW k \in Objs, NEW r, NEW s \in Slots, NEW c \in Others,
         FiberNew(k, r, s, c) \/ TaskNew(k, r, s, c)
  PROVE  ContextsInv'
<1>1. /\ c \in Contexts /\ k \in Values /\ 0 \in Values /\ Reg(s) \in Values /\ contexts[c].status = "none"
      /\ heap[k].kind = "free" /\ k \notin LiveOf(heap) /\ LiveOf(heap) \subseteq Objs
  BY Basics, TopOK DEF FiberNew, TaskNew, Contexts, IsNew, IsLive, LiveOf
<1>2. heap \in [Objs -> ObjectsIn(Over(heap), Programs(loaded))]
  BY DEF IInv, HeapOK
<1>3. CASE FiberNew(k, r, s, c)
  <2> DEFINE o == [Object("fiber", 0) EXCEPT !.on = c]
             cx == WithReg([contexts EXCEPT ![c] = Created(k, Reg(s))], cur, r, k)
  <2>1. heap' = [heap EXCEPT ![k] = o] /\ contexts' = cx /\ o.kind = "fiber" /\ o.on = c
    BY <1>3 DEF FiberNew, Instruction, Object
  <2>2. MadeOn(cx, c, k)
    <3> DEFINE p == Reg(s)
               cy == [contexts EXCEPT ![c] = Created(k, p)]
    <3>1. cx = WithReg(cy, cur, r, k)
      OBVIOUS
    <3>2. p \in Values
      BY <1>1
    <3> HIDE DEF cx, p
    <3>3. cy \in [Contexts -> ContextsIn(Values, BOOLEAN)] /\ MadeOn(cy, c, k)
      BY <1>1, <3>2, CreatedIs, CreatedFields
    <3> HIDE DEF cy
    <3> QED  BY <1>1, <3>1, <3>3, MadeInto
  <2>3. cur' = cur /\ running' = running /\ owned' = owned
    BY <1>3 DEF FiberNew, Instruction, scheduler
  <2> HIDE DEF o, cx
  <2>4. \A j \in Objs : heap'[j] = IF j = k THEN o ELSE heap[j]
    BY <1>2, <2>1
  <2> QED  BY <1>1, <2>1, <2>2, <2>3, <2>4, MadeContexts DEF LiveOf, MadeOn
<1>4. CASE TaskNew(k, r, s, c)
  <2> DEFINE o == [Object("task", 0) EXCEPT !.on = c]
             cx == WithReg([contexts EXCEPT ![c] = Created(0, Reg(s))], cur, r, k)
  <2>1. heap' = [heap EXCEPT ![k] = o] /\ contexts' = cx /\ o.kind = "task" /\ o.on = c
    BY <1>4 DEF TaskNew, Object
  <2>2. MadeOn(cx, c, 0)
    <3> DEFINE p == Reg(s)
               cy == [contexts EXCEPT ![c] = Created(0, p)]
    <3>1. cx = WithReg(cy, cur, r, k)
      OBVIOUS
    <3>2. p \in Values
      BY <1>1
    <3> HIDE DEF cx, p
    <3>3. cy \in [Contexts -> ContextsIn(Values, BOOLEAN)] /\ MadeOn(cy, c, 0)
      BY <1>1, <3>2, CreatedIs, CreatedFields
    <3> HIDE DEF cy
    <3> QED  BY <1>1, <3>1, <3>3, MadeInto
  <2>3. cur' = cur /\ running' = running /\ owned' = owned \cup {k}
    BY <1>4 DEF TaskNew
  <2> HIDE DEF o, cx
  <2>4. \A j \in Objs : heap'[j] = IF j = k THEN o ELSE heap[j]
    BY <1>2, <2>1
  <2> QED  BY <1>1, <2>1, <2>2, <2>3, <2>4, MadeContexts DEF LiveOf, MadeOn
<1> QED  BY <1>3, <1>4

LEMMA SpawnContexts ==
  ASSUME IInv, IInv', ContextsInv, NEW p \in Objs, NEW k \in Objs, NEW c \in Others, Spawn(p, k, c)
  PROVE  ContextsInv'
<1>1. /\ c \in Contexts /\ p \in Values /\ 0 \in Values /\ contexts[c].status = "none"
      /\ heap[k].kind = "free" /\ heap[p].kind = "free" /\ p # k /\ LiveOf(heap) \subseteq Objs
  BY Basics, SizesAssumption DEF Spawn, AreNew, Contexts, IsNew, IsLive, LiveOf, Objs
<1>2. heap \in [Objs -> ObjectsIn(Over(heap), Programs(loaded))]
  BY DEF IInv, HeapOK
<1> DEFINE o == [Object("task", 0) EXCEPT !.on = c]
           q == [Object("proc", 0) EXCEPT !.ours = TRUE]
           cx == [contexts EXCEPT ![c] = Created(0, p)]
<1>3. heap' = [heap EXCEPT ![p] = q, ![k] = o] /\ contexts' = cx
  BY DEF Spawn
<1>4. o.kind = "task" /\ o.on = c /\ q.kind = "proc"
  BY DEF Object
<1>5. MadeOn(cx, c, 0)
  BY <1>1, CreatedFields
<1>6. cur' = cur /\ running' = running /\ owned' = owned \cup {k}
  BY DEF Spawn
<1> HIDE DEF o, q, cx
<1>7. \A j \in Objs : heap'[j] = IF j = k THEN o ELSE IF j = p THEN q ELSE heap[j]
  BY <1>1, <1>2, <1>3
<1> QED  BY <1>1, <1>3, <1>4, <1>5, <1>6, <1>7, MadeContexts DEF LiveOf, MadeOn

LEMMA TerminateContexts ==
  ASSUME IInv, IInv', ContextsInv, NEW s, Terminate(s)
  PROVE  ContextsInv' /\ \A d \in Contexts : contexts'[d].ci = IF d = heap[Reg(s)].on THEN <<>> ELSE contexts[d].ci
<1> DEFINE t == Reg(s)
           c == heap[t].on
<1>1. /\ t \in owned /\ t # running /\ cur' = cur /\ running' = running /\ owned' = owned \ {t}
      /\ cur \in Contexts /\ owned \subseteq Objs /\ Others \subseteq Contexts /\ Root \in Contexts
  BY DEF Terminate, IInv, OthersOK, LiveOf, Contexts
<1>2. c \in Others /\ c \in Contexts /\ c # Root
  BY <1>1, SizesAssumption DEF ContextsInv, TasksOwn
<1>3. contexts[c].vmexec = FALSE /\ contexts[c].status \in {"created", "suspended"}
  <2>1. ~contexts[c].vmexec
    BY <1>1, <1>2 DEF ContextsInv, TasksOwn, TaskRuns
  <2>2. contexts[c].vmexec \in BOOLEAN
    BY <1>2 DEF IInv, ContextsOK, ContextsIn
  <2> QED  BY <1>1, <2>1, <2>2 DEF ContextsInv, TasksOwn
<1>4. contexts' = [contexts EXCEPT ![c].status = "terminated", ![c].ci = <<>>,
                                   ![c].stack = [i \in Slots |-> 0]]
  BY DEF Terminate
<1>5. \A k \in Objs : heap'[k].kind = heap[k].kind /\ (heap[k].kind # "env" => heap'[k].on = heap[k].on)
  BY DetachedStays DEF Terminate, IInv
<1>6. \A u \in owned : heap'[u].on = heap[u].on /\ (u # t => heap[u].on # c)
  BY <1>1, <1>5 DEF IInv, OwnedAreTasks, ContextsInv, TasksOwn
<1> HIDE DEF t, c
<1>7. ASSUME NEW d \in Contexts
      PROVE  /\ contexts'[d].status = IF d = c THEN "terminated" ELSE contexts[d].status
             /\ contexts'[d].prev = contexts[d].prev
             /\ contexts'[d].vmexec = contexts[d].vmexec /\ contexts'[d].fib = contexts[d].fib
             /\ contexts'[d].ci = IF d = c THEN <<>> ELSE contexts[d].ci
  BY <1>2, <1>4 DEF IInv, ContextsOK, ContextsIn
<1>8. \A d \in Contexts : Active(d)' <=> Active(d)
  BY <1>3, <1>7 DEF Active
<1>9. Unmade'
  BY <1>7 DEF ContextsInv, Unmade
<1>10. FibersOwn'
  BY <1>5, <1>7, FibersKeep DEF ContextsInv
<1>11. TasksOwn'
  <2>1. ASSUME NEW u \in owned, u # t
        PROVE  /\ heap'[u].on \in Others /\ contexts'[heap'[u].on].fib = 0
               /\ contexts'[heap'[u].on].status \in {"created", "suspended"} \/ contexts'[heap'[u].on].vmexec
    <3>1. /\ heap[u].on \in Others /\ contexts[heap[u].on].fib = 0
          /\ contexts[heap[u].on].status \in {"created", "suspended"} \/ contexts[heap[u].on].vmexec
      BY DEF ContextsInv, TasksOwn
    <3> QED  BY <1>1, <1>6, <1>7, <2>1, <3>1
  <2> QED  BY <1>1, <1>6, <2>1 DEF ContextsInv, TasksOwn
<1>12. OneRuns'
  <2>1. ASSUME NEW d \in Others, Active(d)'
        PROVE  contexts'[d].prev \in Contexts /\ contexts'[contexts'[d].prev].status = "resumed"
    <3>1. contexts[d].prev \in Contexts /\ contexts[contexts[d].prev].status = "resumed"
      BY <1>1, <1>8, <2>1 DEF ContextsInv, OneRuns
    <3> QED  BY <1>1, <1>3, <1>7, <3>1
  <2>2. ASSUME NEW d \in Others, NEW e \in Others, Active(d)', Active(e)', contexts'[d].prev = contexts'[e].prev
        PROVE  d = e
    BY <1>1, <1>7, <1>8, <2>2 DEF ContextsInv, OneRuns
  <2>3. \A d \in Contexts : contexts'[d].status = "running" <=> d = cur'
    BY <1>1, <1>3, <1>7 DEF ContextsInv, OneRuns
  <2>4. Active(Root)'
    BY <1>1, <1>8 DEF ContextsInv, OneRuns
  <2> QED  BY <2>1, <2>2, <2>3, <2>4 DEF OneRuns
<1>13. TaskRuns'
  <2> SUFFICES ASSUME NEW d \in Contexts, contexts'[d].vmexec
               PROVE  /\ running' \in owned' /\ heap'[running'].on = d
                      /\ Active(d)' /\ contexts'[d].prev = Root
    BY DEF TaskRuns
  <2>1. contexts[d].vmexec
    BY <1>7
  <2>2. running \in owned /\ heap[running].on = d /\ Active(d) /\ contexts[d].prev = Root
    BY <2>1 DEF ContextsInv, TaskRuns
  <2> QED  BY <1>1, <1>6, <1>7, <1>8, <2>2
<1> QED  BY <1>9, <1>10, <1>11, <1>12, <1>13, <1>7 DEF ContextsInv, c, t

LEMMA CollectedContexts ==
  ASSUME IInv, Collect, NEW d \in Contexts
  PROVE  /\ d \in Reached => Same(contexts'[d], contexts[d]) /\ contexts'[d].ci = contexts[d].ci
         /\ d \notin Reached =>
              /\ contexts'[d].status = IF contexts[d].status = "none" THEN "none" ELSE "terminated"
              /\ contexts'[d].vmexec = FALSE /\ contexts'[d].fib = 0 /\ contexts'[d].ci = <<>>
<1>1. contexts' = [c \in Contexts |->
                     IF c \in Reached
                     THEN [contexts[c] EXCEPT !.stack = Truncated(@, LiveEnd(c) + 1)]
                     ELSE Context(IF contexts[c].status = "none" THEN "none" ELSE "terminated")]
  BY DEF Collect, Reached
<1>2. contexts[d] \in ContextsIn(Over(heap), Programs(loaded))
  BY DEF IInv, ContextsOK
<1> QED  BY <1>1, <1>2 DEF ContextsIn, Same, Context

LEMMA CollectedObjects ==
  ASSUME IInv, Collect, NEW k \in Objs
  PROVE  /\ k \in Reached => heap'[k].kind = heap[k].kind
                              /\ (heap[k].kind # "env" => heap'[k].on = heap[k].on)
         /\ k \notin Reached => heap'[k].kind = "free"
<1>1. \E envs : heap'[k] = IF k \in Reached THEN Detached(heap, contexts, envs)[k] ELSE Free
  <2>1. PICK marks \in {[x \in Nodes |-> Marks(x)]}, roots \in {Roots} :
          \E marked \in {Marked(marks, roots)} :
            heap' = [j \in Objs |->
                       IF j \in marked
                       THEN Detached(heap, contexts,
                              (UNION {EnvsFrom(c, 1) : c \in Contexts \ marked}) \cap marked)[j]
                       ELSE Swept(heap[j])]
    BY ZenonT(30) DEF Collect
  <2>2. Marked(marks, roots) = Reached
    BY <2>1 DEF Reached
  <2> QED  BY <2>1, <2>2 DEF Swept
<1>2. HeapOK(heap, Programs(loaded))
  BY DEF IInv
<1> QED  BY <1>1, <1>2, DetachedStays DEF Free, Object

\* Which contexts the marking reaches.
LEMMA ReachedContexts ==
  ASSUME IInv
  PROVE  /\ \A d \in Contexts : d \in {cur, Root} \/ Active(d) \/ contexts[d].vmexec => d \in Reached
         /\ owned \subseteq Reached
         /\ \A k \in Reached \cap Objs : heap[k].kind \in {"fiber", "task"} => heap[k].on \in Reached
<1>1. Contexts \subseteq Nodes /\ Live \subseteq Nodes /\ Contexts \cap Objs = {} /\ LiveOf(heap) = Live
  BY SizesAssumption, Basics DEF Nodes
<1>2. \A d \in Contexts : d \in {cur, Root} \/ Active(d) \/ contexts[d].vmexec => d \in Roots
  BY DEF Roots, RootContexts, Active
<1>3. owned \subseteq Roots /\ owned \subseteq Live
  BY <1>1, Basics DEF Roots, IInv, OthersOK
<1>4. ASSUME NEW k \in Reached \cap Objs, heap[k].kind \in {"fiber", "task"} PROVE heap[k].on \in Reached
  <2>1. heap[k].on \in Contexts
    BY <1>4 DEF IInv, HeapOK, WellFormed
  <2>2. heap[k].on \in Marks(k)
    BY <1>1, <1>4 DEF Marks, OfObject
  <2> QED  BY <1>1, <2>1, <2>2, ReachedIsClosed
<1> QED  BY <1>1, <1>2, <1>3, <1>4, ReachedIsClosed

LEMMA CollectContexts ==
  ASSUME IInv, IInv', ContextsInv, Collect, UNCHANGED <<cur, owned, running>>
  PROVE  ContextsInv'
<1>1. cur \in Contexts /\ owned \subseteq Objs /\ Root \in Contexts /\ Others \subseteq Contexts
  BY DEF IInv, OthersOK, LiveOf, Contexts
<1>2. ASSUME NEW d \in Contexts
      PROVE  /\ d \in Reached => Same(contexts'[d], contexts[d]) /\ contexts'[d].ci = contexts[d].ci
             /\ d \notin Reached =>
                  /\ contexts'[d].status = IF contexts[d].status = "none" THEN "none" ELSE "terminated"
                  /\ contexts'[d].vmexec = FALSE /\ contexts'[d].fib = 0 /\ contexts'[d].ci = <<>>
  BY CollectedContexts
<1>3. /\ \A d \in Contexts : d \in {cur, Root} \/ Active(d) \/ contexts[d].vmexec => d \in Reached
      /\ owned \subseteq Reached
      /\ \A k \in Reached \cap Objs : heap[k].kind \in {"fiber", "task"} => heap[k].on \in Reached
  BY ReachedContexts
<1>4. \A k \in Objs : /\ k \in Reached => heap'[k].kind = heap[k].kind
                                           /\ (heap[k].kind # "env" => heap'[k].on = heap[k].on)
                      /\ k \notin Reached => heap'[k].kind = "free"
  BY CollectedObjects
<1>5. \A t \in owned : heap'[t].on = heap[t].on /\ heap[t].on \in Reached
  BY <1>1, <1>3, <1>4 DEF IInv, OwnedAreTasks
<1>6. \A d \in Contexts : Active(d)' <=> Active(d)
  BY <1>2, <1>3 DEF Active, Same
<1>7. Unmade'
  BY <1>2 DEF ContextsInv, Unmade, Same
<1>8. FibersOwn'
  <2> SUFFICES ASSUME NEW k \in Objs, heap'[k].kind = "fiber" PROVE contexts'[heap'[k].on].fib = k
    BY DEF FibersOwn
  <2>1. k \in Reached /\ heap[k].kind = "fiber" /\ heap'[k].on = heap[k].on /\ heap[k].on \in Reached
    BY <1>3, <1>4
  <2>2. heap[k].on \in Contexts /\ contexts[heap[k].on].fib = k
    BY <2>1 DEF IInv, HeapOK, WellFormed, ContextsInv, FibersOwn
  <2> QED  BY <1>2, <2>1, <2>2 DEF Same
<1>9. TasksOwn'
  <2>1. ASSUME NEW t \in owned
        PROVE  /\ heap'[t].on \in Others /\ contexts'[heap'[t].on].fib = 0
               /\ contexts'[heap'[t].on].status \in {"created", "suspended"} \/ contexts'[heap'[t].on].vmexec
    <3>1. /\ heap[t].on \in Others /\ contexts[heap[t].on].fib = 0
          /\ contexts[heap[t].on].status \in {"created", "suspended"} \/ contexts[heap[t].on].vmexec
      BY DEF ContextsInv, TasksOwn
    <3> QED  BY <1>1, <1>2, <1>5, <3>1 DEF Same
  <2> QED  BY <1>1, <1>5, <2>1 DEF ContextsInv, TasksOwn
<1>10. OneRuns'
  <2>1. ASSUME NEW d \in Others, Active(d)'
        PROVE  /\ contexts'[d].prev = contexts[d].prev
               /\ contexts'[d].prev \in Contexts /\ contexts'[contexts'[d].prev].status = "resumed"
    <3>1. Active(d) /\ contexts[d].prev \in Contexts /\ contexts[contexts[d].prev].status = "resumed"
      BY <1>1, <1>6, <2>1 DEF ContextsInv, OneRuns
    <3>2. d \in Reached /\ contexts[d].prev \in Reached
      BY <1>1, <1>3, <3>1 DEF Active
    <3> QED  BY <1>1, <1>2, <3>1, <3>2 DEF Same
  <2>2. ASSUME NEW d \in Others, NEW e \in Others, Active(d)', Active(e)', contexts'[d].prev = contexts'[e].prev
        PROVE  d = e
    BY <1>1, <1>6, <2>1, <2>2 DEF ContextsInv, OneRuns
  <2>3. \A d \in Contexts : contexts'[d].status = "running" <=> d = cur'
    <3> SUFFICES ASSUME NEW d \in Contexts PROVE contexts'[d].status = "running" <=> d = cur'
      OBVIOUS
    <3>1. contexts[d].status = "running" <=> d = cur
      BY DEF ContextsInv, OneRuns
    <3>2. CASE d \in Reached
      BY <1>2, <3>1, <3>2 DEF Same
    <3>3. CASE d \notin Reached
      BY <1>2, <1>3, <3>3
    <3> QED  BY <3>2, <3>3
  <2>4. Active(Root)'
    BY <1>1, <1>6 DEF ContextsInv, OneRuns
  <2> QED  BY <2>1, <2>2, <2>3, <2>4 DEF OneRuns
<1>11. TaskRuns'
  <2> SUFFICES ASSUME NEW d \in Contexts, contexts'[d].vmexec
               PROVE  /\ running' \in owned' /\ heap'[running'].on = d
                      /\ Active(d)' /\ contexts'[d].prev = Root
    BY DEF TaskRuns
  <2>1. contexts[d].vmexec /\ d \in Reached
    BY <1>2 DEF Same
  <2>2. running \in owned /\ heap[running].on = d /\ Active(d) /\ contexts[d].prev = Root
    BY <2>1 DEF ContextsInv, TaskRuns
  <2> QED  BY <1>2, <1>5, <1>6, <2>1, <2>2 DEF Same
<1> QED  BY <1>7, <1>8, <1>9, <1>10, <1>11 DEF ContextsInv

---------------------------------------------------------------------------
(* Environments and their frames. *)

FrameOf(e) ==
  \E i \in 1..Len(contexts[heap[e].on].ci) :
    contexts[heap[e].on].ci[i].env = e /\ contexts[heap[e].on].ci[i].base = heap[e].base

EnvsStay ==
  \A e \in Objs : IsAttached(heap'[e]) =>
    IsAttached(heap[e]) /\ heap'[e].on = heap[e].on /\ heap'[e].base = heap[e].base

FramesStay ==
  \A c \in Contexts : Len(contexts[c].ci) <= Len(contexts'[c].ci)
                       /\ \A i \in 1..Len(contexts[c].ci) : contexts'[c].ci[i] = contexts[c].ci[i]

\* A frame stays, or its environment left it.
LEMMA FramesKept ==
  ASSUME IInv, AttachedEnvsHaveTheirFrames, EnvsStay,
         \A c \in Contexts : \A i \in 1..Len(contexts[c].ci) : contexts[c].ci[i].env \in Objs =>
           \/ i \in 1..Len(contexts'[c].ci) /\ contexts'[c].ci[i].env = contexts[c].ci[i].env
                                            /\ contexts'[c].ci[i].base = contexts[c].ci[i].base
           \/ ~IsAttached(heap'[contexts[c].ci[i].env])
  PROVE  AttachedEnvsHaveTheirFrames'
<1> SUFFICES ASSUME NEW e \in Objs, heap'[e].kind = "env", heap'[e].on # NoCtx
             PROVE  \E i \in 1..Len(contexts'[heap'[e].on].ci) :
                      /\ contexts'[heap'[e].on].ci[i].env = e
                      /\ contexts'[heap'[e].on].ci[i].base = heap'[e].base
  BY DEF AttachedEnvsHaveTheirFrames
<1>1. IsAttached(heap[e]) /\ heap'[e].on = heap[e].on /\ heap'[e].base = heap[e].base
  BY DEF EnvsStay, IsAttached
<1>2. heap[e].on \in Contexts
  BY <1>1 DEF IInv, HeapOK, ObjectsIn, IsAttached
<1>3. PICK i \in 1..Len(contexts[heap[e].on].ci) :
        contexts[heap[e].on].ci[i].env = e /\ contexts[heap[e].on].ci[i].base = heap[e].base
  BY <1>1 DEF AttachedEnvsHaveTheirFrames, IsAttached
<1> QED  BY <1>1, <1>2, <1>3 DEF IsAttached

LEMMA FramesStayed ==
  ASSUME IInv, AttachedEnvsHaveTheirFrames, EnvsStay, FramesStay
  PROVE  AttachedEnvsHaveTheirFrames'
<1>1. \A c \in Contexts : \A i \in 1..Len(contexts[c].ci) :
        i \in 1..Len(contexts'[c].ci) /\ contexts'[c].ci[i] = contexts[c].ci[i]
  <2>1. ASSUME NEW c \in Contexts, NEW i \in 1..Len(contexts[c].ci)
        PROVE  i \in 1..Len(contexts'[c].ci) /\ contexts'[c].ci[i] = contexts[c].ci[i]
    <3>1. Len(contexts[c].ci) \in Nat
      BY LenProperties DEF IInv, ContextsOK, ContextsIn
    <3> QED  BY <3>1 DEF FramesStay
  <2> QED  BY <2>1
<1> QED  BY <1>1, FramesKept

\* The first n frames of a context stay, and the environments of the others
\* leave them.
LEMMA FramesCut ==
  ASSUME IInv, AttachedEnvsHaveTheirFrames, EnvsStay,
         NEW x \in Contexts, NEW n \in 0..Len(contexts[x].ci),
         \A e \in EnvsFrom(x, n + 1) \cap Objs : ~IsAttached(heap'[e]),
         \A c \in Contexts \ {x} : contexts'[c].ci = contexts[c].ci,
         contexts'[x].ci = SubSeq(contexts[x].ci, 1, n)
  PROVE  AttachedEnvsHaveTheirFrames'
<1>1. contexts[x].ci \in Seq(FramesIn(Over(heap), Programs(loaded))) /\ Len(contexts[x].ci) \in Nat
  BY LenProperties DEF IInv, ContextsOK, ContextsIn
<1>2. /\ Len(SubSeq(contexts[x].ci, 1, n)) = n
      /\ \A i \in 1..n : SubSeq(contexts[x].ci, 1, n)[i] = contexts[x].ci[i]
  BY <1>1, SubSeqProperties
<1>3. ASSUME NEW i \in 1..Len(contexts[x].ci), i \notin 1..n PROVE contexts[x].ci[i].env \in EnvsFrom(x, n + 1)
  BY <1>1, <1>3 DEF EnvsFrom
<1> QED  BY <1>2, <1>3, FramesKept

LEMMA SameHeapStays == heap' = heap => EnvsStay
BY DEF EnvsStay

LEMMA DetachedEnvs ==
  ASSUME IInv, NEW envs, heap' = Detached(heap, contexts, envs)
  PROVE  EnvsStay /\ \A e \in envs \cap Objs : ~IsAttached(heap'[e])
<1>1. \A k \in Objs : heap'[k] = IF k \in envs /\ IsAttached(heap[k])
                                 THEN [heap[k] EXCEPT !.ref = EnvGet(heap, contexts, k), !.on = NoCtx]
                                 ELSE heap[k]
  BY DEF Detached
<1>2. \A k \in Objs : heap[k] \in ObjectsIn(Over(heap), Programs(loaded))
  BY DEF IInv, HeapOK
<1> QED  BY <1>1, <1>2 DEF EnvsStay, IsAttached, ObjectsIn

\* An object written to, or made where none was, an environment left out.
LEMMA ObjectStays ==
  ASSUME IInv, NEW k \in Objs, NEW o, ~IsAttached(o), heap' = [heap EXCEPT ![k] = o]
  PROVE  EnvsStay
<1>1. \A e \in Objs : heap'[e] = IF e = k THEN o ELSE heap[e]
  BY DEF IInv, HeapOK
<1> QED  BY <1>1 DEF EnvsStay

LEMMA RegStays ==
  ASSUME IInv, NEW c, NEW r, NEW v, contexts' = WithReg(contexts, c, r, v)
  PROVE  FramesStay
<1>1. ContextsOK(contexts, Over(heap), Programs(loaded))
  BY DEF IInv
<1>2. \A d \in Contexts : contexts'[d].ci = contexts[d].ci
  BY <1>1, WithRegSame
<1>3. \A d \in Contexts : Len(contexts[d].ci) \in Nat
  BY <1>1, LenProperties DEF ContextsOK, ContextsIn
<1> QED  BY <1>2, <1>3 DEF FramesStay

\* A frame pushed on any context.
LEMMA AppendedStay ==
  ASSUME IInv, IInv',
         \A d \in Contexts : \/ contexts'[d].ci = contexts[d].ci
                             \/ \E f : contexts'[d].ci = Append(contexts[d].ci, f)
                             \/ contexts[d].ci = <<>>
  PROVE  FramesStay
<1> SUFFICES ASSUME NEW d \in Contexts
             PROVE  /\ Len(contexts[d].ci) <= Len(contexts'[d].ci)
                    /\ \A i \in 1..Len(contexts[d].ci) : contexts'[d].ci[i] = contexts[d].ci[i]
  BY DEF FramesStay
<1>1. contexts[d].ci \in Seq(FramesIn(Over(heap), Programs(loaded))) /\ Len(contexts[d].ci) \in Nat
  BY LenProperties DEF IInv, ContextsOK, ContextsIn
<1>2. CASE contexts'[d].ci = contexts[d].ci
  BY <1>1, <1>2
<1>3. CASE \E f : contexts'[d].ci = Append(contexts[d].ci, f)
  BY <1>1, <1>3
<1>4. CASE contexts[d].ci = <<>>
  <2>1. Len(contexts'[d].ci) \in Nat
    BY LenProperties DEF IInv, ContextsOK, ContextsIn
  <2> QED  BY <1>4, <2>1
<1> QED  BY <1>2, <1>3, <1>4

There == ContextsInv /\ AttachedEnvsHaveTheirFrames

QuietHeap ==
  /\ EnvsStay
  /\ \A k \in Objs : heap'[k].kind \in {"fiber", "task"}
                       => heap'[k].kind = heap[k].kind /\ heap'[k].on = heap[k].on

\* A frame at most is pushed, on the running context.
QuietFrames ==
  \A c \in Contexts : /\ Same(contexts'[c], contexts[c])
                      /\ \/ contexts'[c].ci = contexts[c].ci
                         \/ c = cur /\ \E f : contexts'[c].ci = Append(contexts[c].ci, f)

LEMMA QuietStep ==
  ASSUME IInv, IInv', There, UNCHANGED <<cur, owned, running>>, QuietHeap, QuietFrames
  PROVE  There'
<1>1. ContextsInv'
  BY QuietContexts DEF There, QuietHeap, QuietFrames
<1>2. FramesStay
  BY AppendedStay DEF QuietFrames
<1> QED  BY <1>1, <1>2, FramesStayed DEF There, QuietHeap

LEMMA QuietUnchanged ==
  heap' = heap => QuietHeap
BY DEF QuietHeap, EnvsStay

LEMMA QuietWrite ==
  ASSUME IInv, NEW k \in Objs, NEW o, o.kind \notin {"env", "fiber", "task"}, heap' = [heap EXCEPT ![k] = o]
  PROVE  QuietHeap
<1>1. \A e \in Objs : heap'[e] = IF e = k THEN o ELSE heap[e]
  BY DEF IInv, HeapOK
<1>2. ~IsAttached(o)
  BY DEF IsAttached
<1> QED  BY <1>1, <1>2, ObjectStays DEF QuietHeap

LEMMA QuietReg ==
  ASSUME IInv, NEW c, NEW r, NEW v, contexts' = WithReg(contexts, c, r, v)
  PROVE  QuietFrames
<1>1. ContextsOK(contexts, Over(heap), Programs(loaded))
  BY DEF IInv
<1> QED  BY <1>1, WithRegSame DEF QuietFrames

LEMMA QuietPush ==
  ASSUME IInv, NEW f, NEW v, contexts' = Push(contexts, cur, f, v)
  PROVE  QuietFrames
<1>1. ContextsOK(contexts, Over(heap), Programs(loaded))
  BY DEF IInv
<1>2. \A c \in Contexts : /\ Same(contexts'[c], contexts[c])
                          /\ contexts'[c].ci = IF c = cur THEN Append(contexts[c].ci, f) ELSE contexts[c].ci
  BY <1>1, PushSame
<1> QED  BY <1>2 DEF QuietFrames

LEMMA MoveThere ==
  ASSUME IInv, IInv', There, NEW c, NEW r, NEW v, Instruction(heap, WithReg(contexts, c, r, v))
  PROVE  There'
<1>1. contexts' = WithReg(contexts, c, r, v) /\ heap' = heap /\ UNCHANGED <<cur, owned, running>>
  BY DEF Instruction, scheduler
<1> QED  BY <1>1, QuietUnchanged, QuietReg, QuietStep

LEMMA PushThere ==
  ASSUME IInv, IInv', There, UNCHANGED <<heap, cur, owned, running>>, NEW f, NEW v,
         contexts' = Push(contexts, cur, f, v)
  PROVE  There'
BY QuietUnchanged, QuietPush, QuietStep

LEMMA StillThere ==
  ASSUME IInv, IInv', There, UNCHANGED <<contexts, cur, owned, running>>, QuietHeap
  PROVE  There'
<1>1. QuietFrames
  BY DEF QuietFrames, Same
<1> QED  BY <1>1, QuietStep

\* The instructions that write a register or push a frame.
LEMMA SimpleThere ==
  ASSUME IInv, IInv', There, contexts[cur].ci # <<>>, NEW r \in Slots, NEW s \in Slots,
         \/ LoadNil(r) \/ Move(r, s) \/ TaskValue(r, s) \/ TaskGet(r) \/ GetUpvar(r) \/ SetUpvar(r)
         \/ Send \/ CallBlock(r) \/ CallNative(r) \/ Except(r)
  PROVE  There'
<1>1. CASE LoadNil(r) \/ Move(r, s) \/ TaskValue(r, s) \/ TaskGet(r) \/ GetUpvar(r)
  BY <1>1, MoveThere DEF LoadNil, Move, TaskValue, TaskGet, GetUpvar
<1>2. CASE SetUpvar(r)
  <2> DEFINE e == heap[Top.proc].ref
  <2>1. CASE heap[e].on = NoCtx
    <3>1. e \in Objs
      <4>1. Top.proc \in Objs /\ e # 0
        BY <1>2, TopOK DEF SetUpvar, RunsBlock, FramesIn
      <4>2. e \in Over(heap)
        BY <4>1 DEF IInv, HeapOK, ObjectsIn
      <4> QED  BY <4>1, <4>2 DEF Over, LiveOf
    <3>2. heap' = [heap EXCEPT ![e].ref = Reg(r)] /\ UNCHANGED <<contexts, cur, owned, running>>
      BY <1>2, <2>1 DEF SetUpvar, Instruction, scheduler
    <3> HIDE DEF e
    <3>3. \A k \in Objs : heap'[k].kind = heap[k].kind /\ heap'[k].on = heap[k].on /\ heap'[k].base = heap[k].base
      BY <3>1, <3>2 DEF IInv, HeapOK, ObjectsIn
    <3>4. QuietHeap
      BY <3>3 DEF QuietHeap, EnvsStay, IsAttached
    <3> QED  BY <3>2, <3>4, StillThere
  <2>2. CASE heap[e].on # NoCtx
    BY <1>2, <2>2, MoveThere DEF SetUpvar
  <2> QED  BY <2>1, <2>2
<1>3. CASE Send \/ CallBlock(r)
  BY <1>3, PushThere DEF Send, CallBlock, Instruction, scheduler
<1>4. CASE CallNative(r)
  BY <1>4, StillThere, QuietUnchanged DEF CallNative, scheduler
<1>5. CASE Except(r)
  BY <1>5, QuietUnchanged, QuietReg, QuietStep DEF Except, scheduler
<1> QED  BY <1>1, <1>2, <1>3, <1>4, <1>5

LEMMA AllocThere ==
  ASSUME IInv, IInv', There, NEW k \in Objs, NEW r, New(k, r) \/ NativeAllocates(k)
  PROVE  There'
<1>1. heap' = [heap EXCEPT ![k] = Object("obj", 0)] /\ UNCHANGED <<cur, owned, running>>
  BY DEF New, NativeAllocates, Instruction, scheduler
<1>2. QuietHeap
  <2>1. Object("obj", 0).kind \notin {"env", "fiber", "task"}
    BY DEF Object
  <2> QED  BY <1>1, <2>1, QuietWrite
<1>3. CASE New(k, r)
  BY <1>1, <1>2, <1>3, QuietReg, QuietStep DEF New, Instruction
<1>4. CASE NativeAllocates(k)
  BY <1>1, <1>2, <1>4, StillThere DEF NativeAllocates
<1> QED  BY <1>3, <1>4

\* Frames taken off the running context.
LEMMA CutThere ==
  ASSUME IInv, IInv', There, UNCHANGED <<cur, owned, running>>, NEW n \in 0..Len(contexts[cur].ci),
         heap' = Detached(heap, contexts, EnvsFrom(cur, n + 1)),
         \A c \in Contexts : Same(contexts'[c], contexts[c]) /\ (c # cur => contexts'[c].ci = contexts[c].ci),
         contexts'[cur].ci = SubSeq(contexts[cur].ci, 1, n)
  PROVE  There'
<1>1. EnvsStay /\ \A e \in EnvsFrom(cur, n + 1) \cap Objs : ~IsAttached(heap'[e])
  BY DetachedEnvs
<1>2. HeapOK(heap, Programs(loaded)) /\ cur \in Contexts
  BY DEF IInv, OthersOK
<1>3. \A k \in Objs : heap'[k].kind = heap[k].kind /\ (heap[k].kind # "env" => heap'[k].on = heap[k].on)
  BY <1>2, DetachedStays
<1>4. ContextsInv'
  <2>1. /\ \A c \in Contexts : Same(contexts'[c], contexts[c])
        /\ \A c \in Contexts \ {cur} : contexts'[c].ci = contexts[c].ci
        /\ \A k \in Objs : heap'[k].kind \in {"fiber", "task"}
                             => heap'[k].kind = heap[k].kind /\ heap'[k].on = heap[k].on
    BY <1>3
  <2> QED  BY <2>1, QuietContexts DEF There
<1>5. AttachedEnvsHaveTheirFrames'
  BY <1>1, <1>2, FramesCut DEF There
<1> QED  BY <1>4, <1>5 DEF There

LEMMA TopEnvs ==
  ASSUME IInv, contexts[cur].ci # <<>>
  PROVE  /\ {Top.env} = EnvsFrom(cur, Len(contexts[cur].ci))
         /\ Len(contexts[cur].ci) \in Nat /\ Len(contexts[cur].ci) - 1 \in 0..Len(contexts[cur].ci)
         /\ (Len(contexts[cur].ci) - 1) + 1 = Len(contexts[cur].ci)
<1>1. /\ Len(contexts[cur].ci) \in Nat /\ Len(contexts[cur].ci) >= 1
      /\ Top = contexts[cur].ci[Len(contexts[cur].ci)]
  BY TopOK
<1>2. \A j : j \in Len(contexts[cur].ci)..Len(contexts[cur].ci) <=> j = Len(contexts[cur].ci)
  BY <1>1
<1>3. {Top.env} = EnvsFrom(cur, Len(contexts[cur].ci))
  BY <1>1, <1>2 DEF EnvsFrom
<1> QED  BY <1>1, <1>3

LEMMA RaiseThere ==
  ASSUME IInv, IInv', There, contexts[cur].ci # <<>>, NEW s, NEW n \in 1..Len(contexts[cur].ci), Raise(s, n)
  PROVE  There'
<1>1. /\ heap' = Detached(heap, contexts, EnvsFrom(cur, n + 1))
      /\ contexts' = [contexts EXCEPT ![cur].ci = SubSeq(@, 1, n)] /\ UNCHANGED <<cur, owned, running>>
      /\ cur \in Contexts /\ n \in 0..Len(contexts[cur].ci)
  BY DEF Raise, scheduler, IInv, OthersOK
<1>2. /\ \A c \in Contexts : Same(contexts'[c], contexts[c]) /\ (c # cur => contexts'[c].ci = contexts[c].ci)
      /\ contexts'[cur].ci = SubSeq(contexts[cur].ci, 1, n)
  BY <1>1 DEF IInv, ContextsOK, ContextsIn, Same
<1> QED  BY <1>1, <1>2, CutThere

LEMMA PoppedSame ==
  ASSUME IInv, NEW c \in Contexts
  PROVE  /\ Same(Popped[c], contexts[c]) /\ (c # cur => Popped[c].ci = contexts[c].ci)
         /\ Popped[cur].ci = SubSeq(contexts[cur].ci, 1, Len(contexts[cur].ci) - 1)
BY DEF Popped, Front, IInv, OthersOK, ContextsOK, ContextsIn, Same

LEMMA ReturnThere ==
  ASSUME IInv, IInv', There, contexts[cur].ci # <<>>, NEW r,
         ReturnToCaller(r) \/ ReturnToNative(r) \/ ReturnToHost(r)
  PROVE  There'
<1>1. /\ heap' = Detached(heap, contexts, {Top.env}) /\ UNCHANGED <<cur, owned, running>>
      /\ cur \in Contexts /\ Root \in Contexts
  BY DEF ReturnToCaller, ReturnToNative, ReturnToHost, Instruction, scheduler, IInv, OthersOK, Contexts
<1>2. ContextsOK(Popped, Over(heap), Programs(loaded))
  BY PoppedOK
<1>3. \A c \in Contexts : Same(contexts'[c], Popped[c]) /\ contexts'[c].ci = Popped[c].ci
  <2>1. CASE ReturnToCaller(r)
    <3>1. contexts' = WithReg(Popped, cur, Top.base, Reg(r))
      BY <2>1 DEF ReturnToCaller, Instruction
    <3> QED  BY <1>2, <3>1, WithRegSame
  <2>2. CASE ReturnToNative(r)
    <3>1. contexts' = [Popped EXCEPT ![cur].stack = Truncated(@, Top.base)]
      BY <2>2 DEF ReturnToNative
    <3> QED  BY <1>1, <1>2, <3>1 DEF ContextsOK, ContextsIn, Same
  <2>3. CASE ReturnToHost(r)
    <3>1. contexts' = [Popped EXCEPT ![Root].stack = [s \in Slots |-> 0]]
      BY <2>3 DEF ReturnToHost
    <3> QED  BY <1>1, <1>2, <3>1 DEF ContextsOK, ContextsIn, Same
  <2> QED  BY <2>1, <2>2, <2>3
<1>4. /\ \A c \in Contexts : Same(contexts'[c], contexts[c]) /\ (c # cur => contexts'[c].ci = contexts[c].ci)
      /\ contexts'[cur].ci = SubSeq(contexts[cur].ci, 1, Len(contexts[cur].ci) - 1)
  BY <1>1, <1>3, PoppedSame DEF Same
<1> DEFINE n == Len(contexts[cur].ci) - 1
<1>5. n \in 0..Len(contexts[cur].ci) /\ heap' = Detached(heap, contexts, EnvsFrom(cur, n + 1))
  BY <1>1, TopEnvs
<1> HIDE DEF n
<1>6. contexts'[cur].ci = SubSeq(contexts[cur].ci, 1, n)
  BY <1>4 DEF n
<1> QED  BY <1>1, <1>4, <1>5, <1>6, CutThere

\* A native's call: its frame, and the register for what it returns.
LEMMA NativesThere ==
  ASSUME IInv, IInv', There, NEW p, NEW v, NativeCallsBlock(p) \/ NativeReturns(v)
  PROVE  There'
<1>1. CASE NativeCallsBlock(p)
  BY <1>1, PushThere DEF NativeCallsBlock, scheduler
<1>2. CASE NativeReturns(v)
  <2>1. contexts' = WithReg(contexts, cur, Top.base, v) /\ UNCHANGED <<heap, cur, owned, running>>
    BY <1>2 DEF NativeReturns, scheduler
  <2> QED  BY <2>1, QuietUnchanged, QuietReg, QuietStep
<1> QED  BY <1>1, <1>2

LEMMA RunThere ==
  ASSUME IInv, IInv', There, Idle, Run
  PROVE  There'
BY PushThere DEF Run, Idle, scheduler

LEMMA GcUnregisterThere ==
  ASSUME IInv, IInv', There, NEW k, GcUnregister(k)
  PROVE  There'
BY StillThere, QuietUnchanged DEF GcUnregister, scheduler

LEMMA CollectThere ==
  ASSUME IInv, IInv', There, Collect, UNCHANGED <<cur, owned, running>>
  PROVE  There'
<1> DEFINE left == UNION {EnvsFrom(c, 1) : c \in Contexts \ Reached}
           saved == Detached(heap, contexts, left \cap Reached)
<1>1. heap' = [k \in Objs |-> IF k \in Reached THEN saved[k] ELSE Free]
  <2>1. PICK marks \in {[x \in Nodes |-> Marks(x)]}, roots \in {Roots} :
          \E marked \in {Marked(marks, roots)} :
            heap' = [k \in Objs |->
                       IF k \in marked
                       THEN Detached(heap, contexts,
                              (UNION {EnvsFrom(c, 1) : c \in Contexts \ marked}) \cap marked)[k]
                       ELSE Swept(heap[k])]
    BY ZenonT(30) DEF Collect
  <2>2. Marked(marks, roots) = Reached
    BY <2>1 DEF Reached
  <2> QED  BY <2>1, <2>2 DEF Swept
<1>2. ASSUME NEW e \in Objs
      PROVE  /\ IsAttached(heap'[e]) => IsAttached(heap[e]) /\ heap'[e].on = heap[e].on /\ heap'[e].base = heap[e].base
             /\ e \in left => ~IsAttached(heap'[e])
  <2>1. heap'[e] = IF e \in Reached
                   THEN IF e \in left \cap Reached /\ IsAttached(heap[e])
                        THEN [heap[e] EXCEPT !.ref = EnvGet(heap, contexts, e), !.on = NoCtx] ELSE heap[e]
                   ELSE Free
    BY <1>1 DEF Detached
  <2>2. heap[e] \in ObjectsIn(Over(heap), Programs(loaded))
    BY DEF IInv, HeapOK
  <2>3. ~IsAttached(Free)
    BY DEF IsAttached, Free, Object
  <2> HIDE DEF left
  <2> QED  BY <2>1, <2>2, <2>3 DEF ObjectsIn, IsAttached
<1>3. ContextsInv'
  BY CollectContexts DEF There
<1>4. AttachedEnvsHaveTheirFrames'
  <2>1. ASSUME NEW c \in Contexts, NEW i \in 1..Len(contexts[c].ci), contexts[c].ci[i].env \in Objs
        PROVE  \/ i \in 1..Len(contexts'[c].ci) /\ contexts'[c].ci[i].env = contexts[c].ci[i].env
                                                /\ contexts'[c].ci[i].base = contexts[c].ci[i].base
               \/ ~IsAttached(heap'[contexts[c].ci[i].env])
    <3>1. CASE c \in Reached
      BY <3>1, CollectedContexts
    <3>2. CASE c \notin Reached
      <4>1. contexts[c].ci[i].env \in EnvsFrom(c, 1)
        BY DEF EnvsFrom
      <4> QED  BY <1>2, <2>1, <3>2, <4>1
    <3> QED  BY <3>1, <3>2
  <2>2. EnvsStay
    BY <1>2 DEF EnvsStay
  <2> QED  BY <2>1, <2>2, FramesKept DEF There
<1> QED  BY <1>3, <1>4 DEF There

LEMMA SwitchThere ==
  ASSUME IInv, IInv', There, contexts[cur].ci # <<>>, NEW s \in Slots, Resume(s) \/ Yield(s) \/ TaskLeaves
  PROVE  There'
<1>1. heap' = heap
  BY DEF Resume, Yield, TaskLeaves
<1>2. /\ ContextsInv'
      /\ \A d \in Contexts : \/ contexts'[d].ci = contexts[d].ci
                             \/ \E f : contexts'[d].ci = Append(contexts[d].ci, f)
  BY ResumeContexts, YieldContexts, TaskLeavesContexts DEF There
<1>3. FramesStay
  BY <1>2, AppendedStay
<1> QED  BY <1>1, <1>2, <1>3, SameHeapStays, FramesStayed DEF There

LEMMA TaskStepThere ==
  ASSUME IInv, IInv', There, cur = Root, NEW t \in owned, TaskStep(t)
  PROVE  There'
<1>1. heap' = heap
  BY DEF TaskStep
<1>2. /\ ContextsInv'
      /\ \A d \in Contexts : \/ contexts'[d].ci = contexts[d].ci
                             \/ \E f : contexts'[d].ci = Append(contexts[d].ci, f)
  BY TaskStepContexts DEF There
<1>3. FramesStay
  BY <1>2, AppendedStay
<1> QED  BY <1>1, <1>2, <1>3, SameHeapStays, FramesStayed DEF There

\* All the frames of a context go.
LEMMA EmptiedFrames ==
  ASSUME IInv, AttachedEnvsHaveTheirFrames, NEW x \in Contexts, EnvsStay,
         \A e \in EnvsFrom(x, 1) \cap Objs : ~IsAttached(heap'[e]),
         \A d \in Contexts : contexts'[d].ci = IF d = x THEN <<>> ELSE contexts[d].ci
  PROVE  AttachedEnvsHaveTheirFrames'
<1>1. ASSUME NEW c \in Contexts, NEW i \in 1..Len(contexts[c].ci), contexts[c].ci[i].env \in Objs
      PROVE  \/ i \in 1..Len(contexts'[c].ci) /\ contexts'[c].ci[i].env = contexts[c].ci[i].env
                                              /\ contexts'[c].ci[i].base = contexts[c].ci[i].base
             \/ ~IsAttached(heap'[contexts[c].ci[i].env])
  <2>1. CASE c # x
    BY <2>1
  <2>2. CASE c = x
    <3>1. contexts[c].ci[i].env \in EnvsFrom(x, 1)
      BY <2>2 DEF EnvsFrom
    <3> QED  BY <1>1, <3>1
  <2> QED  BY <2>1, <2>2
<1> QED  BY <1>1, FramesKept

LEMMA EndsThere ==
  ASSUME IInv, IInv', There, contexts[cur].ci # <<>>, NEW r, ReturnFromTask(r) \/ ReturnFromFiber(r)
  PROVE  There'
<1>1. ContextsInv' /\ \A d \in Contexts : contexts'[d].ci = IF d = cur THEN <<>> ELSE contexts[d].ci
  BY ReturnFromTaskContexts, ReturnFromFiberContexts DEF There
<1>2. cur \in Contexts /\ {Top.env} = EnvsFrom(cur, 1)
  BY TopEnvs DEF ReturnFromTask, ReturnFromFiber, IsLast, IInv, OthersOK
<1> DEFINE hp == Detached(heap, contexts, {Top.env})
<1>3. /\ \A e \in Objs : IsAttached(hp[e]) =>
           IsAttached(heap[e]) /\ hp[e].on = heap[e].on /\ hp[e].base = heap[e].base
      /\ \A e \in {Top.env} \cap Objs : ~IsAttached(hp[e])
  <2>1. \A k \in Objs : heap[k] \in ObjectsIn(Over(heap), Programs(loaded))
    BY DEF IInv, HeapOK
  <2> QED  BY <2>1 DEF Detached, IsAttached, ObjectsIn
<1>4. \A k \in Objs : heap'[k].kind = hp[k].kind /\ heap'[k].on = hp[k].on /\ heap'[k].base = hp[k].base
  <2>1. CASE ReturnFromTask(r)
    <3>1. heap' = [hp EXCEPT ![running].ref = Reg(r)]
      BY <2>1 DEF ReturnFromTask
    <3>2. HeapOK(heap, Programs(loaded)) /\ ContextsOK(contexts, Over(heap), Programs(loaded))
      BY DEF IInv
    <3>3. hp \in [Objs -> ObjectsIn(Over(hp), Programs(loaded))]
      BY <3>2, DetachedOK DEF HeapOK
    <3> HIDE DEF hp
    <3> QED  BY <3>1, <3>3 DEF ObjectsIn
  <2>2. CASE ReturnFromFiber(r)
    BY <2>2 DEF ReturnFromFiber
  <2> QED  BY <2>1, <2>2
<1> HIDE DEF hp
<1>5. EnvsStay /\ \A e \in EnvsFrom(cur, 1) \cap Objs : ~IsAttached(heap'[e])
  BY <1>2, <1>3, <1>4 DEF EnvsStay, IsAttached
<1>6. AttachedEnvsHaveTheirFrames'
  BY <1>1, <1>2, <1>5, EmptiedFrames DEF There
<1> QED  BY <1>1, <1>6 DEF There

LEMMA TerminateThere ==
  ASSUME IInv, IInv', There, NEW s, Terminate(s)
  PROVE  There'
<1> DEFINE c == heap[Reg(s)].on
<1>1. c \in Contexts
  BY DEF Terminate, IInv, OthersOK, OwnedAreTasks, HeapOK, WellFormed, LiveOf
<1>2. ContextsInv' /\ \A d \in Contexts : contexts'[d].ci = IF d = c THEN <<>> ELSE contexts[d].ci
  BY TerminateContexts DEF There
<1>3. heap' = Detached(heap, contexts, EnvsFrom(c, 1))
  BY DEF Terminate
<1> HIDE DEF c
<1>4. EnvsStay /\ \A e \in EnvsFrom(c, 1) \cap Objs : ~IsAttached(heap'[e])
  BY <1>3, DetachedEnvs
<1>5. AttachedEnvsHaveTheirFrames'
  BY <1>1, <1>2, <1>4, EmptiedFrames DEF There
<1> QED  BY <1>2, <1>5 DEF There

\* A Fiber or a Task and its context.
LEMMA MadeThere ==
  ASSUME IInv, IInv', There, NEW c \in Contexts, contexts[c].status = "none", ContextsInv',
         \A d \in Contexts \ {c} : contexts'[d].ci = contexts[d].ci,
         \A e \in Objs : heap'[e] = heap[e] \/ heap'[e].kind # "env"
  PROVE  There'
<1>1. contexts[c].ci = <<>>
  BY DEF There, ContextsInv, Unmade
<1>2. FramesStay
  BY <1>1, AppendedStay
<1>3. EnvsStay
  BY DEF EnvsStay, IsAttached
<1> QED  BY <1>2, <1>3, FramesStayed DEF There

LEMMA NewThere ==
  ASSUME IInv, IInv', There, contexts[cur].ci # <<>>,
         NEW k \in Objs, NEW r, NEW s \in Slots, NEW c \in Others,
         FiberNew(k, r, s, c) \/ TaskNew(k, r, s, c)
  PROVE  There'
<1>1. ContextsInv'
  BY NewContexts DEF There
<1>2. /\ c \in Contexts /\ k \in Values /\ 0 \in Values /\ Reg(s) \in Values /\ contexts[c].status = "none"
  BY Basics, TopOK DEF FiberNew, TaskNew, Contexts
<1>3. \A fib \in {k, 0}, d \in Contexts \ {c} :
        WithReg([contexts EXCEPT ![c] = Created(fib, Reg(s))], cur, r, k)[d].ci = contexts[d].ci
  <2> DEFINE p == Reg(s)
  <2>1. p \in Values
    BY <1>2
  <2> HIDE DEF p
  <2> SUFFICES ASSUME NEW fib \in {k, 0}
               PROVE  \A d \in Contexts \ {c} :
                        WithReg([contexts EXCEPT ![c] = Created(fib, p)], cur, r, k)[d].ci = contexts[d].ci
    BY DEF p
  <2> DEFINE cy == [contexts EXCEPT ![c] = Created(fib, p)]
  <2>2. fib \in Values
    BY <1>2
  <2>3. cy \in [Contexts -> ContextsIn(Values, BOOLEAN)] /\ MadeOn(cy, c, fib)
    BY <1>2, <2>1, <2>2, CreatedIs, CreatedFields
  <2> HIDE DEF cy
  <2>4. MadeOn(WithReg(cy, cur, r, k), c, fib)
    BY <1>2, <2>3, MadeInto
  <2>5. \A d \in Contexts \ {c} : WithReg(cy, cur, r, k)[d].ci = contexts[d].ci
    BY <2>4 DEF MadeOn
  <2> QED  BY <2>5 DEF cy
<1>4. \E fib \in {k, 0} : contexts' = WithReg([contexts EXCEPT ![c] = Created(fib, Reg(s))], cur, r, k)
  BY DEF FiberNew, TaskNew, Instruction
<1>5. \A e \in Objs : heap'[e] = heap[e] \/ heap'[e].kind # "env"
  <2>1. \E kind \in {"fiber", "task"} : heap' = [heap EXCEPT ![k] = [Object(kind, 0) EXCEPT !.on = c]]
    BY DEF FiberNew, TaskNew, Instruction
  <2>2. \A kind \in {"fiber", "task"} : [Object(kind, 0) EXCEPT !.on = c].kind # "env"
    BY DEF Object
  <2>3. heap = [e \in Objs |-> heap[e]]
    BY DEF IInv, HeapOK
  <2> QED  BY <2>1, <2>2, <2>3
<1>6. \A d \in Contexts \ {c} : contexts'[d].ci = contexts[d].ci
  BY <1>3, <1>4
<1> QED  BY <1>1, <1>2, <1>5, <1>6, MadeThere

LEMMA SpawnThere ==
  ASSUME IInv, IInv', There, NEW p \in Objs, NEW k \in Objs, NEW c \in Others, Spawn(p, k, c)
  PROVE  There'
<1>1. ContextsInv'
  BY SpawnContexts DEF There
<1>2. c \in Contexts /\ contexts[c].status = "none" /\ contexts' = [contexts EXCEPT ![c] = Created(0, p)]
  BY DEF Spawn, Contexts
<1>3. \A d \in Contexts \ {c} : contexts'[d].ci = contexts[d].ci
  BY <1>2 DEF IInv, ContextsOK
<1>4. \A e \in Objs : heap'[e] = heap[e] \/ heap'[e].kind # "env"
  <2> DEFINE o == [Object("task", 0) EXCEPT !.on = c]
             q == [Object("proc", 0) EXCEPT !.ours = TRUE]
  <2>1. heap' = [heap EXCEPT ![p] = q, ![k] = o] /\ o.kind # "env" /\ q.kind # "env"
    BY DEF Spawn, Object
  <2> HIDE DEF o, q
  <2> QED  BY <2>1 DEF IInv, HeapOK
<1> QED  BY <1>1, <1>2, <1>3, <1>4, MadeThere

\* The environment the top frame has now is the only one that is new.
LEMMA MakeProcThere ==
  ASSUME IInv, IInv', There, contexts[cur].ci # <<>>, NEW r \in Slots, NEW e \in Objs, NEW k \in Objs,
         MakeProc(r, e, k)
  PROVE  There'
<1> DEFINE n == Len(contexts[cur].ci)
           env == [Object("env", 0) EXCEPT !.on = cur, !.base = Top.base]
           made == IF Top.env = 0 THEN [heap EXCEPT ![e] = env] ELSE heap
           proc == [Object("proc", e) EXCEPT !.ours = Top.ours]
<1>1. /\ cur \in Contexts /\ n \in Nat /\ n >= 1 /\ n \in 1..n /\ Top = contexts[cur].ci[n]
      /\ contexts[cur].ci \in Seq(FramesIn(Over(heap), Programs(loaded)))
      /\ Top.env # 0 => e = Top.env
      /\ 0 \notin Objs
  BY TopOK, Basics DEF IInv, OthersOK, ContextsOK, ContextsIn, MakeProc
<1>2. heap' = [made EXCEPT ![k] = proc] /\ UNCHANGED <<cur, owned, running>>
  BY DEF MakeProc, Instruction, scheduler
<1>3. contexts' = [contexts EXCEPT ![cur].ci[n].env = e, ![cur].stack[r] = k]
  BY DEF MakeProc, Instruction
<1>4. /\ \A c \in Contexts : Same(contexts'[c], contexts[c])
      /\ \A c \in Contexts \ {cur} : contexts'[c].ci = contexts[c].ci
      /\ contexts'[cur].ci = [contexts[cur].ci EXCEPT ![n].env = e]
  BY <1>1, <1>3 DEF IInv, ContextsOK, ContextsIn, Same
<1>5. proc.kind = "proc" /\ env.kind = "env" /\ env.on = cur /\ env.base = Top.base
  BY DEF Object
<1> HIDE DEF env, proc
<1>6. \A j \in Objs : heap'[j] = IF j = k THEN proc ELSE IF Top.env = 0 /\ j = e THEN env ELSE heap[j]
  BY <1>2 DEF IInv, HeapOK
<1>7. ContextsInv'
  <2>1. \A j \in Objs : heap'[j].kind \in {"fiber", "task"}
                          => heap'[j].kind = heap[j].kind /\ heap'[j].on = heap[j].on
    BY <1>5, <1>6
  <2>2. \A c \in Contexts : Same(contexts'[c], contexts[c])
    BY <1>4
  <2>3. \A c \in Contexts \ {cur} : contexts'[c].ci = contexts[c].ci
    BY <1>4
  <2> QED  BY <1>2, <2>1, <2>2, <2>3, QuietContexts DEF There
<1>8. /\ Len(contexts'[cur].ci) = n
      /\ \A i \in 1..n : /\ contexts'[cur].ci[i].base = contexts[cur].ci[i].base
                         /\ contexts'[cur].ci[i].env = IF i = n THEN e ELSE contexts[cur].ci[i].env
  <2> DEFINE ci == contexts[cur].ci
  <2>1. ci \in Seq(FramesIn(Over(heap), Programs(loaded))) /\ \A i \in 1..n : ci[i] \in FramesIn(Over(heap), Programs(loaded))
    BY <1>1, ElementOfSeq
  <2>2. contexts'[cur].ci = [ci EXCEPT ![n].env = e]
    BY <1>4
  <2> HIDE DEF ci
  <2>3. Len([ci EXCEPT ![n].env = e]) = Len(ci) /\ n = Len(ci)
    BY <2>1, <1>1, ExceptSeq DEF ci
  <2>4. \A i \in 1..n : [ci EXCEPT ![n].env = e][i] = IF i = n THEN [ci[i] EXCEPT !.env = e] ELSE ci[i]
    <3>1. DOMAIN ci = 1..n
      BY <2>1, <2>3, LenProperties
    <3> QED  BY <3>1
  <2> QED  BY <2>1, <2>2, <2>3, <2>4 DEF ci, FramesIn
<1>9. AttachedEnvsHaveTheirFrames'
  <2> SUFFICES ASSUME NEW f \in Objs, heap'[f].kind = "env", heap'[f].on # NoCtx
               PROVE  \E i \in 1..Len(contexts'[heap'[f].on].ci) :
                        /\ contexts'[heap'[f].on].ci[i].env = f
                        /\ contexts'[heap'[f].on].ci[i].base = heap'[f].base
    BY DEF AttachedEnvsHaveTheirFrames
  <2>1. f # k
    BY <1>5, <1>6
  <2>2. CASE Top.env = 0 /\ f = e
    <3>1. heap'[f].on = cur /\ heap'[f].base = Top.base
      BY <1>5, <1>6, <2>1, <2>2
    <3> QED  BY <1>1, <1>8, <2>2, <3>1
  <2>3. CASE ~(Top.env = 0 /\ f = e)
    <3>1. heap'[f] = heap[f]
      BY <1>6, <2>1, <2>3
    <3>2. heap[f].on \in Contexts
      BY <3>1 DEF IInv, HeapOK, ObjectsIn
    <3>3. PICK i \in 1..Len(contexts[heap[f].on].ci) :
            contexts[heap[f].on].ci[i].env = f /\ contexts[heap[f].on].ci[i].base = heap[f].base
      BY <3>1 DEF There, AttachedEnvsHaveTheirFrames
    <3>4. CASE heap[f].on # cur
      BY <1>4, <3>1, <3>2, <3>3, <3>4
    <3>5. CASE heap[f].on = cur
      <4>1. i \in 1..n
        BY <3>3, <3>5
      <4>2. i = n => e = f
        BY <1>1, <3>3, <3>5
      <4> QED  BY <1>8, <3>1, <3>3, <3>5, <4>1, <4>2
    <3> QED  BY <3>4, <3>5
  <2> QED  BY <2>2, <2>3
<1> QED  BY <1>7, <1>9 DEF There

LEMMA InitThere == Init => There
<1> SUFFICES ASSUME Init PROVE There
  OBVIOUS
<1>1. /\ heap = [k \in Objs |-> Free] /\ cur = Root /\ owned = {}
      /\ contexts = [c \in Contexts |-> Context(IF c = Root THEN "running" ELSE "none")]
      /\ Root \in Contexts /\ Root \notin Others /\ Others \subseteq Contexts
  BY SizesAssumption DEF Init, Contexts
<1>2. \A c \in Contexts : /\ contexts[c].status = IF c = Root THEN "running" ELSE "none"
                          /\ contexts[c].ci = <<>> /\ contexts[c].fib = 0 /\ contexts[c].vmexec = FALSE
  BY <1>1 DEF Context
<1>3. \A k \in Objs : heap[k].kind = "free"
  BY <1>1 DEF Free, Object
<1>4. Unmade /\ FibersOwn /\ TasksOwn /\ TaskRuns
  BY <1>1, <1>2, <1>3 DEF Unmade, FibersOwn, TasksOwn, TaskRuns
<1>5. OneRuns
  BY <1>1, <1>2 DEF OneRuns, Active
<1>6. AttachedEnvsHaveTheirFrames
  BY <1>3 DEF AttachedEnvsHaveTheirFrames
<1> QED  BY <1>4, <1>5, <1>6 DEF There, ContextsInv

LEMMA InstructionsThere ==
  ASSUME IInv, IInv', There, Instructions
  PROVE  There'
<1>1. contexts[cur].ci # <<>>
  BY DEF Instructions, Executes, InRuby
<1>2. Window(Top) \subseteq Slots /\ Top.base \in Slots
  BY <1>1, TopOK
<1>3. CASE Send
  BY <1>1, <1>2, <1>3, SimpleThere
<1>4. CASE TaskLeaves
  BY <1>1, <1>2, <1>4, SwitchThere
<1>5. ASSUME NEW r \in Window(Top),
             \/ LoadNil(r) \/ GetUpvar(r) \/ SetUpvar(r) \/ CallBlock(r) \/ CallNative(r)
             \/ Return(r) \/ Resume(r) \/ Yield(r) \/ Terminate(r) \/ TaskGet(r)
      PROVE  There'
  <2>1. r \in Slots
    BY <1>2
  <2>2. CASE LoadNil(r) \/ GetUpvar(r) \/ SetUpvar(r) \/ CallBlock(r) \/ CallNative(r) \/ TaskGet(r)
    BY <1>1, <2>1, <2>2, SimpleThere
  <2>3. CASE Return(r)
    BY <1>1, <2>3, ReturnThere, EndsThere DEF Return
  <2>4. CASE Resume(r) \/ Yield(r)
    BY <1>1, <2>1, <2>4, SwitchThere
  <2>5. CASE Terminate(r)
    BY <2>5, TerminateThere
  <2> QED  BY <1>5, <2>2, <2>3, <2>4, <2>5
<1>6. ASSUME NEW r \in Window(Top), NEW k \in Objs, New(k, r) PROVE There'
  BY <1>6, AllocThere
<1>7. ASSUME NEW r \in Window(Top), NEW e \in Objs, NEW k \in Objs, MakeProc(r, e, k) PROVE There'
  BY <1>1, <1>2, <1>7, MakeProcThere
<1>8. ASSUME NEW r \in Window(Top), NEW n \in 1..Len(contexts[cur].ci), Raise(r, n) PROVE There'
  BY <1>1, <1>8, RaiseThere
<1>9. ASSUME NEW r \in Window(Top), NEW s \in Window(Top), Move(r, s) \/ TaskValue(r, s) PROVE There'
  <2>1. r \in Slots /\ s \in Slots
    BY <1>2
  <2> QED  BY <1>1, <1>9, <2>1, SimpleThere
<1>10. ASSUME NEW r \in Window(Top), NEW s \in Window(Top), NEW k \in Objs, NEW c \in Others,
              FiberNew(k, r, s, c) \/ TaskNew(k, r, s, c)
       PROVE  There'
  <2>1. s \in Slots
    BY <1>2
  <2> QED  BY <1>1, <1>10, <2>1, NewThere
<1> QED  BY <1>3, <1>4, <1>5, <1>6, <1>7, <1>8, <1>9, <1>10 DEF Instructions

LEMMA NextThere ==
  ASSUME IInv, IInv', There, [Next]_vars
  PROVE  There'
<1>1. CASE GcMaybe
  BY <1>1, CollectThere DEF GcMaybe
<1>2. CASE Instructions
  BY <1>2, InstructionsThere
<1>3. CASE Handlers
  <2>1. PICK r \in Window(Top) : Except(r)
    BY <1>3 DEF Handlers
  <2>2. contexts[cur].ci # <<>>
    BY <1>3 DEF Handlers, InRuby
  <2>3. r \in Slots
    BY <2>2, TopOK
  <2> QED  BY <2>1, <2>2, <2>3, SimpleThere
<1>4. CASE Natives
  BY <1>4, AllocThere, NativesThere DEF Natives
<1>5. CASE Host
  <2>1. CASE Unload
    <3>1. CASE Users(heap, contexts) /\ natives = <<>>
      BY <2>1, <3>1, CollectThere DEF Unload
    <3>2. CASE ~(Users(heap, contexts) /\ natives = <<>>)
      BY <2>1, <3>2, StillThere, QuietUnchanged DEF Unload
    <3> QED  BY <3>1, <3>2
  <2>2. ASSUME NEW p \in Objs, NEW k \in Objs, NEW c \in Others, Spawn(p, k, c) PROVE There'
    BY <2>2, SpawnThere
  <2>3. CASE Idle /\ Run
    BY <2>3, RunThere
  <2>4. ASSUME Idle, NEW t \in owned, TaskStep(t) PROVE There'
    BY <2>4, TaskStepThere DEF Idle
  <2>5. ASSUME NEW k \in gc_registered, GcUnregister(k) PROVE There'
    BY <2>5, GcUnregisterThere
  <2> QED  BY <1>5, <2>1, <2>2, <2>3, <2>4, <2>5 DEF Host
<1>6. CASE UNCHANGED vars
  BY <1>6, StillThere, QuietUnchanged DEF vars, scheduler
<1> QED  BY <1>1, <1>2, <1>3, <1>4, <1>5, <1>6 DEF Next

\* No collection, switch, return, raise or end of a task empties a context that
\* one of its environments, a Fiber, a queued task or the running context's way
\* back still needs, and an environment on the stack has a frame of its own.
THEOREM ContextsStay == Spec => []ContextsAreThere
<1>1. Init => IInv /\ There
  BY InitOK, InitThere
<1>2. (IInv /\ There) /\ [Next]_vars => (IInv /\ There)'
  BY NextOK, NextThere
<1>3. IInv /\ There => ContextsAreThere
  BY ContextsInvUse DEF There, ContextsAreThere
<1> QED  BY <1>1, <1>2, <1>3, PTL DEF Spec
===========================================================================
