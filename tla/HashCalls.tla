----------------------------- MODULE HashCalls ------------------------------
(***************************************************************************)
(* The calls of a Hash, src/src/hashtable.rs: searches, stores, deletes,   *)
(* shifts, rehashes and scans of one table.  A key that is a Ruby object   *)
(* answers `hash` and `eql?` in Ruby, in the middle of the call: that Ruby *)
(* may store into, delete from or clear the same Hash, change what a key   *)
(* answers, or raise.  A call is taken step by step up to each question    *)
(* and resumed at the answer, after the checks the code makes there.       *)
(*                                                                         *)
(* What Ruby does to the Hash while it is asked is taken as whole calls    *)
(* (PlainSet, PlainDelete, clear), at most MaxNested of them and of        *)
(* changed keys in one call.                                               *)
(***************************************************************************)
EXTENDS HashTable

CONSTANTS
  NativeKeys,   \* keys compared and hashed without Ruby
  ObjKeys,      \* keys that answer hash and eql? in Ruby
  Faces,        \* what an object key can answer by: equal faces are eql?
  CodeOf,       \* the hash code of a face, of a native key
  Vals,
  MaxNested,    \* what Ruby does in one call (a bound of the instance)
  MaxSize,      \* a store begins below this many entries (likewise)
  RehashIsDisturbed  \* Ruby may change the Hash in a rehash, or raise in an
                     \* indexed one

ASSUME KeysAssumption ==
  /\ NativeKeys \cap (ObjKeys \cup Faces) = {}
  /\ CodeOf \in [NativeKeys \cup Faces -> Nat]
  /\ MaxNested \in Nat /\ MaxSize \in Nat /\ RehashIsDisturbed \in BOOLEAN

Keys == NativeKeys \cup ObjKeys

VARIABLES
  tab,      \* the table
  face,     \* what each object key answers by
  call,     \* the call in progress
  answer,   \* what the last call answered
  sure      \* nothing was done that lets a search miss an entry

vars == <<tab, face, call, answer, sure>>

Code(k) == CodeOf[IF k \in ObjKeys THEN face[k] ELSE k]
Eql(a, b) == a = b \/ (a \in ObjKeys /\ b \in ObjKeys /\ face[a] = face[b])

\* a answers eql?(b) in Ruby (h_obj_eql and mrb_eql answer the rest).
AsksRuby(a, b) == a \in ObjKeys /\ a # b

Key(p) == tab.entries[p].key
Stored(k) == \E p \in 1..Size(tab) : Key(p) = k

NoCall ==
  [op |-> "none", key |-> "none", val |-> "none", pc |-> "idle", p |-> 0, n |-> 0,
   left |-> 0, code |-> 0, slot |-> 0, stored |-> "none", asks |-> "nothing",
   before |-> "none", capa |-> 0, from |-> 0, again |-> FALSE, nested |-> 0,
   dirty |-> FALSE]

Did(what, k, e) == [what |-> what, key |-> k, entry |-> e]
Nothing(what) == Did(what, "none", <<>>)

\* A table with_capa makes: past ArMax it starts with an index.
WithCapa(n) ==
  LET t == [EmptyTable(0) EXCEPT !.capa = n]
  IN  IF n > ArMax THEN HtReset(t, BitFor(n)) ELSE t

Init ==
  /\ tab \in {WithCapa(n) : n \in 0 .. (ArMax + 1)}
  /\ face \in [ObjKeys -> Faces]
  /\ call = NoCall /\ answer = Nothing("none") /\ sure = TRUE

-----------------------------------------------------------------------------
(* Whole calls, every question answered at once. *)

\* A table with an index of that width holding every entry (h_rebuild).
Reindexed(t, bit) ==
  LET filled[p \in 0..Size(t)] ==
        IF p = 0 THEN [HtReset(t, bit) EXCEPT !.used = Size(t)]
        ELSE Place(filled[p - 1], Code(t.entries[p].key), p)
  IN  filled[Size(t)]

\* The buckets a probe for k reads until it ends, first to last: the last is
\* an empty one or holds an entry that matches; <<>> if no bucket ends it.
Probed(t, k) ==
  LET at(n) == Bucket(t, ProbeAt(t, Code(k), n))
      ends == {n \in Buckets(t) :
                 \/ at(n) = Empty
                 \/ at(n) \in 1..Size(t) /\ Eql(k, t.entries[at(n)].key)}
  IN  IF ends = {} THEN <<>>
      ELSE LET n == CHOOSE n \in ends : \A m \in ends : n <= m
           IN  <<ProbeAt(t, Code(k), n), at(n)>>

\* Where a search for k ends, 0 for nowhere (find_native, and h_find when the
\* Ruby it asks only answers).
PlainFind(t, k) ==
  IF Indexed(t)
  THEN LET probed == Probed(t, k) IN IF probed = <<>> THEN 0 ELSE probed[2]
  ELSE LET hits == {p \in 1..Size(t) : Eql(k, t.entries[p].key)}
       IN  IF hits = {} THEN 0 ELSE CHOOSE p \in hits : \A q \in hits : p <= q

HtStore(t, k, v) ==
  LET probed == Probed(t, k)
  IN  IF probed = <<>> THEN t
      ELSE IF probed[2] # Empty THEN SetValueAt(t, probed[2], v)
      ELSE HtPush(t, probed[1], k, v)

ArStore(t, k, v) ==
  LET p == PlainFind(t, k)
  IN  IF p # 0 THEN SetValueAt(t, p, v)
      ELSE IF ArIsFull(t) THEN HtStore(Reindexed(t, InitBit), k, v)
      ELSE ArPush(ArMakeRoom(t), k, v)

PlainSet(t, k, v) ==
  IF ~Indexed(t) THEN ArStore(t, k, v)
  ELSE IF HtShrinks(t) THEN ArStore(ToAr(t), k, v)
  ELSE IF HtFits(t) THEN HtStore(t, k, v)
  ELSE HtStore(Reindexed(HtRoom(t), HtRoomBit(t)), k, v)

PlainDelete(t, k) ==
  LET p == PlainFind(t, k) IN IF p = 0 THEN t ELSE RemoveEntry(t, p)

-----------------------------------------------------------------------------
(* The steps of a call. *)

Running(pc) == call.pc = pc /\ call.asks = "nothing"

\* A call ends.  An epoch is only compared within one call, and starts over.
Leave(t, ans) ==
  /\ tab' = [t EXCEPT !.epoch = 0]
  /\ call' = NoCall /\ answer' = ans
  /\ UNCHANGED face

Go(t, c) ==
  tab' = t /\ call' = c /\ answer' = Nothing("none") /\ UNCHANGED <<face, sure>>

\* A question goes to Ruby: what is checked at the answer is remembered.
AskHash(k, c) == Go(tab, [c EXCEPT !.asks = "hash", !.stored = k, !.before = Check(tab)])
AskEql(p, c) == Go(tab, [c EXCEPT !.asks = "eql", !.slot = tab.slots[p],
                                  !.stored = Key(p), !.before = Check(tab)])

\* An error leaves the table as it is.  While an index is being filled, and
\* while an indexed rehash is under way, entries may be left out of it.
Fails(what) ==
  /\ Leave(tab, Nothing(what))
  /\ sure' = (sure /\ call.pc # "index" /\ ~(call.pc \in {"take", "dups"} /\ Indexed(tab)))

\* The search found entry p.
Hit(p) ==
  /\ Leave(CASE call.op = "set" -> SetValueAt(tab, p, call.val)
             [] call.op = "delete" -> RemoveEntry(tab, p)
             [] OTHER -> tab,
           Did("hit", call.key, tab.entries[p]))
  /\ UNCHANGED sure

\* The search for anything but a store found nothing.
Absent ==
  /\ Leave(tab, Did(IF call.dirty THEN "stale" ELSE "miss", call.key, <<>>))
  /\ UNCHANGED sure

StartIndex(t, bit, again) ==
  Go([HtReset(t, bit) EXCEPT !.used = Size(t)],
     [call EXCEPT !.pc = "index", !.p = 1, !.again = again])

\* A new entry is written: at the end, or at the end and in bucket b.
Appended(t) ==
  /\ Leave(t, Did("new", call.key, <<>>))
  /\ sure' = (sure /\ ~call.dirty)

BeginSearch(op, k, v) ==
  /\ call = NoCall
  /\ Go(tab, [NoCall EXCEPT
                !.op = op, !.key = k, !.val = v, !.p = 1, !.left = Size(tab),
                !.pc = IF ~Indexed(tab) THEN "walk" ELSE IF op = "set" THEN "room" ELSE "code"])

\* An unindexed table is walked by slot, as many entries as there were.  A
\* step goes to the first entry that matches, or whose comparison asks Ruby.
First(s) == CHOOSE n \in s : \A m \in s : n <= m
WalkOn == [call EXCEPT !.asks = "nothing", !.before = "none", !.slot = 0,
                       !.stored = "none", !.p = SlotsAfter(tab, call.slot)]
Walk ==
  /\ Running("walk")
  /\ LET stops == {p \in call.p .. AtMost(call.p + call.left - 1, Size(tab)) :
                     AsksRuby(call.key, Key(p)) \/ Key(p) = call.key}
         p == First(stops)
     IN  IF stops # {}
         THEN IF Key(p) = call.key THEN Hit(p)
              ELSE AskEql(p, [call EXCEPT !.left = @ - (p - call.p) - 1])
         ELSE IF call.op # "set" THEN Absent
         ELSE IF ArIsFull(tab) THEN StartIndex(tab, InitBit, TRUE)
         ELSE Appended(ArPush(ArMakeRoom(tab), call.key, call.val))

\* The key's code is asked for; a native key has it.
StartProbe(code) == [call EXCEPT !.pc = "probe", !.n = 0, !.code = code,
                                 !.asks = "nothing", !.before = "none"]
AskCode ==
  IF call.key \in ObjKeys THEN AskHash("none", [call EXCEPT !.pc = "code"])
  ELSE Go(tab, StartProbe(Code(call.key)))

\* ht_set's room: the index is rebuilt, given up or kept.
Room ==
  /\ Running("room")
  /\ IF HtShrinks(tab)
     THEN Go(ToAr(tab), [call EXCEPT !.pc = "walk", !.p = 1, !.left = Size(tab)])
     ELSE IF HtFits(tab) THEN AskCode
     ELSE StartIndex(HtRoom(tab), HtRoomBit(tab), FALSE)

SearchIndex == Running("code") /\ AskCode

ProbeOn == [call EXCEPT !.asks = "nothing", !.before = "none", !.slot = 0,
                        !.stored = "none", !.n = @ + 1]
Probe ==
  /\ Running("probe")
  /\ LET at(n) == Bucket(tab, ProbeAt(tab, call.code, n))
         stops == {n \in Buckets(tab) :
                     /\ n >= call.n
                     /\ \/ at(n) = Empty
                        \/ at(n) \in 1..Size(tab)
                           /\ (AsksRuby(call.key, Key(at(n))) \/ Key(at(n)) = call.key)}
         n == First(stops)
     IN  IF stops # {} /\ at(n) # Empty
         THEN IF Key(at(n)) = call.key THEN Hit(at(n)) ELSE AskEql(at(n), [call EXCEPT !.n = n])
         ELSE IF call.op # "set" THEN Absent
         ELSE IF stops = {} THEN Leave(tab, Nothing("dropped")) /\ UNCHANGED sure
         ELSE IF tab.used = EaMax THEN Fails("too big")
         ELSE Appended(HtPush(tab, ProbeAt(tab, call.code, n), call.key, call.val))

\* h_rebuild's loop: each key is asked for its code and placed.
IndexOn(code) ==
  Go(IF call.p <= Size(tab) THEN Place(tab, code, call.p) ELSE tab,
     [call EXCEPT !.p = @ + 1, !.asks = "nothing", !.before = "none", !.stored = "none"])
Index ==
  /\ Running("index")
  /\ IF call.p > Size(tab) THEN Go(tab, [call EXCEPT !.pc = IF call.again THEN "room" ELSE "code"])
     ELSE IF Key(call.p) \in ObjKeys THEN AskHash(Key(call.p), call)
     ELSE IndexOn(Code(Key(call.p)))

\* h_shift: an indexed Hash asks the first key for its code, then takes the
\* entry that is first by then.
TakeFirst ==
  /\ IF Size(tab) = 0 THEN Leave(tab, Nothing("nil"))
     ELSE Leave(RemoveEntry(tab, 1), Did("shift", "none", tab.entries[1]))
  /\ UNCHANGED sure
Shift ==
  /\ call = NoCall
  /\ IF Size(tab) > 0 /\ Indexed(tab) /\ Key(1) \in ObjKeys
     THEN Go(tab, [NoCall EXCEPT !.op = "shift", !.pc = "shift", !.asks = "hash",
                                 !.stored = Key(1), !.before = Check(tab)])
     ELSE TakeFirst

\* Changes without a search: clear, compact, and a replace by a copy.
Clear ==
  /\ call = NoCall
  /\ Leave(EmptyTable(0), Nothing("clear")) /\ sure' = TRUE

-----------------------------------------------------------------------------
(* Rehash: every entry is stored again in order. *)

BeginRehash ==
  /\ call = NoCall
  /\ LET ar == IF Indexed(tab) /\ Size(tab) <= ArMax THEN ToAr(tab) ELSE tab
         t == IF Indexed(ar) THEN [HtReset(ar, BitFor(Size(ar))) EXCEPT !.used = 0] ELSE ar
     IN  IF Size(tab) = 0 THEN Leave(EmptyTable(0), Nothing("rehash")) /\ sure' = TRUE
         ELSE Go(t, [NoCall EXCEPT !.op = "rehash", !.pc = "take", !.p = 1,
                                   !.left = Size(t), !.capa = ar.capa])

\* The entries before position p are written; the one there is next.
Taken(code) ==
  [call EXCEPT !.pc = "dups", !.asks = "nothing", !.before = "none", !.code = code,
               !.n = IF Indexed(tab) THEN 0 ELSE 1]
Rehashed ==
  LET t == [tab EXCEPT !.used = Size(tab)]
  IN  /\ Leave(IF Indexed(t) /\ Size(t) <= ArMax THEN ToAr(t) ELSE AdjustEa(t, Size(t), call.capa),
               Nothing("rehash"))
      /\ sure' = (sure \/ ~call.dirty)
Take ==
  /\ Running("take")
  /\ IF call.left = 0 \/ call.p > Size(tab) THEN Rehashed
     ELSE LET next == [call EXCEPT !.key = Key(call.p), !.from = tab.slots[call.p],
                                   !.left = @ - 1]
          IN  IF Indexed(tab) /\ Key(call.p) \in ObjKeys THEN AskHash("none", next)
              ELSE Go(tab, [next EXCEPT !.pc = "dups",
                             !.code = IF Indexed(tab) THEN Code(Key(call.p)) ELSE 0,
                             !.n = IF Indexed(tab) THEN 0 ELSE 1])

\* The entry being moved is where the questions left it, if they did: it gives
\* its value to the duplicate, or is written at p.
NextEntry == [call EXCEPT !.pc = "take", !.n = 0, !.code = 0, !.key = "none", !.from = 0,
                          !.asks = "nothing", !.before = "none", !.slot = 0, !.stored = "none"]
Merge(dup) ==
  LET at == SlotHolds(tab, call.from, call.key)
  IN  IF at = {} THEN Fails("modified")
      ELSE LET r == CHOOSE r \in at : TRUE
           IN  Go(RemoveEntry(SetValueAt(tab, dup, tab.entries[r].val), r), NextEntry)
Write(b) ==
  LET at == SlotHolds(tab, call.from, call.key)
      w == call.p
  IN  IF at = {} THEN Fails("modified")
      ELSE LET r == CHOOSE r \in at : TRUE
               t == IF r = w THEN tab ELSE MoveTo(tab, r, w)
           IN  Go([t EXCEPT !.slots[w] = w - 1,
                            !.ib = IF b \in DOMAIN @ THEN [@ EXCEPT ![b] = w] ELSE @],
                  [NextEntry EXCEPT !.p = w + 1])

\* The entries written so far are asked whether they are the one being moved.
Dups ==
  /\ Running("dups")
  /\ LET b == IF Indexed(tab) THEN ProbeAt(tab, call.code, call.n) ELSE 0
         v == IF Indexed(tab) THEN Bucket(tab, b) ELSE call.n
     IN  IF \/ Indexed(tab) /\ call.n \in Buckets(tab) /\ v \in {Empty, Deleted}
            \/ ~Indexed(tab) /\ call.n >= call.p
         THEN Write(b)
         ELSE IF Indexed(tab) /\ call.n \notin Buckets(tab) THEN Write(0)
         ELSE IF v > Size(tab) THEN Go(tab, ProbeOn)
         ELSE IF AsksRuby(call.key, Key(v)) THEN AskEql(v, call)
         ELSE IF Key(v) = call.key THEN Merge(v)
         ELSE Go(tab, ProbeOn)

-----------------------------------------------------------------------------
(* A scan by key (h_assoc): the stored keys are asked, by slot. *)

BeginScan(k) ==
  /\ call = NoCall
  /\ Go(tab, [NoCall EXCEPT !.op = "assoc", !.key = k, !.pc = "scan", !.p = 1, !.left = Size(tab)])

Scan ==
  /\ Running("scan")
  /\ IF call.left = 0 \/ call.p > Size(tab)
     THEN Leave(tab, Did(IF call.dirty THEN "stale" ELSE "none eql", call.key, <<>>)) /\ UNCHANGED sure
     ELSE IF AsksRuby(Key(call.p), call.key) THEN AskEql(call.p, [call EXCEPT !.left = @ - 1])
     ELSE IF Key(call.p) = call.key THEN Hit(call.p)
     ELSE Go(tab, [call EXCEPT !.left = @ - 1, !.p = @ + 1])

-----------------------------------------------------------------------------
(* Ruby answers. *)

Unchanged == Check(tab) = call.before

AnswerHash ==
  /\ call.asks = "hash"
  /\ IF ~Unchanged THEN Fails("modified")
     ELSE CASE call.pc = "code" -> Go(tab, StartProbe(Code(call.key)))
            [] call.pc = "index" -> IndexOn(Code(call.stored))
            [] call.pc = "take" -> Go(tab, Taken(Code(call.key)))
            [] call.pc = "shift" -> TakeFirst

\* A yes counts if the slot the stored key was read from still holds it
\* (h_check_vacated): the entry is where that slot is now.
AnswerEql ==
  /\ call.asks = "eql"
  /\ LET at == SlotHolds(tab, call.slot, call.stored)
     IN  IF ~Unchanged THEN Fails("modified")
         ELSE IF ~Eql(call.key, call.stored)
         THEN Go(tab, IF call.pc \in {"walk", "scan"} THEN WalkOn ELSE ProbeOn)
         ELSE IF at = {} THEN Fails("modified")
         ELSE IF call.pc = "dups" THEN Merge(CHOOSE p \in at : TRUE)
         ELSE Hit(CHOOSE p \in at : TRUE)

\* Ruby raises instead.
Raises ==
  /\ call.asks # "nothing"
  /\ call.pc \in {"take", "dups"} /\ Indexed(tab) => RehashIsDisturbed
  /\ Fails("raised")

-----------------------------------------------------------------------------
(* What Ruby does before it answers, and between calls. *)

\* Where a change made now leaves the call in doubt: the search has passed
\* entries by, or the rehash has.
Searching == call.pc \in {"walk", "probe", "take", "dups", "scan"}

Nested(t) ==
  /\ call.asks # "nothing" /\ call.nested < MaxNested
  /\ call.pc \in {"take", "dups"} => RehashIsDisturbed
  /\ tab' = t
  /\ call' = [call EXCEPT !.nested = @ + 1, !.dirty = @ \/ Searching]
  /\ UNCHANGED <<face, answer>>

\* While an index is being filled a whole call can miss what is not in it yet.
Partial == call.pc \in {"index", "take", "dups"}

NestedSet(k, v) == Size(tab) < MaxSize /\ Nested(PlainSet(tab, k, v)) /\ sure' = (sure /\ ~Partial)
NestedDelete(k) == Nested(PlainDelete(tab, k)) /\ sure' = (sure /\ ~Partial)
NestedClear == Nested(EmptyTable(tab.epoch + 1)) /\ sure' = (sure /\ ~Partial)

\* What a key answers by is changed: a stored one is in the wrong place then.
Mutate(k, f) ==
  /\ k \in ObjKeys /\ f # face[k]
  /\ IF call = NoCall THEN UNCHANGED call
     ELSE /\ call.asks # "nothing" /\ call.nested < MaxNested
          /\ call' = [call EXCEPT !.nested = @ + 1, !.dirty = @ \/ Searching]
  /\ face' = [face EXCEPT ![k] = f]
  /\ sure' = (sure /\ ~Stored(k))
  /\ UNCHANGED <<tab, answer>>

-----------------------------------------------------------------------------
Step ==
  \/ Walk \/ Room \/ SearchIndex \/ Probe \/ Index \/ Take \/ Dups \/ Scan

Ruby ==
  \/ AnswerHash \/ AnswerEql \/ Raises \/ NestedClear
  \/ \E k \in Keys, v \in Vals : NestedSet(k, v)
  \/ \E k \in Keys : NestedDelete(k)

Begin ==
  \/ Shift \/ Clear \/ BeginRehash
  \/ \E k \in Keys : BeginScan(k)
  \/ \E k \in Keys : BeginSearch("get", k, "none") \/ BeginSearch("delete", k, "none")
  \/ \E k \in Keys, v \in Vals : Size(tab) < MaxSize /\ BeginSearch("set", k, v)

Next == Step \/ Ruby \/ Begin \/ \E k \in ObjKeys, f \in Faces : Mutate(k, f)

Spec == Init /\ [][Next]_vars

-----------------------------------------------------------------------------
(* What a Hash keeps. *)

TableOK(t) ==
  /\ t.entries \in Seq([key : Keys, val : Vals])
  /\ t.slots \in Seq(Nat) /\ Len(t.slots) = Len(t.entries)
  /\ t.used \in Nat /\ t.capa \in Nat /\ t.bit \in Nat /\ t.epoch \in Nat
  /\ t.ib \in [IF Indexed(t) THEN Buckets(t) ELSE {} -> Nat \cup {Deleted}]

\* A table is entries with their slots, sizes, and buckets of the index's
\* width, none of them without one.
TypeOK ==
  /\ TableOK(tab)
  /\ face \in [ObjKeys -> Faces]
  /\ call.pc \in {"idle", "walk", "room", "code", "probe", "index", "take", "dups", "scan", "shift"}
  /\ call.asks \in {"nothing", "hash", "eql"} /\ call.nested \in 0..MaxNested
  /\ call.dirty \in BOOLEAN /\ sure \in BOOLEAN

\* The slots of the entries ascend, below n_used: where the binary searches of
\* slots_after and pos_of_slot find an entry, it is.  A rehash under way has
\* n_used at 0 and writes the slots again.
SlotsAscend ==
  /\ \A p, q \in 1..Size(tab) : p < q => tab.slots[p] < tab.slots[q]
  /\ call.op # "rehash" => \A p \in 1..Size(tab) : tab.slots[p] < tab.used

\* Between calls each entry's position in the entry array is past the one
\* before it, whatever Ruby did in a rehash and wherever it ended one.  The code
\* does not keep this where RehashIsDisturbed is TRUE.
EntryListIsWhole ==
  call = NoCall => \A p, q \in 1..Size(tab) : p < q => tab.slots[p] < tab.slots[q]

\* The places used are places there are, between calls.
FitsInCapa == call = NoCall => tab.used <= tab.capa

\* The entry list in one piece: the entries in the places there are, in order.
EntriesAreSound == TypeOK /\ SlotsAscend /\ FitsInCapa

\* Every bucket with a position has one of an entry there is.
BucketsPointAtEntries ==
  \A b \in DOMAIN tab.ib : tab.ib[b] \in {Empty, Deleted} \cup 1..Size(tab)

\* An index keeps an empty bucket, so that every probe comes to an end and a
\* store finds where to go, whatever Ruby does to the table in the middle.
ProbesEnd ==
  Indexed(tab) => \E b \in DOMAIN tab.ib : tab.ib[b] = Empty

\* As long as no stored key was changed and no index left half filled, a
\* search for the key of an entry comes to that entry.
EntriesAreFound ==
  sure /\ call.pc \notin {"index", "take", "dups"} =>
    \A p \in 1..Size(tab) : PlainFind(tab, Key(p)) = p

\* The index and the entries agree, and every search in it comes to an end.
IndexIsExact == ProbesEnd /\ BucketsPointAtEntries /\ EntriesAreFound

\* The calls implement the ordered dictionary: whatever Ruby does in their
\* middle, a hit is an entry eql? to the key at that moment, a store writes to
\* such an entry or adds one, a delete takes such an entry, and a miss is one.
Dict == INSTANCE OrderedDict WITH dict <- tab.entries
ImplementsDict == Dict!Spec
=============================================================================
