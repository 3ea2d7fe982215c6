----------------------------- MODULE HashTable ------------------------------
(***************************************************************************)
(* The table of a Hash, src/src/hashtable.rs: the live entries in          *)
(* insertion order, each with the slot it would have in mruby's entry      *)
(* array, and past ArMax entries an open-addressing index of positions.    *)
(* Operators only: HashCalls has the calls that use them, and the Ruby     *)
(* that runs in the middle of one.  A table is a record                    *)
(*                                                                         *)
(*   entries  the live entries, [key, val], in insertion order             *)
(*   slots    each entry's place in mruby's entry array, holes counted     *)
(*   used     places used, live or deleted (n_used)                        *)
(*   capa     the entry array's capacity (ea_capa)                         *)
(*   bit      log2 of the number of buckets, 0 while there is no index     *)
(*   ib       the buckets: a position in entries, Empty or Deleted         *)
(*   epoch    bumped where the table is made afresh                        *)
(*                                                                         *)
(* Positions count from 1 here, from 0 in the code.                        *)
(***************************************************************************)
EXTENDS Integers, Sequences, FiniteSets

CONSTANTS
  ArMax,      \* AR_MAX_SIZE, 16 in the code: entries kept without an index
  ArDefault,  \* AR_DEFAULT_CAPA, 4 in the code
  InitBit,    \* IB_INIT_BIT, 5 in the code: the width an index starts with
  Growth,     \* the constant part of ea_next_capa_for's growth, 6 in the code
  EaMax       \* EA_MAX_CAPA, 2^31 - 2 in the code

Empty == 0
Deleted == -1

\* Three quarters of a bucket count (ib_upper_bound_for).
UpperBound(buckets) == (buckets \div 4) + (buckets \div 2)

AtMost(a, b) == IF a <= b THEN a ELSE b
Size(t) == Len(t.entries)
Indexed(t) == t.bit # 0
Buckets(t) == 0 .. (2^t.bit - 1)

EmptyTable(epoch) ==
  [entries |-> <<>>, slots |-> <<>>, used |-> 0, capa |-> 0, bit |-> 0,
   ib |-> [b \in {} |-> Empty], epoch |-> epoch]

-----------------------------------------------------------------------------
(* Sizes. *)

\* The capacity an entry array of that many entries is given.
NextCapa(size, max) ==
  IF size < ArDefault THEN ArDefault ELSE AtMost((size * 6) \div 5 + Growth, max)

\* The width of an index for that many entries.
BitFor(size) ==
  LET b == CHOOSE k \in 0..(size + 1) :
             2^k > size /\ \A j \in 0..(size + 1) : 2^j > size => k <= j
  IN  IF UpperBound(2^b) < size THEN b + 1 ELSE b

\* What derives one constant from the other in mruby: an index of the first
\* width has room for one entry more than ArMax with a bucket or two to spare,
\* and no index is narrower.
ASSUME SizesAssumption ==
  /\ ArMax \in Nat /\ ArDefault \in Nat /\ InitBit \in Nat \ {0}
  /\ Growth \in Nat \ {0} /\ EaMax \in Nat
  /\ ArDefault >= 1 /\ ArDefault <= ArMax
  /\ UpperBound(2^InitBit) > ArMax /\ UpperBound(2^InitBit) <= 2^InitBit - 2
  /\ BitFor(ArMax + 1) >= InitBit
  /\ EaMax > 2 * ArMax

AdjustEa(t, size, max) == [t EXCEPT !.capa = NextCapa(size, max)]

\* The holes are given back, and no entry moves.
Compress_slip(t) == [t EXCEPT !.used = Size(t)]

\* The holes are given back: every entry's slot is its position.
Compress(t) == [t EXCEPT !.slots = [p \in 1..Size(t) |-> p - 1], !.used = Size(t)]

-----------------------------------------------------------------------------
(* The index. *)

\* An index of that width with every bucket empty.
HtReset(t, bit) ==
  [t EXCEPT !.bit = bit, !.ib = [b \in 0 .. (2^bit - 1) |-> Empty]]

\* The nth bucket of the probe: the triangular numbers.
ProbeAt(t, code, n) == (code + (n * n + n) \div 2) % (2^t.bit)

\* What a probe reads: a bucket past the end of a table that has shrunk under
\* the search reads as an empty one.
Bucket(t, b) == IF b \in DOMAIN t.ib THEN t.ib[b] ELSE Empty

\* The first empty bucket of the probe takes position p.
Place(t, code, p) ==
  LET free == {n \in Buckets(t) : t.ib[ProbeAt(t, code, n)] = Empty}
  IN  IF free = {} THEN t
      ELSE LET n == CHOOSE n \in free : \A m \in free : n <= m
           IN  [t EXCEPT !.ib[ProbeAt(t, code, n)] = p]

ToAr(t) ==
  [Compress(t) EXCEPT !.capa = NextCapa(Size(t), ArMax), !.bit = 0,
                      !.ib = [b \in {} |-> Empty]]

-----------------------------------------------------------------------------
(* Making room for one entry more. *)

\* ar_make_room answers that the Hash has to get an index.
ArIsFull(t) == t.capa = t.used /\ Size(t) = t.used /\ Size(t) = ArMax

\* One place too few.
ArMakeRoom_slip(t) ==
  IF t.capa + 1 # t.used THEN t ELSE AdjustEa(Compress(t), Size(t), ArMax)

\* What ar_make_room does otherwise.
ArMakeRoom(t) ==
  IF t.capa # t.used THEN t
  ELSE IF Size(t) = t.used THEN AdjustEa(t, Size(t), ArMax)
  ELSE AdjustEa(Compress(t), Size(t), AtMost(t.capa, ArMax))

\* ht_make_room answers Rebuild at the next width, ToAr, Rebuild at this
\* width, or Fits, in that order.
HtGrows(t) == UpperBound(2^t.bit) <= Size(t)

HtShrinks(t) ==
  /\ ~HtGrows(t) /\ Size(t) # t.used
  /\ 2^t.bit - 2 > t.used /\ t.capa = t.used /\ Size(t) <= ArMax

\* Deleted buckets do not count.
HtCompresses_slip(t) ==
  /\ ~HtGrows(t) /\ Size(t) # t.used
  /\ t.capa = t.used /\ Size(t) > ArMax /\ NextCapa(Size(t), EaMax) <= t.capa

HtCompresses(t) ==
  /\ ~HtGrows(t) /\ Size(t) # t.used
  /\ \/ 2^t.bit - 2 <= t.used
     \/ t.capa = t.used /\ Size(t) > ArMax /\ NextCapa(Size(t), EaMax) <= t.capa

HtFits(t) == ~HtGrows(t) /\ ~HtShrinks(t) /\ ~HtCompresses(t)

\* The table ht_make_room leaves when it asks for a rebuild.
HtRoom(t) ==
  IF HtCompresses(t) THEN AdjustEa(Compress(t), Size(t), t.capa)
  ELSE IF HtGrows(t) /\ Size(t) # t.used THEN Compress(t)
  ELSE t
HtRoomBit(t) == IF HtGrows(t) THEN t.bit + 1 ELSE t.bit

-----------------------------------------------------------------------------
(* One entry in, one entry out. *)

Append1(t, k, v) ==
  [t EXCEPT !.entries = Append(@, [key |-> k, val |-> v]),
            !.slots = Append(@, t.used), !.used = @ + 1]

ArPush(t, k, v) == Append1(t, k, v)

HtPush(t, b, k, v) ==
  LET roomy == IF t.used = t.capa THEN AdjustEa(t, t.used, EaMax) ELSE t
  IN  [Append1(roomy, k, v) EXCEPT
         !.ib = IF b \in DOMAIN t.ib THEN [t.ib EXCEPT ![b] = Size(t) + 1] ELSE t.ib]

SetValueAt(t, p, v) ==
  IF p \in 1..Size(t) THEN [t EXCEPT !.entries[p].val = v] ELSE t

Without(s, p) == [i \in 1 .. (Len(s) - 1) |-> IF i < p THEN s[i] ELSE s[i + 1]]

\* The buckets behind stay; or the bucket is empty again.
RemoveEntry_shift_slip(t, p) ==
  [t EXCEPT
     !.entries = Without(@, p), !.slots = Without(@, p),
     !.ib = [b \in DOMAIN t.ib |-> IF t.ib[b] = p THEN Deleted ELSE t.ib[b]]]

RemoveEntry_empty_slip(t, p) ==
  [t EXCEPT
     !.entries = Without(@, p), !.slots = Without(@, p),
     !.ib = [b \in DOMAIN t.ib |->
               IF t.ib[b] = p THEN Empty
               ELSE IF t.ib[b] > p THEN t.ib[b] - 1 ELSE t.ib[b]]]

\* The entry's slot becomes a hole and its bucket a deleted one; the buckets
\* of the entries behind it follow them down.
RemoveEntry(t, p) ==
  [t EXCEPT
     !.entries = Without(@, p), !.slots = Without(@, p),
     !.ib = [b \in DOMAIN t.ib |->
               IF t.ib[b] = p THEN Deleted
               ELSE IF t.ib[b] > p THEN t.ib[b] - 1 ELSE t.ib[b]]]

InsertAt(s, p, e) ==
  [i \in 1 .. (Len(s) + 1) |-> IF i < p THEN s[i] ELSE IF i = p THEN e ELSE s[i - 1]]

\* A rehash takes entry r out and puts it back at position w (reinsert).
MoveTo(t, r, w) ==
  LET out == RemoveEntry(t, r)
  IN  [out EXCEPT
         !.entries = InsertAt(@, w, t.entries[r]), !.slots = InsertAt(@, w, 0),
         !.ib = [b \in DOMAIN out.ib |-> IF out.ib[b] >= w THEN out.ib[b] + 1 ELSE out.ib[b]]]

-----------------------------------------------------------------------------
(* Slots. *)

\* The position of the first entry whose slot is past s.  The code asks a
\* binary search, which this is as long as the slots ascend.
SlotsAfter(t, s) == Cardinality({p \in 1..Size(t) : t.slots[p] <= s}) + 1

\* Whatever key it holds.
SlotHolds_slip(t, s, k) == {p \in 1..Size(t) : t.slots[p] = s}

\* Where the entry that was read from slot s is now: nowhere if the slot is
\* empty or holds another key.
SlotHolds(t, s, k) == {p \in 1..Size(t) : t.slots[p] = s /\ t.entries[p].key = k}

\* What a call compares before and after Ruby runs (HCheck).
Check(t) ==
  [bit |-> t.bit, capa |-> t.capa, size |-> Size(t), epoch |-> t.epoch,
   first |-> IF Indexed(t) \/ t.slots = <<>> THEN <<>>
             ELSE IF t.slots[1] = 0 THEN <<t.entries[1].key>> ELSE <<>>]
=============================================================================
