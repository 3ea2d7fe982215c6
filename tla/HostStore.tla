----------------------------- MODULE HostStore -----------------------------
(***************************************************************************)
(* HostStore<T> (src/host_store.rs): a slab of the host's values. A handle *)
(* is an index of `slots` (from 1 here, from 0 in the code); the numbers   *)
(* of removed values wait on `free` and the last one in is given out       *)
(* first. A value may be lent out of its slot to a call and put back.      *)
(*                                                                         *)
(* A value moves: it is in one slot, or lent, or in the host's own hands.  *)
(* `lent` is what take answered and nobody has put back or kept yet.       *)
(***************************************************************************)
EXTENDS Integers, Sequences, FiniteSets

CONSTANTS Values,       \* the host's values, each one of its kind
          Empty, Out,   \* Cell::Empty, Cell::Out
          MaxSlots      \* bound on the length of the slab

ASSUME StoreAssumption ==
  /\ Empty \notin Values
  /\ Out \notin Values
  /\ Empty # Out
  /\ MaxSlots \in Nat

VARIABLES slots,        \* Vec<Cell<T>>: a value for Cell::Full
          free,         \* Vec<u64>, the next number to give out last
          live,         \* how many slots are full
          lent          \* the handles and values callers have in hand

storeVars == <<slots, free, live, lent>>

Handles == 1 .. MaxSlots

StoreTypeOK ==
  /\ slots \in Seq(Values \cup {Empty, Out})
  /\ Len(slots) <= MaxSlots
  /\ free \in Seq(DOMAIN slots)
  /\ live \in Nat
  /\ lent \subseteq (DOMAIN slots) \X Values

StoreInit == slots = <<>> /\ free = <<>> /\ live = 0 /\ lent = {}

\* The handles that name a value, those whose value is out, and the unused ones.
Full == {h \in DOMAIN slots : slots[h] \in Values}
OnLoan == {h \in DOMAIN slots : slots[h] = Out}
Unused == {h \in DOMAIN slots : slots[h] = Empty}

\* The values that are neither in the store nor lent: the host may bring one in.
InHand == {v \in Values : (\A h \in DOMAIN slots : slots[h] # v)
                            /\ (\A l \in lent : l[2] # v)}

---------------------------------------------------------------------------

\* The number insert answers with.
NextHandle == IF free = <<>> THEN Len(slots) + 1 ELSE free[Len(free)]

\* The number stays on the free list.
Insert_slip(v) ==
  /\ v \in InHand
  /\ NextHandle <= MaxSlots
  /\ slots' = IF free = <<>> THEN Append(slots, v) ELSE [slots EXCEPT ![NextHandle] = v]
  /\ free' = free
  /\ live' = live + 1
  /\ UNCHANGED lent

Insert(v) ==
  /\ v \in InHand
  /\ \/ /\ free # <<>>
        /\ slots' = [slots EXCEPT ![NextHandle] = v]
        /\ free' = SubSeq(free, 1, Len(free) - 1)
     \/ /\ free = <<>>
        /\ Len(slots) < MaxSlots
        /\ slots' = Append(slots, v)
        /\ UNCHANGED free
  /\ live' = live + 1
  /\ UNCHANGED lent

\* A value that is out is removed as if it were there.
RemoveAll_slip(order) ==
  LET gone == {order[i] : i \in DOMAIN order}
  IN /\ gone \subseteq Full \cup OnLoan
     /\ slots' = [h \in DOMAIN slots |-> IF h \in gone THEN Empty ELSE slots[h]]
     /\ free' = free \o order
     /\ live' = live - Cardinality(gone \cap Full)
     /\ UNCHANGED lent

\* Of several, only the last one goes.
RemoveAll_last_slip(order) ==
  /\ \A i \in DOMAIN order : order[i] \in Full
  /\ LET gone == {order[i] : i \in DOMAIN order \cap {Len(order)}}
     IN /\ slots' = [h \in DOMAIN slots |-> IF h \in gone THEN Empty ELSE slots[h]]
        /\ free' = free \o order
        /\ live' = live - Len(order)
  /\ UNCHANGED lent

\* remove, for the handles of `order` one after the other. A handle that
\* names nothing, or whose value is out, changes nothing and is not in it.
RemoveAll(order) ==
  LET gone == {order[i] : i \in DOMAIN order}
  IN /\ gone \subseteq Full
     /\ \A i, j \in DOMAIN order : order[i] = order[j] => i = j
     /\ slots' = [h \in DOMAIN slots |-> IF h \in gone THEN Empty ELSE slots[h]]
     /\ free' = free \o order
     /\ live' = live - Len(order)
     /\ UNCHANGED lent

Remove(h) == RemoveAll(<<h>>)

\* The number is given up with the value, as remove does it.
Take_slip(h) ==
  /\ h \in Full
  /\ slots' = [slots EXCEPT ![h] = Empty]
  /\ free' = Append(free, h)
  /\ live' = live - 1
  /\ lent' = lent \cup {<<h, slots[h]>>}

\* take: the number stays reserved.
Take(h) ==
  /\ h \in Full
  /\ slots' = [slots EXCEPT ![h] = Out]
  /\ live' = live - 1
  /\ lent' = lent \cup {<<h, slots[h]>>}
  /\ UNCHANGED free

\* What is there is overwritten.
Restore_over_slip(h, v) ==
  /\ slots' = [slots EXCEPT ![h] = v]
  /\ live' = IF slots[h] \in Values THEN live ELSE live + 1
  /\ lent' = {l \in lent : l[1] # h}
  /\ UNCHANGED free

\* restore: the value goes where one is waited for, and is dropped elsewhere.
Restore(h, v) ==
  /\ \/ slots[h] = Out /\ slots' = [slots EXCEPT ![h] = v] /\ live' = live + 1
     \/ slots[h] # Out /\ UNCHANGED <<slots, live>>
  /\ lent' = {l \in lent : l[1] # h}
  /\ UNCHANGED free

\* The caller of take keeps the value: its number is closed, for good unless
\* restore is called with it after all.
Keep(h, v) ==
  /\ <<h, v>> \in lent
  /\ lent' = lent \ {<<h, v>>}
  /\ UNCHANGED <<slots, free, live>>

---------------------------------------------------------------------------
(* Properties *)

\* The free list names every unused number once and nothing else, and the count
\* is that of the values in the store (HostStore::free, ::live): a number listed
\* twice would be given out twice.
StoreIsExact ==
  /\ \A i, j \in DOMAIN free : free[i] = free[j] => i = j
  /\ {free[i] : i \in DOMAIN free} = Unused
  /\ live = Cardinality(Full)

\* A value is in one place: in one slot, or lent to one caller, never copied by
\* a take and never overwritten by a restore (take, restore).
OneOwner ==
  /\ \A g, h \in Full : slots[g] = slots[h] => g = h
  /\ \A l \in lent : slots[l[1]] = Out /\ \A h \in Full : slots[h] # l[2]
  /\ \A k, l \in lent : k[1] = l[1] \/ k[2] = l[2] => k = l

\* What each number names for those who hold it.
Named == [h \in Handles |-> IF h \in DOMAIN slots THEN slots[h] ELSE Empty]

Map == INSTANCE HandleMap WITH Nothing <- Empty, Lent <- Out, names <- Named

\* The slab keeps what a map of handles promises (module HandleMap).
ImplementsHandleMap == Map!Spec
===========================================================================
