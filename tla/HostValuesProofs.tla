------------------------- MODULE HostValuesProofs -------------------------
(***************************************************************************)
(* What holds of a HostStore and of the objects and calls that use it, for *)
(* any number of values, slots, objects and nested calls.                  *)
(***************************************************************************)
EXTENDS HostValues, FiniteSetTheorems, TLAPS

---------------------------------------------------------------------------
(* The slab *)

Cells == Values \cup {Empty, Out}

\* The state of the slab is well formed, its free list and count are exact,
\* and every value has one owner.
StoreInv == StoreTypeOK /\ StoreIsExact /\ OneOwner

\* The marks are no values.
LEMMA MarksAreNoValues == Empty \notin Values /\ Out \notin Values /\ Empty # Out
BY StoreAssumption

\* A sequence is a function on its indices, and these are finite in number.
LEMMA SlotFacts ==
  ASSUME StoreTypeOK
  PROVE  /\ DOMAIN slots = 1 .. Len(slots) /\ Len(slots) \in Nat
         /\ slots \in [DOMAIN slots -> Cells]
         /\ IsFiniteSet(DOMAIN slots)
         /\ DOMAIN slots \subseteq Handles
         /\ IsFiniteSet(Full)
<1>1. DOMAIN slots = 1 .. Len(slots) /\ Len(slots) \in Nat /\ slots \in [DOMAIN slots -> Cells]
  BY DEF StoreTypeOK, Cells
<1>2. IsFiniteSet(DOMAIN slots)  BY <1>1, FS_Interval
<1>3. DOMAIN slots \subseteq Handles
  BY <1>1, StoreAssumption DEF StoreTypeOK, Handles
<1>4. Full \in SUBSET DOMAIN slots  BY DEF Full
<1>5. IsFiniteSet(Full)  BY <1>2, <1>4, FS_Subset
<1> QED  BY <1>1, <1>2, <1>3, <1>5

\* insert fills one slot that was empty or is new, and nothing else changes
\* but the free list, which no longer has it.
LEMMA InsertDoes ==
  ASSUME StoreInv, NEW v \in Values, Insert(v)
  PROVE  /\ NextHandle \in Handles
         /\ NextHandle \in DOMAIN slots => slots[NextHandle] = Empty
         /\ DOMAIN slots' = DOMAIN slots \cup {NextHandle}
         /\ slots' \in Seq(Cells) /\ Len(slots') <= MaxSlots
         /\ slots'[NextHandle] = v
         /\ \A h \in DOMAIN slots : h # NextHandle => slots'[h] = slots[h]
         /\ free' \in Seq(DOMAIN slots')
         /\ \A i, j \in DOMAIN free' : free'[i] = free'[j] => i = j
         /\ {free'[i] : i \in DOMAIN free'} = Unused \ {NextHandle}
<1> DEFINE n == NextHandle
<1>1. CASE free # <<>>
  <2>1. /\ free \in Seq(DOMAIN slots) /\ Len(free) \in Nat \ {0}
        /\ DOMAIN free = 1 .. Len(free)
        /\ n = free[Len(free)] /\ n \in DOMAIN slots /\ slots[n] = Empty
    BY <1>1 DEF NextHandle, StoreInv, StoreTypeOK, StoreIsExact, Unused
  <2>2. slots' = [slots EXCEPT ![n] = v] /\ free' = SubSeq(free, 1, Len(free) - 1)
    BY <1>1 DEF Insert
  <2>3. /\ DOMAIN slots' = DOMAIN slots /\ slots' \in Seq(Cells)
        /\ Len(slots') = Len(slots) /\ slots'[n] = v
        /\ \A h \in DOMAIN slots : h # n => slots'[h] = slots[h]
    BY <2>1, <2>2 DEF StoreInv, StoreTypeOK, Cells
  <2>4. /\ free' \in Seq(DOMAIN slots) /\ Len(free') = Len(free) - 1
        /\ DOMAIN free' = 1 .. Len(free) - 1
        /\ \A i \in DOMAIN free' : i \in DOMAIN free /\ free'[i] = free[i]
    BY <2>1, <2>2
  <2>5. \A i, j \in DOMAIN free : free[i] = free[j] => i = j
    BY DEF StoreInv, StoreIsExact
  <2>6. {free[i] : i \in DOMAIN free} = Unused
    BY DEF StoreInv, StoreIsExact
  <2>7. {free'[i] : i \in DOMAIN free'} = Unused \ {n}
    <3>1. \A i \in DOMAIN free' : free'[i] \in Unused /\ free'[i] # n
      <4> TAKE i \in DOMAIN free'
      <4>1. i \in DOMAIN free /\ free'[i] = free[i] /\ i # Len(free) /\ Len(free) \in DOMAIN free
        BY <2>1, <2>4
      <4>2. free[i] # free[Len(free)]  BY <4>1, <2>5
      <4> QED  BY <4>1, <4>2, <2>1, <2>6
    <3>2. ASSUME NEW h \in Unused \ {n} PROVE \E i \in DOMAIN free' : free'[i] = h
      <4>1. PICK i \in DOMAIN free : free[i] = h  BY <2>6
      <4>2. i # Len(free)  BY <4>1, <2>1
      <4>3. i \in DOMAIN free'  BY <4>1, <4>2, <2>1, <2>4
      <4> QED  BY <4>1, <4>3, <2>4
    <3> QED  BY <3>1, <3>2
  <2>8. \A i, j \in DOMAIN free' : free'[i] = free'[j] => i = j  BY <2>4, <2>5
  <2>9. n \in Handles /\ Len(slots) <= MaxSlots  BY <2>1, SlotFacts DEF StoreInv, StoreTypeOK
  <2> QED  BY <2>1, <2>3, <2>4, <2>7, <2>8, <2>9
<1>2. CASE free = <<>>
  <2>1. n = Len(slots) + 1 /\ slots \in Seq(Cells) /\ Len(slots) \in Nat
        /\ DOMAIN slots = 1 .. Len(slots)
    BY <1>2 DEF NextHandle, StoreInv, StoreTypeOK, Cells
  <2>2. slots' = Append(slots, v) /\ free' = free /\ Len(slots) < MaxSlots
    BY <1>2 DEF Insert
  <2>3. /\ DOMAIN slots' = DOMAIN slots \cup {n} /\ slots' \in Seq(Cells)
        /\ Len(slots') = Len(slots) + 1 /\ slots'[n] = v /\ n \notin DOMAIN slots
        /\ \A h \in DOMAIN slots : h # n => slots'[h] = slots[h]
    BY <2>1, <2>2 DEF Cells
  <2>4. n \in Handles /\ Len(slots') <= MaxSlots
    BY <2>1, <2>2, <2>3, StoreAssumption DEF Handles
  <2>5. Unused = {} /\ n \notin Unused
    BY <1>2, <2>3 DEF StoreInv, StoreIsExact, Unused
  <2>6. free' \in Seq(DOMAIN slots') /\ DOMAIN free' = {}  BY <1>2, <2>2
  <2> QED  BY <2>3, <2>4, <2>5, <2>6
<1> QED  BY <1>1, <1>2

\* The other moves of a slot: what take, restore and keep leave of the free list
\* and of the slots beside it.
LEMMA TakeDoes ==
  ASSUME StoreInv, NEW h, Take(h)
  PROVE  /\ h \in Full /\ slots'[h] = Out
         /\ DOMAIN slots' = DOMAIN slots /\ slots' \in Seq(Cells) /\ Len(slots') = Len(slots)
         /\ \A g \in DOMAIN slots : g # h => slots'[g] = slots[g]
         /\ Full' = Full \ {h} /\ Unused' = Unused
         /\ free' = free /\ lent' = lent \cup {<<h, slots[h]>>}
<1>1. h \in Full /\ slots' = [slots EXCEPT ![h] = Out] /\ free' = free
      /\ lent' = lent \cup {<<h, slots[h]>>}
  BY DEF Take
<1>2. h \in DOMAIN slots /\ slots \in Seq(Cells)  BY <1>1 DEF Full, StoreInv, StoreTypeOK, Cells
<1>3. /\ slots'[h] = Out /\ DOMAIN slots' = DOMAIN slots
      /\ slots' \in Seq(Cells) /\ Len(slots') = Len(slots)
      /\ \A g \in DOMAIN slots : g # h => slots'[g] = slots[g]
  BY <1>1, <1>2 DEF Cells
<1>4. Full' = Full \ {h} /\ Unused' = Unused
  BY <1>1, <1>3, MarksAreNoValues DEF Full, Unused
<1> QED  BY <1>1, <1>3, <1>4

\* A value that may be put in slot h: it is nowhere in the store, nor lent to
\* anybody but, perhaps, the one who puts it back.
MayCome(h, v) ==
  /\ h \in DOMAIN slots /\ v \in Values
  /\ \A g \in DOMAIN slots : slots[g] # v
  /\ \A l \in lent : l[2] = v => l[1] = h

\* restore fills the slot that waits.
LEMMA RestoreDoes ==
  ASSUME StoreInv, NEW h, NEW v, MayCome(h, v), slots[h] = Out, Restore(h, v)
  PROVE  /\ h \in DOMAIN slots /\ v \in Values /\ slots'[h] = v
         /\ DOMAIN slots' = DOMAIN slots /\ slots' \in Seq(Cells) /\ Len(slots') = Len(slots)
         /\ \A g \in DOMAIN slots : g # h => slots'[g] = slots[g]
         /\ Full' = Full \cup {h} /\ h \notin Full /\ Unused' = Unused
         /\ free' = free /\ lent' = {l \in lent : l[1] # h} /\ live' = live + 1
<1>1. free' = free /\ lent' = {l \in lent : l[1] # h}  BY DEF Restore
<1>2. h \in DOMAIN slots /\ v \in Values /\ slots \in Seq(Cells)
  BY DEF StoreInv, StoreTypeOK, Cells, MayCome
<1>3. slots' = [slots EXCEPT ![h] = v] /\ live' = live + 1  BY DEF Restore
<1>4. /\ slots'[h] = v /\ DOMAIN slots' = DOMAIN slots
      /\ slots' \in Seq(Cells) /\ Len(slots') = Len(slots)
      /\ \A g \in DOMAIN slots : g # h => slots'[g] = slots[g]
  BY <1>2, <1>3 DEF Cells
<1>5. Full' = Full \cup {h} /\ h \notin Full /\ Unused' = Unused
  BY <1>2, <1>4, MarksAreNoValues DEF Full, Unused
<1> QED  BY <1>1, <1>2, <1>3, <1>4, <1>5

\* What is lent, or in nobody's hands, may come to where it is awaited.
LEMMA WhatMayCome ==
  ASSUME StoreInv, NEW h \in DOMAIN slots, NEW v \in Values, v \in InHand \/ <<h, v>> \in lent
  PROVE  MayCome(h, v)
<1>1. CASE v \in InHand  BY <1>1 DEF InHand, MayCome
<1>2. CASE <<h, v>> \in lent
  <2>1. <<h, v>>[1] = h /\ <<h, v>>[2] = v  OBVIOUS
  <2>2. \A g \in DOMAIN slots : slots[g] # v
    BY <1>2, <2>1 DEF StoreInv, OneOwner, Full
  <2>3. \A l \in lent : l[2] = v => l[1] = h
    BY <1>2, <2>1 DEF StoreInv, OneOwner
  <2> QED  BY <2>2, <2>3 DEF MayCome
<1> QED  BY <1>1, <1>2

\* The handles of a list.
Listed(order) == {order[i] : i \in DOMAIN order}

\* A list without repetitions is as long as it names handles.
LEMMA ListsCount ==
  ASSUME NEW S, NEW order \in Seq(S),
         \A i, j \in DOMAIN order : order[i] = order[j] => i = j
  PROVE  /\ Cardinality(Listed(order)) = Len(order)
         /\ IsFiniteSet(Listed(order))
<1> DEFINE T == Listed(order)
<1>1. Len(order) \in Nat /\ DOMAIN order = 1 .. Len(order) /\ order \in [1 .. Len(order) -> T]
  BY DEF Listed
<1>2. order \in Injection(1 .. Len(order), T)
  BY <1>1 DEF Injection, IsInjective
<1>3. order \in Surjection(1 .. Len(order), T)
  BY <1>1 DEF Surjection, Listed
<1>4. ExistsBijection(1 .. Len(order), T)
  BY <1>2, <1>3 DEF ExistsBijection, Bijection
<1>5. Cardinality(T) = Len(order)  BY <1>1, <1>4, FS_CountingElements
<1>6. IsFiniteSet(T)  BY <1>1, <1>4, FS_NatBijection
<1> QED  BY <1>5, <1>6

\* Removing a list of handles empties these slots and puts them on the free list.
LEMMA RemoveAllDoes ==
  ASSUME StoreInv, NEW order \in Seq(DOMAIN slots), RemoveAll(order)
  PROVE  /\ Listed(order) \subseteq Full
         /\ DOMAIN slots' = DOMAIN slots /\ slots' \in Seq(Cells) /\ Len(slots') = Len(slots)
         /\ \A h \in DOMAIN slots : slots'[h] = IF h \in Listed(order) THEN Empty ELSE slots[h]
         /\ Full' = Full \ Listed(order) /\ Unused' = Unused \cup Listed(order)
         /\ free' \in Seq(DOMAIN slots)
         /\ \A i, j \in DOMAIN free' : free'[i] = free'[j] => i = j
         /\ {free'[i] : i \in DOMAIN free'} = Unused \cup Listed(order)
         /\ live' = live - Len(order) /\ lent' = lent
<1> DEFINE gone == Listed(order)
<1>1. /\ gone \subseteq Full
      /\ \A i, j \in DOMAIN order : order[i] = order[j] => i = j
      /\ slots' = [h \in DOMAIN slots |-> IF h \in gone THEN Empty ELSE slots[h]]
      /\ free' = free \o order /\ live' = live - Len(order) /\ lent' = lent
  BY DEF RemoveAll, Listed
<1>2. /\ slots \in Seq(Cells) /\ free \in Seq(DOMAIN slots)
      /\ DOMAIN slots = 1 .. Len(slots) /\ Len(slots) \in Nat
  BY DEF StoreInv, StoreTypeOK, Cells
<1>3. /\ DOMAIN slots' = DOMAIN slots
      /\ slots' \in Seq(Cells) /\ Len(slots') = Len(slots)
      /\ \A h \in DOMAIN slots : slots'[h] = IF h \in gone THEN Empty ELSE slots[h]
  <2>1. slots' \in [1 .. Len(slots) -> Cells]  BY <1>1, <1>2 DEF Cells
  <2> QED  BY <1>1, <1>2, <2>1
<1>4. Full' = Full \ gone /\ Unused' = Unused \cup gone
  BY <1>1, <1>3, MarksAreNoValues DEF Full, Unused
<1>5. /\ free' \in Seq(DOMAIN slots) /\ Len(free') = Len(free) + Len(order)
      /\ \A i \in 1 .. Len(free') :
           free'[i] = IF i <= Len(free) THEN free[i] ELSE order[i - Len(free)]
      /\ DOMAIN free' = 1 .. Len(free') /\ Len(free) \in Nat /\ Len(order) \in Nat
      /\ DOMAIN free = 1 .. Len(free) /\ DOMAIN order = 1 .. Len(order)
  BY <1>1, <1>2
<1>6. /\ \A i, j \in DOMAIN free : free[i] = free[j] => i = j
      /\ {free[i] : i \in DOMAIN free} = Unused
  BY DEF StoreInv, StoreIsExact
<1>7. Unused \cap gone = {}
  BY <1>1, MarksAreNoValues DEF Full, Unused
<1>8. \A i \in DOMAIN free' :
        \/ i \in DOMAIN free /\ free'[i] = free[i] /\ free'[i] \in Unused
        \/ i - Len(free) \in DOMAIN order /\ free'[i] = order[i - Len(free)] /\ free'[i] \in gone
  <2> TAKE i \in DOMAIN free'
  <2>1. CASE i <= Len(free)
    BY <2>1, <1>5, <1>6
  <2>2. CASE i > Len(free)
    <3>1. i - Len(free) \in DOMAIN order /\ free'[i] = order[i - Len(free)]
      BY <2>2, <1>5
    <3> QED  BY <3>1 DEF Listed
  <2> QED  BY <2>1, <2>2, <1>5
<1>9. \A i, j \in DOMAIN free' : free'[i] = free'[j] => i = j
  <2> SUFFICES ASSUME NEW i \in DOMAIN free', NEW j \in DOMAIN free', free'[i] = free'[j]
               PROVE  i = j
    OBVIOUS
  <2>1. CASE free'[i] \in Unused
    BY <2>1, <1>6, <1>7, <1>8
  <2>2. CASE free'[i] \in gone
    <3>1. i - Len(free) = j - Len(free)
      BY <2>2, <1>1, <1>7, <1>8
    <3> QED  BY <3>1, <1>5
  <2> QED  BY <2>1, <2>2, <1>8
<1>10. {free'[i] : i \in DOMAIN free'} = Unused \cup gone
  <2>1. \A h \in Unused : \E i \in DOMAIN free' : free'[i] = h
    <3> TAKE h \in Unused
    <3>1. PICK i \in DOMAIN free : free[i] = h  BY <1>6
    <3>2. i \in DOMAIN free' /\ free'[i] = h  BY <3>1, <1>5
    <3> QED  BY <3>2
  <2>2. \A h \in gone : \E i \in DOMAIN free' : free'[i] = h
    <3> TAKE h \in gone
    <3>1. PICK i \in DOMAIN order : order[i] = h  BY DEF Listed
    <3>2. i + Len(free) \in DOMAIN free' /\ free'[i + Len(free)] = h  BY <3>1, <1>5
    <3> QED  BY <3>2
  <2> QED  BY <2>1, <2>2, <1>8
<1> QED  BY <1>1, <1>3, <1>4, <1>5, <1>9, <1>10

\* insert keeps the slab in order: the number it gives out was nobody's.
LEMMA InsertKeeps ==
  ASSUME StoreInv, NEW v \in Values, Insert(v)
  PROVE  StoreInv'
<1> DEFINE n == NextHandle
<1>1. /\ n \in DOMAIN slots => slots[n] = Empty
      /\ DOMAIN slots' = DOMAIN slots \cup {n}
      /\ slots' \in Seq(Cells) /\ Len(slots') <= MaxSlots /\ slots'[n] = v
      /\ \A h \in DOMAIN slots : h # n => slots'[h] = slots[h]
      /\ free' \in Seq(DOMAIN slots')
      /\ \A i, j \in DOMAIN free' : free'[i] = free'[j] => i = j
      /\ {free'[i] : i \in DOMAIN free'} = Unused \ {n}
  BY InsertDoes
<1>2. v \in InHand /\ live' = live + 1 /\ lent' = lent  BY DEF Insert
<1>3. Full' = Full \cup {n} /\ n \notin Full /\ Unused' = Unused \ {n}
  BY <1>1, MarksAreNoValues DEF Full, Unused
<1>4. StoreTypeOK'
  <2>1. lent' \subseteq (DOMAIN slots') \X Values  BY <1>1, <1>2 DEF StoreInv, StoreTypeOK
  <2>2. live' \in Nat  BY <1>2 DEF StoreInv, StoreTypeOK
  <2> QED  BY <1>1, <2>1, <2>2 DEF StoreTypeOK, Cells
<1>5. StoreIsExact'
  <2>1. live' = Cardinality(Full')
    BY <1>2, <1>3, SlotFacts, FS_AddElement DEF StoreInv, StoreIsExact, StoreTypeOK
  <2> QED  BY <1>1, <1>3, <2>1 DEF StoreIsExact
<1>6. OneOwner'
  <2>1. \A h \in Full : slots'[h] = slots[h] /\ slots[h] # v
    BY <1>1, <1>2, <1>3 DEF Full, InHand
  <2>2. \A g, h \in Full' : slots'[g] = slots'[h] => g = h
    BY <1>1, <1>3, <2>1 DEF StoreInv, OneOwner
  <2>3. \A l \in lent : /\ slots'[l[1]] = Out
                        /\ \A h \in Full' : slots'[h] # l[2]
    <3> TAKE l \in lent
    <3>1. slots[l[1]] = Out /\ \A h \in Full : slots[h] # l[2]  BY DEF StoreInv, OneOwner
    <3>2. l[1] \in DOMAIN slots /\ l[1] # n
      BY <3>1, <1>1, MarksAreNoValues DEF StoreInv, StoreTypeOK
    <3>3. slots'[l[1]] = Out  BY <1>1, <3>1, <3>2
    <3>4. l[2] # v  BY <1>2 DEF InHand
    <3> QED  BY <3>1, <3>3, <3>4, <1>1, <1>3, <2>1
  <2> QED  BY <1>2, <2>2, <2>3 DEF StoreInv, OneOwner
<1> QED  BY <1>4, <1>5, <1>6 DEF StoreInv

\* Removing a list of full handles keeps it in order.
LEMMA RemoveAllKeeps ==
  ASSUME StoreInv, NEW order \in Seq(DOMAIN slots), RemoveAll(order)
  PROVE  StoreInv'
<1> DEFINE gone == Listed(order)
<1>1. /\ gone \subseteq Full
      /\ DOMAIN slots' = DOMAIN slots /\ slots' \in Seq(Cells) /\ Len(slots') = Len(slots)
      /\ \A h \in DOMAIN slots : slots'[h] = IF h \in gone THEN Empty ELSE slots[h]
      /\ Full' = Full \ gone /\ Unused' = Unused \cup gone
      /\ free' \in Seq(DOMAIN slots)
      /\ \A i, j \in DOMAIN free' : free'[i] = free'[j] => i = j
      /\ {free'[i] : i \in DOMAIN free'} = Unused \cup gone
      /\ live' = live - Len(order) /\ lent' = lent
  BY RemoveAllDoes
<1>2. Cardinality(gone) = Len(order) /\ IsFiniteSet(gone)
  <2>1. \A i, j \in DOMAIN order : order[i] = order[j] => i = j  BY DEF RemoveAll
  <2> QED  BY <2>1, ListsCount
<1>3. live' = Cardinality(Full') /\ live' \in Nat
  <2>1. IsFiniteSet(Full) /\ live = Cardinality(Full) /\ Full \cap gone = gone
    BY <1>1, SlotFacts DEF StoreInv, StoreIsExact
  <2>2. IsFiniteSet(Full \ gone) /\ Cardinality(Full \ gone) = Cardinality(Full) - Cardinality(gone)
    BY <2>1, FS_Difference
  <2>3. Cardinality(Full \ gone) \in Nat  BY <2>2, FS_CardinalityType
  <2> QED  BY <1>1, <1>2, <2>1, <2>2, <2>3
<1>4. StoreTypeOK'
  BY <1>1, <1>3 DEF StoreInv, StoreTypeOK, Cells
<1>5. StoreIsExact'  BY <1>1, <1>3 DEF StoreIsExact
<1>6. OneOwner'
  <2>1. \A h \in Full' : h \in Full /\ slots'[h] = slots[h]  BY <1>1 DEF Full
  <2>2. \A l \in lent : slots'[l[1]] = Out
    <3> TAKE l \in lent
    <3>1. l[1] \in DOMAIN slots /\ slots[l[1]] = Out
      BY DEF StoreInv, StoreTypeOK, OneOwner
    <3>2. l[1] \notin gone  BY <3>1, <1>1, MarksAreNoValues DEF Full
    <3> QED  BY <1>1, <3>1, <3>2
  <2> QED  BY <1>1, <2>1, <2>2 DEF StoreInv, OneOwner
<1> QED  BY <1>4, <1>5, <1>6 DEF StoreInv

\* take keeps it in order: the value has left its slot.
LEMMA TakeKeeps ==
  ASSUME StoreInv, NEW h, Take(h)
  PROVE  StoreInv'
<1>1. /\ h \in Full /\ slots'[h] = Out
      /\ DOMAIN slots' = DOMAIN slots /\ slots' \in Seq(Cells) /\ Len(slots') = Len(slots)
      /\ \A g \in DOMAIN slots : g # h => slots'[g] = slots[g]
      /\ Full' = Full \ {h} /\ Unused' = Unused
      /\ free' = free /\ lent' = lent \cup {<<h, slots[h]>>}
  BY TakeDoes
<1>2. live' = live - 1  BY DEF Take
<1>3. live' = Cardinality(Full') /\ live' \in Nat
  <2>1. IsFiniteSet(Full') /\ Cardinality(Full') = Cardinality(Full) - 1
    BY <1>1, SlotFacts, FS_RemoveElement DEF StoreInv
  <2>2. Cardinality(Full') \in Nat  BY <2>1, FS_CardinalityType
  <2> QED  BY <1>2, <2>1, <2>2 DEF StoreInv, StoreIsExact
<1>4. h \in DOMAIN slots /\ slots[h] \in Values  BY <1>1 DEF Full
<1>5. StoreTypeOK'
  BY <1>1, <1>3, <1>4 DEF StoreInv, StoreTypeOK, Cells
<1>6. StoreIsExact'  BY <1>1, <1>3 DEF StoreInv, StoreIsExact
<1>7. OneOwner'
  <2>1. \A g \in Full' : g \in Full /\ g # h /\ slots'[g] = slots[g]  BY <1>1 DEF Full
  <2>2. \A l \in lent : l \in (DOMAIN slots) \X Values /\ slots[l[1]] = Out /\ l[1] # h /\ l[2] # slots[h]
    <3> TAKE l \in lent
    <3>1. l \in (DOMAIN slots) \X Values /\ slots[l[1]] = Out /\ \A g \in Full : slots[g] # l[2]
      BY DEF StoreInv, StoreTypeOK, OneOwner
    <3> QED  BY <3>1, <1>1, <1>4, MarksAreNoValues
  <2>3. \A g, k \in Full' : slots'[g] = slots'[k] => g = k
    BY <2>1 DEF StoreInv, OneOwner
  <2>4. \A l \in lent' : slots'[l[1]] = Out /\ \A g \in Full' : slots'[g] # l[2]
    <3> TAKE l \in lent'
    <3>1. CASE l \in lent
      BY <3>1, <1>1, <2>1, <2>2 DEF StoreInv, OneOwner
    <3>2. CASE l = <<h, slots[h]>>
      BY <3>2, <1>1, <2>1 DEF StoreInv, OneOwner
    <3> QED  BY <3>1, <3>2, <1>1
  <2>5. \A k, l \in lent' : k[1] = l[1] \/ k[2] = l[2] => k = l
    <3> SUFFICES ASSUME NEW k \in lent', NEW l \in lent', k[1] = l[1] \/ k[2] = l[2]
                 PROVE  k = l
      OBVIOUS
    <3>1. CASE k \in lent /\ l \in lent  BY <3>1 DEF StoreInv, OneOwner
    <3>2. CASE k = <<h, slots[h]>> \/ l = <<h, slots[h]>>  BY <3>2, <1>1, <2>2
    <3> QED  BY <3>1, <3>2, <1>1
  <2> QED  BY <2>3, <2>4, <2>5 DEF OneOwner
<1> QED  BY <1>5, <1>6, <1>7 DEF StoreInv

\* restore keeps it in order: the value is where it is awaited, or dropped.
LEMMA RestoreKeeps ==
  ASSUME StoreInv, NEW h, NEW v, MayCome(h, v), Restore(h, v)
  PROVE  StoreInv'
<1>1. CASE slots[h] # Out
  <2>1. UNCHANGED <<slots, free, live>> /\ lent' \subseteq lent  BY <1>1 DEF Restore
  <2> QED  BY <2>1 DEF StoreInv, StoreTypeOK, StoreIsExact, OneOwner, Full, Unused
<1>2. CASE slots[h] = Out
  <2>1. /\ h \in DOMAIN slots /\ v \in Values /\ slots'[h] = v
        /\ DOMAIN slots' = DOMAIN slots /\ slots' \in Seq(Cells) /\ Len(slots') = Len(slots)
        /\ \A g \in DOMAIN slots : g # h => slots'[g] = slots[g]
        /\ Full' = Full \cup {h} /\ h \notin Full /\ Unused' = Unused
        /\ free' = free /\ lent' = {l \in lent : l[1] # h} /\ live' = live + 1
    BY <1>2, RestoreDoes
  <2>2. live' = Cardinality(Full') /\ live' \in Nat
    <3>1. IsFiniteSet(Full) /\ live = Cardinality(Full) /\ live \in Nat
      BY SlotFacts DEF StoreInv, StoreIsExact, StoreTypeOK
    <3>2. Cardinality(Full \cup {h}) = Cardinality(Full) + 1
      BY <3>1, <2>1, FS_AddElement
    <3> QED  BY <2>1, <3>1, <3>2
  <2>3. StoreTypeOK'  BY <2>1, <2>2 DEF StoreInv, StoreTypeOK, Cells
  <2>4. StoreIsExact'  BY <2>1, <2>2 DEF StoreInv, StoreIsExact
  <2>5. OneOwner'
    <3>1. \A g \in Full : g # h /\ slots'[g] = slots[g] /\ slots[g] # v
      BY <2>1 DEF Full, MayCome
    <3>2. \A l \in lent' : l \in lent /\ l[1] # h /\ l[2] # v  BY <2>1 DEF MayCome
    <3>3. \A l \in lent' : /\ slots'[l[1]] = Out
                           /\ \A g \in Full' : slots'[g] # l[2]
      <4> TAKE l \in lent'
      <4>1. l \in lent /\ l[1] # h /\ l[2] # v /\ l[1] \in DOMAIN slots
        BY <3>2 DEF StoreInv, StoreTypeOK
      <4>2. slots[l[1]] = Out /\ \A g \in Full : slots[g] # l[2]  BY <4>1 DEF StoreInv, OneOwner
      <4> QED  BY <2>1, <3>1, <4>1, <4>2
    <3>4. \A g, k \in Full' : slots'[g] = slots'[k] => g = k
      BY <2>1, <3>1 DEF StoreInv, OneOwner
    <3> QED  BY <3>2, <3>3, <3>4 DEF StoreInv, OneOwner
  <2> QED  BY <2>3, <2>4, <2>5 DEF StoreInv
<1> QED  BY <1>1, <1>2

\* A value that is kept leaves everything else as it was.
LEMMA KeepKeeps ==
  ASSUME StoreInv, NEW h, NEW v, Keep(h, v)
  PROVE  StoreInv' /\ UNCHANGED slots
<1>1. lent' = lent \ {<<h, v>>} /\ UNCHANGED <<slots, free, live>>  BY DEF Keep
<1> QED  BY <1>1 DEF StoreInv, StoreTypeOK, StoreIsExact, OneOwner, Full, Unused

---------------------------------------------------------------------------
(* Objects and calls *)

\* Calls in progress are on handles that wait for them; and, while the host is
\* careful, two objects never carry one handle and each reaches its own value.
ClaimsDiffer ==
  careful => \A o, p \in Objects :
               There(o) /\ There(p) /\ Carried(o) = Carried(p) => o = p

CallsInv == StoreInv /\ TypeOK /\ LoansComeHome

ValuesInv == CallsInv /\ ClaimsDiffer /\ ObjectsReachTheirOwn

\* What the entries of objects and calls are made of.
LEMMA EntryFacts ==
  ASSUME TypeOK
  PROVE  /\ \A o \in Objects : There(o) =>
              Carried(o) \in Handles /\ Own(o) \in Values /\ objects[o] = <<Carried(o), Own(o)>>
         /\ DOMAIN calls = 1 .. Len(calls) /\ Len(calls) \in Nat
         /\ \A i \in DOMAIN calls :
              calls[i][1] \in Objects /\ calls[i][2] \in Handles /\ calls[i][3] \in Values
BY DEF TypeOK, There, Carried, Own

\* A careful host's objects carry only handles that are full or on loan.
LEMMA ClaimsAreInUse ==
  ASSUME ValuesInv, careful, NEW o \in Objects, There(o)
  PROVE  Carried(o) \in DOMAIN slots /\ slots[Carried(o)] # Empty
BY EntryFacts, MarksAreNoValues, ZenonT(60) DEF ValuesInv, CallsInv, ObjectsReachTheirOwn, LoansComeHome, Full, OnLoan

\* As long as no slot a call waits at is touched and no loan of a call ends,
\* the calls in progress still find their way home.
LEMMA CallsUndisturbed ==
  ASSUME LoansComeHome, UNCHANGED calls,
         \A i \in DOMAIN calls :
           /\ calls[i][2] \in DOMAIN slots' /\ slots'[calls[i][2]] = Out
           /\ <<calls[i][2], calls[i][3]>> \in lent'
  PROVE  LoansComeHome'
BY DEF LoansComeHome, OnLoan

\* And as long as no claimed slot is touched, objects reach their own values.
LEMMA ObjectsUndisturbed ==
  ASSUME ValuesInv, UNCHANGED <<objects, calls>>, careful' => careful,
         careful' => \A o \in Objects : There(o) =>
                       Carried(o) \in DOMAIN slots' /\ slots'[Carried(o)] = slots[Carried(o)]
  PROVE  ClaimsDiffer' /\ ObjectsReachTheirOwn'
BY DEF ValuesInv, ClaimsDiffer, ObjectsReachTheirOwn, There, Carried, Own, Full

\* In the beginning there is nothing.
LEMMA ValuesStart == Init => ValuesInv
<1> SUFFICES ASSUME Init PROVE ValuesInv
  OBVIOUS
<1>1. /\ slots = <<>> /\ free = <<>> /\ live = 0 /\ lent = {} /\ calls = <<>>
      /\ objects = [o \in Objects |-> NoObject] /\ careful = TRUE
  BY DEF Init, StoreInit
<1>2. StoreTypeOK  BY <1>1, StoreAssumption DEF StoreTypeOK
<1>3. Full = {} /\ Unused = {}  BY <1>1 DEF Full, Unused
<1>4. StoreInv
  BY <1>1, <1>2, <1>3, FS_EmptySet DEF StoreInv, StoreIsExact, OneOwner
<1>5. TypeOK /\ \A o \in Objects : ~There(o)
  BY <1>1, <1>2 DEF TypeOK, There
<1> QED
  BY <1>1, <1>4, <1>5 DEF ValuesInv, CallsInv, LoansComeHome, ClaimsDiffer, ObjectsReachTheirOwn

\* insert, with an object for the handle or without one: a new slot disturbs
\* nobody's value.
LEMMA InsertApart ==
  ASSUME ValuesInv, NEW v \in Values, Insert(v)
  PROVE  /\ \A i \in DOMAIN calls :
              /\ calls[i][2] \in DOMAIN slots' /\ slots'[calls[i][2]] = Out
              /\ <<calls[i][2], calls[i][3]>> \in lent'
         /\ careful => \A o \in Objects : There(o) =>
              /\ Carried(o) # NextHandle /\ Carried(o) \in DOMAIN slots'
              /\ slots'[Carried(o)] = slots[Carried(o)]
         /\ NextHandle \in Handles /\ NextHandle \in DOMAIN slots' /\ slots'[NextHandle] = v
<1>1. /\ NextHandle \in Handles
      /\ NextHandle \in DOMAIN slots => slots[NextHandle] = Empty
      /\ DOMAIN slots' = DOMAIN slots \cup {NextHandle} /\ slots'[NextHandle] = v
      /\ \A h \in DOMAIN slots : h # NextHandle => slots'[h] = slots[h]
  BY InsertDoes DEF ValuesInv, CallsInv
<1>2. lent' = lent  BY DEF Insert
<1>3. \A i \in DOMAIN calls :
        /\ calls[i][2] \in DOMAIN slots /\ slots[calls[i][2]] = Out
        /\ <<calls[i][2], calls[i][3]>> \in lent
  BY DEF ValuesInv, CallsInv, LoansComeHome, OnLoan
<1>4. careful => \A o \in Objects : There(o) =>
        Carried(o) \in DOMAIN slots /\ slots[Carried(o)] # Empty
  BY ClaimsAreInUse
<1> QED  BY <1>1, <1>2, <1>3, <1>4, MarksAreNoValues

\* A new object carries a number no other object carries.
LEMMA IntoHandleSafe ==
  ASSUME ValuesInv, NEW o \in Objects, NEW v \in Values, IntoHandle(o, v)
  PROVE  ValuesInv'
<1>1. /\ Insert(v) /\ ~There(o) /\ calls' = calls /\ careful' = careful
      /\ objects' = [objects EXCEPT ![o] = <<NextHandle, v>>]
  BY DEF IntoHandle
<1>2. StoreInv'  BY <1>1, InsertKeeps DEF ValuesInv, CallsInv
<1>3. /\ \A i \in DOMAIN calls :
           /\ calls[i][2] \in DOMAIN slots' /\ slots'[calls[i][2]] = Out
           /\ <<calls[i][2], calls[i][3]>> \in lent'
      /\ careful => \A p \in Objects : There(p) =>
           /\ Carried(p) # NextHandle /\ Carried(p) \in DOMAIN slots'
           /\ slots'[Carried(p)] = slots[Carried(p)]
      /\ NextHandle \in Handles /\ NextHandle \in DOMAIN slots' /\ slots'[NextHandle] = v
  BY <1>1, InsertApart
<1>4. /\ objects' \in [Objects -> (Handles \X Values) \cup {NoObject}]
      /\ objects'[o] = <<NextHandle, v>>
      /\ \A p \in Objects \ {o} : objects'[p] = objects[p]
  BY <1>1, <1>3 DEF ValuesInv, CallsInv, TypeOK
<1>5. TypeOK'  BY <1>1, <1>2, <1>4 DEF ValuesInv, CallsInv, TypeOK, StoreInv
<1>6. LoansComeHome'  BY <1>1, <1>3, CallsUndisturbed DEF ValuesInv, CallsInv
<1>7. /\ There(o)' /\ Carried(o)' = NextHandle /\ Own(o)' = v
      /\ \A p \in Objects \ {o} :
           /\ There(p)' <=> There(p)
           /\ Carried(p)' = Carried(p) /\ Own(p)' = Own(p)
  <2>1. objects'[o] # NoObject  BY <1>3, <1>4, ValuesAssumption
  <2> QED  BY <1>4, <2>1 DEF There, Carried, Own
<1>8. ClaimsDiffer'  BY <1>1, <1>3, <1>7 DEF ValuesInv, ClaimsDiffer
<1>9. ObjectsReachTheirOwn'
  <2> SUFFICES ASSUME careful, NEW p \in Objects, There(p)'
               PROVE  \/ Carried(p)' \in Full' /\ slots'[Carried(p)'] = Own(p)'
                      \/ \E i \in DOMAIN calls' :
                           /\ calls'[i][2] = Carried(p)' /\ calls'[i][3] = Own(p)'
                           /\ slots'[Carried(p)'] = Out
    BY <1>1 DEF ObjectsReachTheirOwn
  <2>1. CASE p = o  BY <2>1, <1>3, <1>7 DEF Full
  <2>2. CASE p # o
    <3>1. There(p) /\ Carried(p)' = Carried(p) /\ Own(p)' = Own(p)  BY <2>2, <1>7
    <3>2. Carried(p) \in DOMAIN slots' /\ slots'[Carried(p)] = slots[Carried(p)]
      BY <1>3, <3>1
    <3> QED  BY <3>1, <3>2, <1>1 DEF ValuesInv, ObjectsReachTheirOwn, Full
  <2> QED  BY <2>1, <2>2
<1> QED  BY <1>2, <1>5, <1>6, <1>8, <1>9 DEF ValuesInv, CallsInv

\* What the host puts in gets a number that was nobody's.
LEMMA HostInsertSafe ==
  ASSUME ValuesInv, NEW v \in Values, HostInsert(v)
  PROVE  ValuesInv'
<1>1. Insert(v) /\ UNCHANGED <<objects, calls, careful>>  BY DEF HostInsert
<1>2. StoreInv'  BY <1>1, InsertKeeps DEF ValuesInv, CallsInv
<1>3. TypeOK'  BY <1>1, <1>2 DEF ValuesInv, CallsInv, TypeOK, StoreInv
<1>4. LoansComeHome'  BY <1>1, InsertApart, CallsUndisturbed DEF ValuesInv, CallsInv
<1>5. ClaimsDiffer' /\ ObjectsReachTheirOwn'  BY <1>1, InsertApart, ObjectsUndisturbed
<1> QED  BY <1>2, <1>3, <1>4, <1>5 DEF ValuesInv, CallsInv

\* take of a slot no call waits at: the other calls go on waiting.
LEMMA TakeApart ==
  ASSUME ValuesInv, NEW h, Take(h)
  PROVE  /\ \A i \in DOMAIN calls :
              /\ calls[i][2] # h
              /\ calls[i][2] \in DOMAIN slots' /\ slots'[calls[i][2]] = Out
              /\ <<calls[i][2], calls[i][3]>> \in lent'
         /\ h \in DOMAIN slots' /\ slots'[h] = Out /\ <<h, slots[h]>> \in lent'
         /\ h \in Handles /\ slots[h] \in Values
         /\ \A g \in DOMAIN slots : g # h => g \in DOMAIN slots' /\ slots'[g] = slots[g]
<1>1. /\ h \in Full /\ slots'[h] = Out /\ DOMAIN slots' = DOMAIN slots
      /\ \A g \in DOMAIN slots : g # h => slots'[g] = slots[g]
      /\ lent' = lent \cup {<<h, slots[h]>>}
  BY TakeDoes DEF ValuesInv, CallsInv
<1>2. h \in DOMAIN slots /\ slots[h] \in Values /\ h \in Handles
  BY <1>1, SlotFacts DEF Full, ValuesInv, CallsInv, StoreInv
<1>3. \A i \in DOMAIN calls :
        /\ calls[i][2] \in DOMAIN slots /\ slots[calls[i][2]] = Out
        /\ <<calls[i][2], calls[i][3]>> \in lent
  BY DEF ValuesInv, CallsInv, LoansComeHome, OnLoan
<1> QED  BY <1>1, <1>2, <1>3, MarksAreNoValues

\* The value a call takes out is its receiver's, and nobody else waits for it.
LEMMA TakeOutSafe ==
  ASSUME ValuesInv, NEW o \in Objects, TakeOut(o)
  PROVE  ValuesInv'
<1> DEFINE h == Carried(o)
<1>1. /\ There(o) /\ Take(h) /\ objects' = objects /\ careful' = careful
      /\ calls' = Append(calls, <<o, h, slots[h]>>)
  BY DEF TakeOut
<1>2. StoreInv'  BY <1>1, TakeKeeps DEF ValuesInv, CallsInv
<1>3. /\ \A i \in DOMAIN calls :
           /\ calls[i][2] # h
           /\ calls[i][2] \in DOMAIN slots' /\ slots'[calls[i][2]] = Out
           /\ <<calls[i][2], calls[i][3]>> \in lent'
      /\ h \in DOMAIN slots' /\ slots'[h] = Out /\ <<h, slots[h]>> \in lent'
      /\ h \in Handles /\ slots[h] \in Values
      /\ \A g \in DOMAIN slots : g # h => g \in DOMAIN slots' /\ slots'[g] = slots[g]
  BY <1>1, TakeApart
<1>4. calls \in Seq(Objects \X Handles \X Values)  BY DEF ValuesInv, CallsInv, TypeOK
<1> DEFINE n == Len(calls) + 1
<1>5. /\ calls' \in Seq(Objects \X Handles \X Values)
      /\ DOMAIN calls = 1 .. Len(calls) /\ Len(calls) \in Nat
      /\ DOMAIN calls' = DOMAIN calls \cup {n} /\ n \notin DOMAIN calls
      /\ calls'[n] = <<o, h, slots[h]>>
      /\ \A i \in DOMAIN calls : calls'[i] = calls[i]
  BY <1>1, <1>3, <1>4
<1>6. TypeOK'  BY <1>1, <1>2, <1>5 DEF ValuesInv, CallsInv, TypeOK, StoreInv
<1>7. LoansComeHome'
  <2>1. calls'[n][2] = h /\ calls'[n][3] = slots[h]  BY <1>5
  <2>2. \A i \in DOMAIN calls' :
          /\ calls'[i][2] \in DOMAIN slots' /\ slots'[calls'[i][2]] = Out
          /\ <<calls'[i][2], calls'[i][3]>> \in lent'
    BY <1>3, <1>5, <2>1
  <2>3. \A i, j \in DOMAIN calls' : calls'[i][2] = calls'[j][2] => i = j
    <3>1. \A i, j \in DOMAIN calls : calls[i][2] = calls[j][2] => i = j
      BY DEF ValuesInv, CallsInv, LoansComeHome
    <3> HIDE DEF h, n
    <3>2. \A i \in DOMAIN calls : calls'[i][2] = calls[i][2] /\ calls'[i][2] # calls'[n][2]
      BY <1>3, <1>5, <2>1
    <3> QED  BY <1>5, <3>1, <3>2
  <2> QED  BY <2>2, <2>3 DEF LoansComeHome, OnLoan
<1>8. ClaimsDiffer'
  BY <1>1 DEF ValuesInv, ClaimsDiffer, There, Carried
<1>9. ObjectsReachTheirOwn'
  <2> SUFFICES ASSUME careful, NEW p \in Objects, There(p)
               PROVE  \/ Carried(p) \in Full' /\ slots'[Carried(p)] = Own(p)
                      \/ \E i \in DOMAIN calls' :
                           /\ calls'[i][2] = Carried(p) /\ calls'[i][3] = Own(p)
                           /\ slots'[Carried(p)] = Out
    BY <1>1 DEF ObjectsReachTheirOwn, There, Carried, Own
  <2>1. \/ Carried(p) \in Full /\ slots[Carried(p)] = Own(p)
        \/ \E i \in DOMAIN calls :
             calls[i][2] = Carried(p) /\ calls[i][3] = Own(p) /\ slots[Carried(p)] = Out
    BY DEF ValuesInv, ObjectsReachTheirOwn
  <2>2. Carried(p) \in DOMAIN slots  BY ClaimsAreInUse
  <2>3. CASE Carried(p) = h
    <3>1. slots[h] = Own(p)  BY <2>1, <2>3, <1>3
    <3>2. calls'[n][2] = h /\ calls'[n][3] = slots[h] /\ n \in DOMAIN calls'  BY <1>5
    <3> QED  BY <3>1, <3>2, <2>3, <1>3
  <2>4. CASE Carried(p) # h
    <3>1. Carried(p) \in DOMAIN slots' /\ slots'[Carried(p)] = slots[Carried(p)]
      BY <2>2, <2>4, <1>3
    <3> QED  BY <3>1, <2>1, <1>5 DEF Full
  <2> QED  BY <2>3, <2>4
<1> QED  BY <1>2, <1>6, <1>7, <1>8, <1>9 DEF ValuesInv, CallsInv

\* What the host takes is no call's receiver, and no object's while it is careful.
LEMMA HostTakeSafe ==
  ASSUME ValuesInv, NEW h, HostTake(h)
  PROVE  ValuesInv'
<1>1. Take(h) /\ Touches(h) /\ UNCHANGED <<objects, calls>>  BY DEF HostTake
<1>2. StoreInv'  BY <1>1, TakeKeeps DEF ValuesInv, CallsInv
<1>3. TypeOK'  BY <1>1, <1>2 DEF ValuesInv, CallsInv, TypeOK, StoreInv, Touches
<1>4. LoansComeHome'  BY <1>1, TakeApart, CallsUndisturbed DEF ValuesInv, CallsInv
<1>5. careful' => \A o \in Objects : There(o) =>
        Carried(o) \in DOMAIN slots' /\ slots'[Carried(o)] = slots[Carried(o)]
  <2> SUFFICES ASSUME careful', NEW o \in Objects, There(o)
               PROVE  Carried(o) \in DOMAIN slots' /\ slots'[Carried(o)] = slots[Carried(o)]
    OBVIOUS
  <2> careful /\ h \notin Claimed  BY <1>1 DEF Touches
  <2>1. Carried(o) \in DOMAIN slots  BY ClaimsAreInUse
  <2>2. Carried(o) # h  BY DEF Claimed
  <2>3. /\ DOMAIN slots' = DOMAIN slots
        /\ \A g \in DOMAIN slots : g # h => slots'[g] = slots[g]
    BY <1>1, TakeDoes DEF ValuesInv, CallsInv
  <2> QED  BY <2>1, <2>2, <2>3
<1>6. ClaimsDiffer' /\ ObjectsReachTheirOwn'  BY <1>1, <1>5, ObjectsUndisturbed DEF Touches
<1> QED  BY <1>2, <1>3, <1>4, <1>6 DEF ValuesInv, CallsInv

\* The innermost call fills the slot it emptied; the others go on waiting.
LEMMA GiveBackSafe ==
  ASSUME ValuesInv, GiveBack
  PROVE  ValuesInv'
<1> DEFINE n == Len(calls)
           h == calls[n][2]
           v == calls[n][3]
<1>1. /\ calls # <<>> /\ Restore(h, v) /\ objects' = objects /\ careful' = careful
      /\ calls' = SubSeq(calls, 1, n - 1)
  BY DEF GiveBack
<1>2. calls \in Seq(Objects \X Handles \X Values)  BY DEF ValuesInv, CallsInv, TypeOK
<1>3. /\ calls' \in Seq(Objects \X Handles \X Values)
      /\ DOMAIN calls = 1 .. n /\ n \in Nat \ {0} /\ n \in DOMAIN calls
      /\ DOMAIN calls' = DOMAIN calls \ {n}
      /\ \A i \in DOMAIN calls' : calls'[i] = calls[i]
  BY <1>1, <1>2
<1>4. MayCome(h, v) /\ slots[h] = Out
  <2>1. n \in DOMAIN calls /\ calls[n] \in Objects \X Handles \X Values  BY <1>1, <1>2
  <2>2. h \in DOMAIN slots /\ slots[h] = Out /\ <<h, v>> \in lent
    BY <2>1 DEF ValuesInv, CallsInv, LoansComeHome, OnLoan
  <2>3. v \in Values  BY <2>1
  <2> QED  BY <2>2, <2>3, WhatMayCome DEF ValuesInv, CallsInv
<1>5. StoreInv'  BY <1>1, <1>4, RestoreKeeps DEF ValuesInv, CallsInv
<1>6. TypeOK'  BY <1>1, <1>5, <1>3 DEF ValuesInv, CallsInv, TypeOK, StoreInv
<1>7. /\ h \in DOMAIN slots /\ v \in Values
      /\ slots[h] = Out /\ slots'[h] = v
      /\ DOMAIN slots' = DOMAIN slots
      /\ \A g \in DOMAIN slots : g # h => slots'[g] = slots[g]
      /\ lent' = {l \in lent : l[1] # h}
  BY <1>1, <1>4, RestoreDoes DEF ValuesInv, CallsInv
<1>8. \A i \in DOMAIN calls :
        /\ calls[i][2] \in DOMAIN slots /\ slots[calls[i][2]] = Out
        /\ <<calls[i][2], calls[i][3]>> \in lent
        /\ \A j \in DOMAIN calls : calls[i][2] = calls[j][2] => i = j
  BY DEF ValuesInv, CallsInv, LoansComeHome, OnLoan
<1>9. \A i \in DOMAIN calls' : i \in DOMAIN calls /\ calls[i][2] # h
  BY <1>3, <1>8
<1>10. LoansComeHome'
  <2> HIDE DEF h, v, n
  <2>1. \A i \in DOMAIN calls' :
          /\ calls'[i][2] \in DOMAIN slots' /\ slots'[calls'[i][2]] = Out
          /\ <<calls'[i][2], calls'[i][3]>> \in lent'
    <3> TAKE i \in DOMAIN calls'
    <3>1. <<calls[i][2], calls[i][3]>>[1] = calls[i][2]  OBVIOUS
    <3> QED  BY <3>1, <1>3, <1>7, <1>8, <1>9
  <2>2. \A i, j \in DOMAIN calls' : calls'[i][2] = calls'[j][2] => i = j
    BY <1>3, <1>8, <1>9
  <2> QED  BY <2>1, <2>2 DEF LoansComeHome, OnLoan
<1>11. ClaimsDiffer'  BY <1>1 DEF ValuesInv, ClaimsDiffer, There, Carried
<1>12. ObjectsReachTheirOwn'
  <2> SUFFICES ASSUME careful, NEW p \in Objects, There(p)
               PROVE  \/ Carried(p) \in Full' /\ slots'[Carried(p)] = Own(p)
                      \/ \E i \in DOMAIN calls' :
                           /\ calls'[i][2] = Carried(p) /\ calls'[i][3] = Own(p)
                           /\ slots'[Carried(p)] = Out
    BY <1>1 DEF ObjectsReachTheirOwn, There, Carried, Own
  <2>1. \/ Carried(p) \in Full /\ slots[Carried(p)] = Own(p)
        \/ \E i \in DOMAIN calls :
             calls[i][2] = Carried(p) /\ calls[i][3] = Own(p) /\ slots[Carried(p)] = Out
    BY DEF ValuesInv, ObjectsReachTheirOwn
  <2>2. Carried(p) \in DOMAIN slots  BY ClaimsAreInUse
  <2>3. CASE Carried(p) = h
    <3>1. PICK i \in DOMAIN calls : calls[i][2] = h /\ calls[i][3] = Own(p)
      BY <2>1, <2>3, <1>7, MarksAreNoValues DEF Full
    <3>2. i = n  BY <3>1, <1>3, <1>8
    <3>3. v = Own(p)  BY <3>1, <3>2
    <3> QED  BY <3>3, <2>3, <1>7 DEF Full
  <2>4. CASE Carried(p) # h
    <3>1. Carried(p) \in DOMAIN slots' /\ slots'[Carried(p)] = slots[Carried(p)]
      BY <2>2, <2>4, <1>7
    <3>2. \A i \in DOMAIN calls : calls[i][2] = Carried(p) => i \in DOMAIN calls' /\ calls'[i] = calls[i]
      BY <2>4, <1>3
    <3> QED  BY <3>1, <3>2, <2>1 DEF Full
  <2> QED  BY <2>3, <2>4
<1> QED  BY <1>5, <1>6, <1>10, <1>11, <1>12 DEF ValuesInv, CallsInv

\* Removing a list of full handles leaves the calls' slots alone.
LEMMA RemoveAllApart ==
  ASSUME ValuesInv, NEW order \in Seq(DOMAIN slots), RemoveAll(order)
  PROVE  /\ \A i \in DOMAIN calls :
              /\ calls[i][2] \in DOMAIN slots' /\ slots'[calls[i][2]] = Out
              /\ <<calls[i][2], calls[i][3]>> \in lent'
         /\ \A g \in DOMAIN slots :
              g \notin Listed(order) => g \in DOMAIN slots' /\ slots'[g] = slots[g]
<1>1. /\ Listed(order) \subseteq Full /\ DOMAIN slots' = DOMAIN slots
      /\ \A h \in DOMAIN slots : slots'[h] = IF h \in Listed(order) THEN Empty ELSE slots[h]
      /\ lent' = lent
  BY RemoveAllDoes DEF ValuesInv, CallsInv
<1>2. \A i \in DOMAIN calls :
        /\ calls[i][2] \in DOMAIN slots /\ slots[calls[i][2]] = Out
        /\ <<calls[i][2], calls[i][3]>> \in lent
  BY DEF ValuesInv, CallsInv, LoansComeHome, OnLoan
<1>3. \A i \in DOMAIN calls : calls[i][2] \notin Listed(order)
  BY <1>1, <1>2, MarksAreNoValues DEF Full
<1> QED  BY <1>1, <1>2, <1>3

\* A list of handles to drop is a list of slots.
LEMMA DropsAreSlots ==
  ASSUME StoreTypeOK, NEW D \in SUBSET Full, NEW order \in [1 .. Cardinality(D) -> D]
  PROVE  order \in Seq(DOMAIN slots) /\ Listed(order) \subseteq D
<1>1. Cardinality(D) \in Nat
  BY SlotFacts, FS_Subset, FS_CardinalityType
<1>2. order \in Seq(D) /\ DOMAIN order = 1 .. Cardinality(D)  BY <1>1
<1>3. D \subseteq DOMAIN slots  BY DEF Full
<1> QED  BY <1>2, <1>3 DEF Listed

\* A collection empties the slots of dead objects and no others.
LEMMA CollectSafe ==
  ASSUME ValuesInv, NEW S \in SUBSET Objects, Collect(S)
  PROVE  ValuesInv'
<1> DEFINE dropped == {Carried(o) : o \in S} \cap Full
<1>1. PICK order \in [1 .. Cardinality(dropped) -> dropped] : RemoveAll(order)
  BY DEF Collect
<1>2. /\ \A o \in S : There(o) /\ ~InCall(o)
      /\ calls' = calls /\ careful' = careful
      /\ objects' = [o \in Objects |-> IF o \in S THEN NoObject ELSE objects[o]]
  BY DEF Collect
<1>3. order \in Seq(DOMAIN slots) /\ Listed(order) \subseteq dropped
  BY <1>1, DropsAreSlots DEF ValuesInv, CallsInv, StoreInv
<1>4. StoreInv'  BY <1>1, <1>3, RemoveAllKeeps DEF ValuesInv, CallsInv
<1>5. objects' \in [Objects -> (Handles \X Values) \cup {NoObject}]
  BY <1>2 DEF ValuesInv, CallsInv, TypeOK
<1>6. TypeOK'  BY <1>2, <1>4, <1>5 DEF ValuesInv, CallsInv, TypeOK, StoreInv
<1>7. LoansComeHome'
  BY <1>1, <1>2, <1>3, RemoveAllApart, CallsUndisturbed DEF ValuesInv, CallsInv
<1>8. \A o \in Objects : There(o)' =>
        o \notin S /\ There(o) /\ Carried(o)' = Carried(o) /\ Own(o)' = Own(o)
  BY <1>2 DEF There, Carried, Own
<1>9. ClaimsDiffer'
  BY <1>2, <1>8 DEF ValuesInv, ClaimsDiffer
<1>10. ObjectsReachTheirOwn'
  <2> SUFFICES ASSUME careful, NEW p \in Objects, There(p)'
               PROVE  \/ Carried(p)' \in Full' /\ slots'[Carried(p)'] = Own(p)'
                      \/ \E i \in DOMAIN calls' :
                           /\ calls'[i][2] = Carried(p)' /\ calls'[i][3] = Own(p)'
                           /\ slots'[Carried(p)'] = Out
    BY <1>2 DEF ObjectsReachTheirOwn
  <2>1. p \notin S /\ There(p) /\ Carried(p)' = Carried(p) /\ Own(p)' = Own(p)  BY <1>8
  <2>2. Carried(p) \notin dropped
    BY <2>1, <1>2 DEF ValuesInv, ClaimsDiffer
  <2>3. Carried(p) \in DOMAIN slots  BY <2>1, ClaimsAreInUse
  <2>4. Carried(p) \in DOMAIN slots' /\ slots'[Carried(p)] = slots[Carried(p)]
    BY <2>2, <2>3, <1>1, <1>3, RemoveAllApart
  <2> QED  BY <2>1, <2>4, <1>2 DEF ValuesInv, ObjectsReachTheirOwn, Full
<1> QED  BY <1>4, <1>6, <1>7, <1>9, <1>10 DEF ValuesInv, CallsInv

\* What the host removes is no call's receiver, and no object's while it is careful.
LEMMA HostRemoveSafe ==
  ASSUME ValuesInv, NEW h, HostRemove(h)
  PROVE  ValuesInv'
<1>1. RemoveAll(<<h>>) /\ Touches(h) /\ UNCHANGED <<objects, calls>>
  BY DEF HostRemove, Remove
<1>2. h \in Full /\ Listed(<<h>>) = {h}
  <2>1. DOMAIN <<h>> = {1} /\ <<h>>[1] = h  OBVIOUS
  <2> QED  BY <1>1, <2>1 DEF RemoveAll, Listed
<1>3. <<h>> \in Seq(DOMAIN slots)  BY <1>2 DEF Full
<1>4. StoreInv'  BY <1>1, <1>3, RemoveAllKeeps DEF ValuesInv, CallsInv
<1>5. TypeOK'  BY <1>1, <1>4 DEF ValuesInv, CallsInv, TypeOK, StoreInv, Touches
<1>6. LoansComeHome'
  BY <1>1, <1>3, RemoveAllApart, CallsUndisturbed DEF ValuesInv, CallsInv
<1>7. careful' => \A o \in Objects : There(o) =>
        Carried(o) \in DOMAIN slots' /\ slots'[Carried(o)] = slots[Carried(o)]
  <2> SUFFICES ASSUME careful', NEW o \in Objects, There(o)
               PROVE  Carried(o) \in DOMAIN slots' /\ slots'[Carried(o)] = slots[Carried(o)]
    OBVIOUS
  <2> careful /\ h \notin Claimed  BY <1>1 DEF Touches
  <2>1. Carried(o) \in DOMAIN slots  BY ClaimsAreInUse
  <2>2. Carried(o) \notin Listed(<<h>>)  BY <1>2 DEF Claimed
  <2> QED  BY <2>1, <2>2, <1>1, <1>3, RemoveAllApart
<1>8. ClaimsDiffer' /\ ObjectsReachTheirOwn'  BY <1>1, <1>7, ObjectsUndisturbed DEF Touches
<1> QED  BY <1>4, <1>5, <1>6, <1>8 DEF ValuesInv, CallsInv

\* What the host puts back goes where no call waits.
LEMMA HostRestoreSafe ==
  ASSUME ValuesInv, NEW h \in Handles, NEW v \in Values, HostRestore(h, v)
  PROVE  ValuesInv'
<1>1. /\ Restore(h, v) /\ UNCHANGED <<objects, calls, careful>>
      /\ \A i \in DOMAIN calls : calls[i][2] # h
  BY DEF HostRestore
<1>2. MayCome(h, v)
  BY WhatMayCome DEF HostRestore, ValuesInv, CallsInv
<1>3. StoreInv'  BY <1>1, <1>2, RestoreKeeps DEF ValuesInv, CallsInv
<1>4. TypeOK'  BY <1>1, <1>3 DEF ValuesInv, CallsInv, TypeOK, StoreInv
<1>5. /\ DOMAIN slots' = DOMAIN slots
      /\ \A g \in DOMAIN slots : slots'[g] # slots[g] => g = h /\ slots[h] = Out
      /\ lent' = {l \in lent : l[1] # h}
  <2>1. CASE slots[h] = Out
    BY <1>1, <1>2, <2>1, RestoreDoes DEF ValuesInv, CallsInv
  <2>2. CASE slots[h] # Out  BY <1>1, <2>2 DEF Restore
  <2> QED  BY <2>1, <2>2
<1>6. LoansComeHome'
  <2>1. \A i \in DOMAIN calls :
          /\ calls[i][2] \in DOMAIN slots /\ slots[calls[i][2]] = Out
          /\ <<calls[i][2], calls[i][3]>> \in lent
    BY DEF ValuesInv, CallsInv, LoansComeHome, OnLoan
  <2>2. \A i \in DOMAIN calls :
          /\ calls[i][2] \in DOMAIN slots' /\ slots'[calls[i][2]] = Out
          /\ <<calls[i][2], calls[i][3]>> \in lent'
    <3> TAKE i \in DOMAIN calls
    <3>1. <<calls[i][2], calls[i][3]>>[1] = calls[i][2]  OBVIOUS
    <3> QED  BY <3>1, <1>1, <1>5, <2>1
  <2> QED  BY <1>1, <2>2, CallsUndisturbed DEF ValuesInv, CallsInv
<1>7. careful => \A o \in Objects : There(o) =>
        Carried(o) \in DOMAIN slots' /\ slots'[Carried(o)] = slots[Carried(o)]
  <2> SUFFICES ASSUME careful, NEW o \in Objects, There(o)
               PROVE  Carried(o) \in DOMAIN slots' /\ slots'[Carried(o)] = slots[Carried(o)]
    OBVIOUS
  <2>1. Carried(o) \in DOMAIN slots  BY ClaimsAreInUse
  <2>2. \/ Carried(o) \in Full
        \/ \E i \in DOMAIN calls : calls[i][2] = Carried(o)
    BY DEF ValuesInv, ObjectsReachTheirOwn
  <2>3. ~(Carried(o) = h /\ slots[h] = Out)
    BY <1>1, <2>2, MarksAreNoValues DEF Full
  <2> QED  BY <2>1, <2>3, <1>5
<1>8. ClaimsDiffer' /\ ObjectsReachTheirOwn'  BY <1>1, <1>7, ObjectsUndisturbed
<1> QED  BY <1>3, <1>4, <1>6, <1>8 DEF ValuesInv, CallsInv

\* What the host keeps had left its slot already.
LEMMA HostKeepSafe ==
  ASSUME ValuesInv, NEW l \in lent, HostKeep(l)
  PROVE  ValuesInv'
<1> DEFINE h == l[1]
           v == l[2]
<1>1. /\ Keep(h, v) /\ UNCHANGED <<objects, calls, careful>>
      /\ \A i \in DOMAIN calls : calls[i][2] # h
  BY DEF HostKeep
<1>2. StoreInv' /\ slots' = slots  BY <1>1, KeepKeeps DEF ValuesInv, CallsInv
<1>3. TypeOK'  BY <1>1, <1>2 DEF ValuesInv, CallsInv, TypeOK, StoreInv
<1>4. lent' = lent \ {<<h, v>>}  BY <1>1 DEF Keep
<1>5. LoansComeHome'
  <2> HIDE DEF h, v
  <2>1. \A i \in DOMAIN calls : <<calls[i][2], calls[i][3]>> \in lent'
    BY <1>1, <1>4 DEF ValuesInv, CallsInv, LoansComeHome
  <2> QED  BY <1>1, <1>2, <2>1 DEF ValuesInv, CallsInv, LoansComeHome, OnLoan
<1>6. ClaimsDiffer' /\ ObjectsReachTheirOwn'
  <2>1. careful => \A o \in Objects : There(o) => Carried(o) \in DOMAIN slots'
    BY <1>2, ClaimsAreInUse
  <2> QED  BY <1>1, <1>2, <2>1, ObjectsUndisturbed
<1> QED  BY <1>2, <1>3, <1>5, <1>6 DEF ValuesInv, CallsInv

---------------------------------------------------------------------------
(* The theorems *)

\* Every step keeps what the theorems below need.
LEMMA ValuesKept == ValuesInv /\ [Next]_vars => ValuesInv'
<1> SUFFICES ASSUME ValuesInv, [Next]_vars PROVE ValuesInv'
  OBVIOUS
<1>1. CASE GiveBack  BY <1>1, GiveBackSafe
<1>2. ASSUME NEW o \in Objects, TakeOut(o) PROVE ValuesInv'  BY <1>2, TakeOutSafe
<1>3. ASSUME NEW o \in Objects, NEW v \in Values, IntoHandle(o, v) PROVE ValuesInv'
  BY <1>3, IntoHandleSafe
<1>4. ASSUME NEW S \in SUBSET Objects, Collect(S) PROVE ValuesInv'  BY <1>4, CollectSafe
<1>5. ASSUME NEW v \in Values, HostInsert(v) PROVE ValuesInv'  BY <1>5, HostInsertSafe
<1>6. ASSUME NEW h \in Handles, HostRemove(h) PROVE ValuesInv'  BY <1>6, HostRemoveSafe
<1>7. ASSUME NEW h \in Handles, HostTake(h) PROVE ValuesInv'  BY <1>7, HostTakeSafe
<1>8. ASSUME NEW h \in Handles, NEW v \in Values, HostRestore(h, v) PROVE ValuesInv'
  BY <1>8, HostRestoreSafe
<1>9. ASSUME NEW l \in lent, HostKeep(l) PROVE ValuesInv'  BY <1>9, HostKeepSafe
<1>10. CASE UNCHANGED vars
  BY <1>10 DEF vars, storeVars, ValuesInv, CallsInv, StoreInv, TypeOK, StoreTypeOK, StoreIsExact,
               OneOwner, LoansComeHome, ClaimsDiffer, ObjectsReachTheirOwn, Full, OnLoan, Unused,
               There, Carried, Own
<1> QED
  BY <1>1, <1>2, <1>3, <1>4, <1>5, <1>6, <1>7, <1>8, <1>9, <1>10 DEF Next, RubyStep, HostStep

\* So it holds in every state a program reaches.
LEMMA ValuesAlways == Spec => []ValuesInv
BY ValuesStart, ValuesKept, PTL DEF Spec

\* The slab's free list and count are exact, and a value is never in two places,
\* whatever objects, calls, collections and the host do (HostStore).
THEOREM StoreStaysExact == Spec => [](TypeOK /\ StoreIsExact /\ OneOwner)
<1>1. ValuesInv => TypeOK /\ StoreIsExact /\ OneOwner
  BY DEF ValuesInv, CallsInv, StoreInv
<1> QED  BY <1>1, ValuesAlways, PTL

\* Every call in progress can give its receiver back (take_out, give_back), also
\* under a host that removes and takes what it likes.
THEOREM LoansAlwaysComeHome == Spec => []LoansComeHome
<1>1. ValuesInv => LoansComeHome  BY DEF ValuesInv, CallsInv
<1> QED  BY <1>1, ValuesAlways, PTL

\* Under a careful host no object ever reaches another object's value, however
\* often numbers are given out again (insert, remove, gc_collect).
THEOREM ObjectsAlwaysReachTheirOwn == Spec => []ObjectsReachTheirOwn
<1>1. ValuesInv => ObjectsReachTheirOwn  BY DEF ValuesInv
<1> QED  BY <1>1, ValuesAlways, PTL

\* In the beginning no number names anything.
LEMMA MapStart == Init => Map!Init
<1> SUFFICES ASSUME Init PROVE Named = [h \in Handles |-> Empty]
  BY DEF Map!Init
<1>1. DOMAIN slots = {}  BY DEF Init, StoreInit
<1> QED  BY <1>1 DEF Named

\* What changes in the slab changes in the map, number by number.
LEMMA NamedPointwise ==
  ASSUME StoreTypeOK, StoreTypeOK'
  PROVE  /\ Named \in [Handles -> Cells] /\ Named' \in [Handles -> Cells]
         /\ \A h \in Handles :
              /\ Named[h] = IF h \in DOMAIN slots THEN slots[h] ELSE Empty
              /\ Named'[h] = IF h \in DOMAIN slots' THEN slots'[h] ELSE Empty
BY DEF Named, StoreTypeOK, Cells

\* Each move of the slab is the move of the map it stands for.
LEMMA StoreMovesAreMapMoves ==
  ASSUME StoreInv, StoreInv'
  PROVE  /\ \A v \in Values : Insert(v) => Map!Next
         /\ \A order \in Seq(DOMAIN slots) : RemoveAll(order) => Map!Next
         /\ \A h : Take(h) => Map!Next
         /\ \A h, v : MayCome(h, v) /\ Restore(h, v) => Map!Next \/ UNCHANGED Named
<1> USE NamedPointwise, SlotFacts DEF StoreInv
<1>1. ASSUME NEW v \in Values, Insert(v) PROVE Map!Next
  <2>1. /\ NextHandle \in Handles
        /\ NextHandle \in DOMAIN slots => slots[NextHandle] = Empty
        /\ DOMAIN slots' = DOMAIN slots \cup {NextHandle}
        /\ slots'[NextHandle] = v
        /\ \A h \in DOMAIN slots : h # NextHandle => slots'[h] = slots[h]
    BY <1>1, InsertDoes
  <2>2. Named[NextHandle] = Empty /\ Named' = [Named EXCEPT ![NextHandle] = v]
    BY <2>1
  <2>3. Map!Give(NextHandle, v)  BY <2>2 DEF Map!Give
  <2> QED  BY <2>1, <2>3 DEF Map!Next
<1>2. ASSUME NEW order \in Seq(DOMAIN slots), RemoveAll(order) PROVE Map!Next
  <2> DEFINE H == Listed(order)
  <2>1. /\ H \subseteq Full /\ DOMAIN slots' = DOMAIN slots
        /\ \A h \in DOMAIN slots : slots'[h] = IF h \in H THEN Empty ELSE slots[h]
    BY <1>2, RemoveAllDoes
  <2>2. H \in SUBSET Handles /\ \A h \in H : Named[h] \in Values
    BY <2>1 DEF Full
  <2>3. Named' = [h \in Handles |-> IF h \in H THEN Empty ELSE Named[h]]
    BY <2>1, <2>2
  <2>4. Map!GiveUp(H)  BY <2>2, <2>3 DEF Map!GiveUp
  <2> QED  BY <2>2, <2>4 DEF Map!Next
<1>3. ASSUME NEW h, Take(h) PROVE Map!Next
  <2>1. /\ h \in Full /\ slots'[h] = Out /\ DOMAIN slots' = DOMAIN slots
        /\ \A g \in DOMAIN slots : g # h => slots'[g] = slots[g]
    BY <1>3, TakeDoes
  <2>2. h \in Handles /\ Named[h] \in Values /\ Named' = [Named EXCEPT ![h] = Out]
    BY <2>1 DEF Full
  <2>3. Map!Lend(h)  BY <2>2 DEF Map!Lend
  <2> QED  BY <2>2, <2>3 DEF Map!Next
<1>4. ASSUME NEW h, NEW v, MayCome(h, v), Restore(h, v) PROVE Map!Next \/ UNCHANGED Named
  <2>1. CASE slots[h] # Out  BY <1>4, <2>1 DEF Restore, Named
  <2>2. CASE slots[h] = Out
    <3>1. /\ h \in DOMAIN slots /\ v \in Values
          /\ slots'[h] = v /\ DOMAIN slots' = DOMAIN slots
          /\ \A g \in DOMAIN slots : g # h => slots'[g] = slots[g]
      BY <1>4, <2>2, RestoreDoes
    <3>2. h \in Handles /\ Named[h] = Out /\ Named' = [Named EXCEPT ![h] = v]
      BY <2>2, <3>1
    <3>3. Map!Return(h, v)  BY <3>2 DEF Map!Return
    <3> QED  BY <3>1, <3>2, <3>3 DEF Map!Next
  <2> QED  BY <2>1, <2>2
<1> QED  BY <1>1, <1>2, <1>3, <1>4

\* So is each step of a program: some move of the slab, or none.
LEMMA MapStep == ValuesInv /\ ValuesInv' /\ [Next]_vars => [Map!Next]_Named
<1> SUFFICES ASSUME ValuesInv, ValuesInv', [Next]_vars PROVE Map!Next \/ UNCHANGED Named
  OBVIOUS
<1> USE DEF ValuesInv, CallsInv
<1>1. CASE GiveBack
  <2> DEFINE n == Len(calls)
             h == calls[n][2]
             v == calls[n][3]
  <2>1. calls # <<>> /\ Restore(h, v)  BY <1>1 DEF GiveBack
  <2>2. n \in DOMAIN calls /\ calls[n] \in Objects \X Handles \X Values
    BY <2>1 DEF TypeOK
  <2>3. h \in DOMAIN slots /\ <<h, v>> \in lent  BY <2>2 DEF LoansComeHome, OnLoan
  <2>4. v \in Values  BY <2>2
  <2>5. MayCome(h, v)  BY <2>3, <2>4, WhatMayCome
  <2> HIDE DEF h, v, n
  <2> QED  BY <2>1, <2>5, StoreMovesAreMapMoves
<1>2. ASSUME NEW o \in Objects, TakeOut(o) PROVE Map!Next
  BY <1>2, StoreMovesAreMapMoves DEF TakeOut
<1>3. ASSUME NEW o \in Objects, NEW v \in Values, IntoHandle(o, v) PROVE Map!Next
  BY <1>3, StoreMovesAreMapMoves DEF IntoHandle
<1>4. ASSUME NEW S \in SUBSET Objects, Collect(S) PROVE Map!Next
  <2> DEFINE dropped == {Carried(o) : o \in S} \cap Full
  <2>1. PICK order \in [1 .. Cardinality(dropped) -> dropped] : RemoveAll(order)
    BY <1>4 DEF Collect
  <2>2. order \in Seq(DOMAIN slots)  BY <2>1, DropsAreSlots DEF StoreInv
  <2> QED  BY <2>1, <2>2, StoreMovesAreMapMoves
<1>5. ASSUME NEW v \in Values, HostInsert(v) PROVE Map!Next
  BY <1>5, StoreMovesAreMapMoves DEF HostInsert
<1>6. ASSUME NEW h \in Handles, HostRemove(h) PROVE Map!Next
  <2>1. RemoveAll(<<h>>)  BY <1>6 DEF HostRemove, Remove
  <2>2. h \in Full
    <3>1. DOMAIN <<h>> = {1} /\ <<h>>[1] = h  OBVIOUS
    <3> QED  BY <2>1, <3>1 DEF RemoveAll
  <2>3. <<h>> \in Seq(DOMAIN slots)  BY <2>2 DEF Full
  <2> QED  BY <2>1, <2>3, StoreMovesAreMapMoves
<1>7. ASSUME NEW h \in Handles, HostTake(h) PROVE Map!Next
  BY <1>7, StoreMovesAreMapMoves DEF HostTake
<1>8. ASSUME NEW h \in Handles, NEW v \in Values, HostRestore(h, v)
      PROVE  Map!Next \/ UNCHANGED Named
  BY <1>8, WhatMayCome, StoreMovesAreMapMoves DEF HostRestore
<1>9. ASSUME NEW l \in lent, HostKeep(l) PROVE UNCHANGED Named
  BY <1>9 DEF HostKeep, Keep, Named
<1>10. CASE UNCHANGED vars  BY <1>10 DEF vars, storeVars, Named
<1> QED
  BY <1>1, <1>2, <1>3, <1>4, <1>5, <1>6, <1>7, <1>8, <1>9, <1>10 DEF Next, RubyStep, HostStep

\* The slab, used by objects, calls, the collector and the host, keeps what a
\* map of handles promises (HostStore, RubyClass).
THEOREM StoreImplementsHandleMap == Spec => ImplementsHandleMap
BY MapStart, MapStep, ValuesAlways, PTL DEF Spec, ImplementsHandleMap, Map!Spec

---------------------------------------------------------------------------
(* Dying values *)

\* The receiver of a call in progress is there, and carries the handle the call
\* will give its value back to.
ReceiversStay ==
  \A i \in DOMAIN calls :
    There(calls[i][1]) /\ Carried(calls[i][1]) = calls[i][2]

\* As long as the calls are the same and their receivers are.
LEMMA ReceiversUndisturbed ==
  ASSUME ReceiversStay, UNCHANGED calls,
         \A i \in DOMAIN calls : objects'[calls[i][1]] = objects[calls[i][1]]
  PROVE  ReceiversStay'
BY DEF ReceiversStay, There, Carried

LEMMA ReceiversKept == ValuesInv /\ ReceiversStay /\ [Next]_vars => ReceiversStay'
<1> SUFFICES ASSUME ValuesInv, ReceiversStay, [Next]_vars PROVE ReceiversStay'
  OBVIOUS
<1>0. /\ calls \in Seq(Objects \X Handles \X Values) /\ TypeOK
      /\ objects \in [Objects -> (Handles \X Values) \cup {NoObject}]
      /\ \A i \in DOMAIN calls : calls[i][1] \in Objects
  BY EntryFacts DEF ValuesInv, CallsInv, TypeOK
<1>1. CASE GiveBack
  <2>1. /\ objects' = objects /\ DOMAIN calls' \subseteq DOMAIN calls
        /\ \A i \in DOMAIN calls' : calls'[i] = calls[i]
    BY <1>0, <1>1 DEF GiveBack
  <2> QED  BY <2>1 DEF ReceiversStay, There, Carried
<1>2. ASSUME NEW o \in Objects, TakeOut(o) PROVE ReceiversStay'
  <2> DEFINE n == Len(calls) + 1
             new == <<o, Carried(o), slots[Carried(o)]>>
  <2>1. There(o) /\ objects' = objects /\ calls' = Append(calls, new)
    BY <1>2 DEF TakeOut
  <2>2. /\ DOMAIN calls' = DOMAIN calls \cup {n} /\ calls'[n] = new
        /\ \A i \in DOMAIN calls : calls'[i] = calls[i]
    BY <1>0, <2>1
  <2>3. new[1] = o /\ new[2] = Carried(o)
    OBVIOUS
  <2> HIDE DEF n, new
  <2> QED  BY <2>1, <2>2, <2>3 DEF ReceiversStay, There, Carried
<1>3. ASSUME NEW o \in Objects, NEW v \in Values, IntoHandle(o, v) PROVE ReceiversStay'
  <2>1. /\ ~There(o) /\ UNCHANGED calls
        /\ \A p \in Objects : p # o => objects'[p] = objects[p]
    BY <1>0, <1>3 DEF IntoHandle
  <2>2. \A i \in DOMAIN calls : calls[i][1] # o
    BY <2>1 DEF ReceiversStay
  <2> QED  BY <1>0, <2>1, <2>2, ReceiversUndisturbed
<1>4. ASSUME NEW S \in SUBSET Objects, Collect(S) PROVE ReceiversStay'
  <2>1. /\ UNCHANGED calls /\ \A o \in S : ~InCall(o)
        /\ \A o \in Objects : o \notin S => objects'[o] = objects[o]
    BY <1>0, <1>4 DEF Collect
  <2>2. \A i \in DOMAIN calls : calls[i][1] \notin S
    BY <2>1 DEF InCall
  <2> QED  BY <1>0, <2>1, <2>2, ReceiversUndisturbed
<1>5. CASE HostStep
  BY <1>5, ReceiversUndisturbed DEF HostStep, HostInsert, HostRemove, HostTake, HostRestore, HostKeep
<1>6. CASE UNCHANGED vars
  BY <1>6, ReceiversUndisturbed DEF vars
<1> QED  BY <1>1, <1>2, <1>3, <1>4, <1>5, <1>6 DEF Next, RubyStep

\* A list of all of a finite set, without repetitions, names all of it.
LEMMA ListsNameAll ==
  ASSUME NEW D, IsFiniteSet(D), NEW order \in [1 .. Cardinality(D) -> D],
         \A i, j \in DOMAIN order : order[i] = order[j] => i = j
  PROVE  Listed(order) = D
<1>1. Cardinality(D) \in Nat
  BY FS_CardinalityType
<1>2. order \in Seq(D) /\ Len(order) = Cardinality(D) /\ Listed(order) \subseteq D
  BY <1>1 DEF Listed
<1>3. Cardinality(Listed(order)) = Cardinality(D)
  BY <1>2, ListsCount
<1> QED  BY <1>2, <1>3, FS_Subset

\* A collection takes the value of every object it frees with it.
LEMMA CollectDrops ==
  ASSUME ValuesInv, ReceiversStay, careful, NEW S \in SUBSET Objects, Collect(S), NEW o \in S
  PROVE  \A h \in DOMAIN slots' : slots'[h] # Own(o)
<1> DEFINE dropped == {Carried(p) : p \in S} \cap Full
<1>1. PICK order \in [1 .. Cardinality(dropped) -> dropped] : RemoveAll(order)
  BY DEF Collect
<1>2. There(o) /\ ~InCall(o)
  BY DEF Collect
<1>3. order \in Seq(DOMAIN slots) /\ IsFiniteSet(dropped)
  <2>1. IsFiniteSet(DOMAIN slots) /\ dropped \subseteq DOMAIN slots
    BY SlotFacts DEF ValuesInv, CallsInv, StoreInv, Full
  <2> QED  BY <1>1, <2>1, DropsAreSlots, FS_Subset DEF ValuesInv, CallsInv, StoreInv
<1>4. Listed(order) = dropped
  <2>1. \A i, j \in DOMAIN order : order[i] = order[j] => i = j
    BY <1>1 DEF RemoveAll
  <2> HIDE DEF dropped
  <2> QED  BY <1>3, <2>1, ListsNameAll
<1>5. /\ DOMAIN slots' = DOMAIN slots
      /\ \A h \in DOMAIN slots : slots'[h] = IF h \in Listed(order) THEN Empty ELSE slots[h]
  BY <1>1, <1>3, RemoveAllDoes DEF ValuesInv, CallsInv
<1>6. Carried(o) \in Full /\ slots[Carried(o)] = Own(o)
  <2> SUFFICES ASSUME NEW i \in DOMAIN calls, calls[i][2] = Carried(o)
               PROVE  FALSE
    BY <1>2 DEF ValuesInv, ObjectsReachTheirOwn
  <2>1. /\ calls[i][1] \in Objects /\ There(calls[i][1])
        /\ Carried(calls[i][1]) = Carried(o)
    BY EntryFacts DEF ReceiversStay, ValuesInv, CallsInv
  <2>2. calls[i][1] = o
    BY <1>2, <2>1 DEF ValuesInv, ClaimsDiffer
  <2> QED  BY <1>2, <2>2 DEF InCall
<1>7. Own(o) \in Values
  BY <1>2, EntryFacts DEF ValuesInv, CallsInv
<1> SUFFICES ASSUME NEW h \in DOMAIN slots, slots'[h] = Own(o)
             PROVE  FALSE
  BY <1>5
<1>8. h \notin Listed(order) /\ slots[h] = Own(o)
  BY <1>5, <1>7, MarksAreNoValues
<1>9. h = Carried(o)
  BY <1>6, <1>7, <1>8 DEF Full, ValuesInv, CallsInv, StoreInv, OneOwner
<1> QED  BY <1>4, <1>6, <1>8, <1>9

\* Under a careful host a value dies with the object that carries it, whatever
\* calls are in progress meanwhile (host_store_free, gc_collect).
THEOREM ValuesGoWithTheirObject == Spec => ValuesDieWithTheirObject
<1> DEFINE Dies == \A o \in Objects :
                     careful /\ There(o) /\ ~There(o)'
                       => \A h \in DOMAIN slots' : slots'[h] # Own(o)
           Inv == ValuesInv /\ ReceiversStay
<1>1. Init => ReceiversStay
  BY DEF Init, ReceiversStay
<1>2. ASSUME Inv, [Next]_vars
      PROVE  [Dies]_vars
  <2> SUFFICES ASSUME Next, NEW o \in Objects, careful, There(o), ~There(o)'
               PROVE  \A h \in DOMAIN slots' : slots'[h] # Own(o)
    BY <1>2
  <2>1. CASE \E S \in SUBSET Objects : Collect(S)
    <3>1. PICK S \in SUBSET Objects : Collect(S)
      BY <2>1
    <3>2. o \in S
      BY <3>1 DEF Collect, There
    <3> QED  BY <1>2, <3>1, <3>2, CollectDrops
  <2>2. CASE GiveBack \/ HostStep \/ \E p \in Objects : TakeOut(p)
    BY <2>2 DEF GiveBack, HostStep, HostInsert, HostRemove, HostTake, HostRestore, HostKeep,
                TakeOut, There
  <2>3. ASSUME NEW p \in Objects, NEW v \in Values, IntoHandle(p, v)
        PROVE  FALSE
    <3>1. /\ objects' = [objects EXCEPT ![p] = <<NextHandle, v>>] /\ ~There(p)
          /\ objects \in [Objects -> (Handles \X Values) \cup {NoObject}]
      BY <1>2, <2>3 DEF IntoHandle, ValuesInv, CallsInv, TypeOK
    <3> QED  BY <3>1 DEF There
  <2> QED  BY <2>1, <2>2, <2>3 DEF Next, RubyStep
<1>3. Inv /\ [Next]_vars => ReceiversStay'
  BY ReceiversKept
<1> HIDE DEF Dies
<1>4. Spec => [][Dies]_vars
  BY <1>1, <1>2, <1>3, ValuesAlways, PTL DEF Spec
<1> QED  BY <1>4 DEF Dies, ValuesDieWithTheirObject
===========================================================================
