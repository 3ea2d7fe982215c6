---------------------------- MODULE HostValues ----------------------------
(***************************************************************************)
(* A HostStore with those who hold its handles: Ruby objects (Data), the   *)
(* calls in progress on them, the collector, and the host itself.          *)
(*                                                                         *)
(* A method that is given the VM takes its receiver out of the store and   *)
(* gives it back when it returns (RubyClass, #[ruby_methods]); in between  *)
(* it may run Ruby, which calls other methods, makes objects and collects. *)
(***************************************************************************)
EXTENDS HostStore

CONSTANTS Objects,      \* the Data objects of this store's tag
          NoObject,     \* no object is there
          MaxCalls      \* bound on nested calls

ASSUME ValuesAssumption ==
  /\ IsFiniteSet(Objects)
  /\ NoObject \notin Handles \X Values
  /\ MaxCalls \in Nat

VARIABLES objects,      \* the handle each object carries and the value it was made for
          calls,        \* the calls in progress: object, handle, value taken out
          careful       \* so far the host left alone what a Ruby object names

vars == <<storeVars, objects, calls, careful>>

TypeOK ==
  /\ StoreTypeOK
  /\ objects \in [Objects -> (Handles \X Values) \cup {NoObject}]
  /\ calls \in Seq(Objects \X Handles \X Values)
  /\ careful \in BOOLEAN

Init ==
  /\ StoreInit
  /\ objects = [o \in Objects |-> NoObject]
  /\ calls = <<>>
  /\ careful = TRUE

There(o) == objects[o] # NoObject

Carried(o) == objects[o][1]

Own(o) == objects[o][2]

\* The handles a live object carries.
Claimed == {Carried(o) : o \in {p \in Objects : There(p)}}

InCall(o) == \E i \in DOMAIN calls : calls[i][1] = o

---------------------------------------------------------------------------
(* Ruby's side *)

\* into_handle: the value goes in and an object carries its handle.
IntoHandle(o, v) ==
  /\ ~There(o)
  /\ Insert(v)
  /\ objects' = [objects EXCEPT ![o] = <<NextHandle, v>>]
  /\ UNCHANGED <<calls, careful>>

\* A method call takes its receiver out. Where the value is out already, or
\* gone, the call raises and changes nothing.
TakeOut(o) ==
  /\ There(o)
  /\ Len(calls) < MaxCalls
  /\ Take(Carried(o))
  /\ calls' = Append(calls, <<o, Carried(o), slots[Carried(o)]>>)
  /\ UNCHANGED <<objects, careful>>

\* The innermost call returns, with an answer or an exception.
GiveBack ==
  LET last == calls[Len(calls)]
  IN /\ calls # <<>>
     /\ Restore(last[2], last[3])
     /\ calls' = SubSeq(calls, 1, Len(calls) - 1)
     /\ UNCHANGED <<objects, careful>>

\* A collection frees the objects of S, which nothing reaches (the receiver of
\* a call in progress is reached), in the order of the heap's slots, which is any;
\* each handle that names a value loses it.
Collect(S) ==
  LET dropped == {Carried(o) : o \in S} \cap Full
  IN /\ S # {}
     /\ \A o \in S : There(o) /\ ~InCall(o)
     /\ \E order \in [1 .. Cardinality(dropped) -> dropped] : RemoveAll(order)
     /\ objects' = [o \in Objects |-> IF o \in S THEN NoObject ELSE objects[o]]
     /\ UNCHANGED <<calls, careful>>

---------------------------------------------------------------------------
(* The host's side *)

\* The host gives up or takes a number, which should be no object's (doc of
\* HostStore).
Touches(h) == careful' = (careful /\ h \notin Claimed)

HostInsert(v) == Insert(v) /\ UNCHANGED <<objects, calls, careful>>

HostRemove(h) == Remove(h) /\ Touches(h) /\ UNCHANGED <<objects, calls>>

HostTake(h) == Take(h) /\ Touches(h) /\ UNCHANGED <<objects, calls>>

\* The host puts back what it took, or tries to put another value of its own
\* in a place: where no call on an object waits, it may be any place.
HostRestore(h, v) ==
  /\ h \in DOMAIN slots
  /\ v \in InHand \/ <<h, v>> \in lent
  /\ \A i \in DOMAIN calls : calls[i][2] # h
  /\ Restore(h, v)
  /\ UNCHANGED <<objects, calls, careful>>

HostKeep(l) ==
  /\ \A i \in DOMAIN calls : calls[i][2] # l[1]
  /\ Keep(l[1], l[2])
  /\ UNCHANGED <<objects, calls, careful>>

RubyStep ==
  \/ GiveBack
  \/ \E o \in Objects : TakeOut(o) \/ \E v \in Values : IntoHandle(o, v)
  \/ \E S \in SUBSET Objects : Collect(S)

HostStep ==
  \/ \E v \in Values : HostInsert(v)
  \/ \E h \in Handles : HostRemove(h) \/ HostTake(h) \/ \E v \in Values : HostRestore(h, v)
  \/ \E l \in lent : HostKeep(l)

Next == RubyStep \/ HostStep

Spec == Init /\ [][Next]_vars

---------------------------------------------------------------------------
(* Properties *)

\* An object reaches its own value or is told why not: while the host leaves
\* claimed numbers alone, the handle an object carries names the value it was
\* made for, or that value is out in a call, never another one (insert, take,
\* remove, host_store_free).
ObjectsReachTheirOwn ==
  careful =>
    \A o \in Objects : There(o) =>
      \/ Carried(o) \in Full /\ slots[Carried(o)] = Own(o)
      \/ \E i \in DOMAIN calls :
           calls[i][2] = Carried(o) /\ calls[i][3] = Own(o) /\ slots[Carried(o)] = Out

\* Whatever the host gives up, collects or takes, a call that returns finds the
\* place it took its receiver from still waiting, so the value is never dropped
\* nor put over another (take_out, give_back, remove).
LoansComeHome ==
  \A i \in DOMAIN calls :
    /\ calls[i][2] \in OnLoan
    /\ <<calls[i][2], calls[i][3]>> \in lent
    /\ \A j \in DOMAIN calls : calls[i][2] = calls[j][2] => i = j

\* A value dies with the object that carries it: no slot holds it after the
\* collection, so nothing is left that no handle names (host_store_free).
ValuesDieWithTheirObject ==
  [][\A o \in Objects :
       careful /\ There(o) /\ ~There(o)'
         => \A h \in DOMAIN slots' : slots'[h] # Own(o)]_vars
===========================================================================
