---------------------------- MODULE OrderedDict -----------------------------
(***************************************************************************)
(* What a Hash promises: a dictionary in insertion order.  Keys are eql?   *)
(* when they answer by the same face, and an object key's face may change. *)
(* `sure` says that no two entries are eql? and that every entry is where  *)
(* a search looks for it; a key changed while it is stored, and a call     *)
(* that Ruby disturbed or cut short, may end it until the next rehash or   *)
(* clear.                                                                  *)
(***************************************************************************)
EXTENDS Integers, Sequences

CONSTANTS Keys, ObjKeys, Faces, Vals

VARIABLES dict, face, answer, sure

Eql(a, b) == a = b \/ (a \in ObjKeys /\ b \in ObjKeys /\ face[a] = face[b])
At(k) == {p \in 1..Len(dict) : Eql(k, dict[p].key)}
Distinct(d) == \A p, q \in 1..Len(d) : p # q => ~Eql(d[p].key, d[q].key)
Without(p) == [i \in 1 .. (Len(dict) - 1) |-> IF i < p THEN dict[i] ELSE dict[i + 1]]

Init ==
  /\ dict = <<>> /\ sure = TRUE
  /\ face \in [ObjKeys -> Faces]

\* A search answers an entry eql? to the key, and misses only if there is none.
Search(k) ==
  /\ UNCHANGED <<dict, face, sure>>
  /\ \/ \E p \in At(k) : answer' = [what |-> "hit", key |-> k, entry |-> dict[p]]
     \/ (sure => At(k) = {}) /\ answer' = [what |-> "miss", key |-> k, entry |-> <<>>]
     \/ At(k) = {} /\ answer' = [what |-> "none eql", key |-> k, entry |-> <<>>]

\* A store gives the value to an entry eql? to the key, or adds one at the end
\* if there is none.
Store(k, v) ==
  /\ UNCHANGED face
  /\ \/ \E p \in At(k) :
          /\ dict' = [dict EXCEPT ![p].val = v]
          /\ answer'.what = "hit" => answer' = [what |-> "hit", key |-> k, entry |-> dict[p]]
          /\ sure' => sure
     \/ /\ dict' = Append(dict, [key |-> k, val |-> v])
        /\ sure' => sure /\ At(k) = {}

\* A delete takes an entry eql? to the key, a shift the first one.
Delete(k) ==
  \E p \in At(k) : /\ dict' = Without(p)
                   /\ answer'.what = "hit" => answer'.entry = dict[p]
                   /\ (sure' => sure) /\ UNCHANGED face
Shift ==
  /\ dict # <<>> /\ dict' = Tail(dict)
  /\ answer' = [what |-> "shift", key |-> "none", entry |-> Head(dict)]
  /\ UNCHANGED <<face, sure>>

Clear == dict' = <<>> /\ UNCHANGED face

\* A rehash gives an entry's value to an earlier one it is eql? to.
Merge ==
  /\ \E p, r \in 1..Len(dict) :
       /\ p < r /\ Eql(dict[r].key, dict[p].key)
       /\ dict' = [Without(r) EXCEPT ![p].val = dict[r].val]
  /\ UNCHANGED <<face, sure>>

\* A key comes to answer by another face.
Mutate(k) ==
  /\ \E f \in Faces : face' = [face EXCEPT ![k] = f]
  /\ sure' => sure /\ \A p \in 1..Len(dict) : dict[p].key # k
  /\ UNCHANGED <<dict, answer>>

\* A call ends with no more to say of the entries: in an error, or as the end
\* of a rehash, which knows its entries are distinct.
Other ==
  /\ UNCHANGED <<dict, face>>
  /\ answer'.what \notin {"hit", "miss", "none eql", "shift"}
  /\ sure' => sure \/ Distinct(dict)

Next ==
  \/ \E k \in Keys : Search(k) \/ Delete(k) \/ \E v \in Vals : Store(k, v)
  \/ \E k \in ObjKeys : Mutate(k)
  \/ Shift \/ Clear \/ Merge \/ Other

Spec == Init /\ [][Next]_<<dict, face, answer, sure>>
=============================================================================
