----------------------------- MODULE HandleMap -----------------------------
(***************************************************************************)
(* What a HostStore promises to those who hold its handles: a handle names *)
(* the value it was given out for until it is given up, whatever happens   *)
(* to other handles; a value that is lent is still spoken for, so its      *)
(* number goes to nobody else, and what does not come back leaves it named *)
(* by nothing. Which of the unused numbers is given out is left open.      *)
(***************************************************************************)
CONSTANTS Values,       \* the host's values
          Handles,      \* the numbers Ruby may hold
          Nothing,      \* what an unused number names
          Lent          \* what a number names whose value is out on loan

VARIABLE names          \* what each number names

TypeOK == names \in [Handles -> Values \cup {Nothing, Lent}]

Init == names = [h \in Handles |-> Nothing]

Give(h, v) == names[h] = Nothing /\ names' = [names EXCEPT ![h] = v]

GiveUp(H) ==
  /\ \A h \in H : names[h] \in Values
  /\ names' = [h \in Handles |-> IF h \in H THEN Nothing ELSE names[h]]

Lend(h) == names[h] \in Values /\ names' = [names EXCEPT ![h] = Lent]

Return(h, v) == names[h] = Lent /\ names' = [names EXCEPT ![h] = v]

Next ==
  \/ \E h \in Handles : Lend(h) \/ \E v \in Values : Give(h, v) \/ Return(h, v)
  \/ \E H \in SUBSET Handles : GiveUp(H)

Spec == Init /\ [][Next]_names
===========================================================================
