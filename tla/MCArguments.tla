---------------------------- MODULE MCArguments ----------------------------
(* Finite instances of Arguments. *)
EXTENDS Arguments

A1 == Plain("a1")
A2 == Plain("a2")
A3 == Plain("a3")
A4 == Plain("a4")
A5 == Plain("a5")

\* Up to one more argument than go into an Array, a method's name first or an
\* Array alone.
MCArgLists ==
  {SubSeq(<<A1, A2, A3, A4, A5>>, 1, n) : n \in 0..5}
    \cup {<<Name>> \o SubSeq(<<A1, A2, A3, A4>>, 1, n) : n \in {0, 1, 3, 4}}
    \cup {<<Arr(<<A1, A2, A3>>)>>, <<Name, Arr(<<A1>>)>>}

MCArgVals == {A1, A2, A3, A4, A5, Name, Arr(<<A1, A2, A3>>), Arr(<<A1>>)}

List(m1, o, r, m2, strict) ==
  [m1 |-> m1, o |-> o, r |-> r, m2 |-> m2, kd |-> 0, strict |-> strict, noblock |-> FALSE,
   kwrest |-> FALSE, required |-> {}, optional |-> {}]

WithKeywords(f, required, optional, kwrest) ==
  [f EXCEPT !.kd = 1, !.required = required, !.optional = optional, !.kwrest = kwrest]

MCParams ==
  {f \in {List(m1, o, r, m2, strict) :
            m1 \in 0..2, o \in {0, 2}, r \in {0, 1}, m2 \in {0, 2}, strict \in BOOLEAN}
          \cup {List(4, 0, 0, 0, TRUE), [List(1, 0, 0, 0, TRUE) EXCEPT !.noblock = TRUE]}
          \cup {WithKeywords(List(m1, 1, r, 0, strict), {"j"}, {"k"}, FALSE) :
                  m1 \in {0, 1}, r \in {0, 1}, strict \in BOOLEAN}
          \cup {WithKeywords(List(1, 0, 0, 1, TRUE), {}, {"k"}, TRUE)} :
     f.kd = 1 => Size(f) # CALL_MAXARGS}
============================================================================
