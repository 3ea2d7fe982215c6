----------------------------- MODULE MCNumbers ------------------------------
(* A finite instance of Numbers: limbs of 3 bits, so that an i64 has 6. *)
EXTENDS Numbers

\* Around zero, the limits of an i64, one, two and three limbs, and numbers
\* whose quotients need their estimate corrected.
MCOperands ==
  {bint_value(from_i64(n)) : n \in {0, 1, -1, 2, 3, -7, 8, 13, 31, -31, -32}}
    \cup {bint_value(make(below, m)) : below \in BOOLEAN,
            m \in {<<0, 4>>, <<7, 7>>, <<0, 0, 1>>, <<5, 2, 4>>, <<7, 7, 7>>, <<0, 0, 4, 4>>}}
=============================================================================
