------------------------------ MODULE Numbers -------------------------------
(***************************************************************************)
(* Ruby's Integer in two widths: an i64 while the number fits, a BigInt    *)
(* when it does not (src/src/builtins/numeric.rs, ext_numeric.rs, and the  *)
(* fast paths of vm.rs).  A program computes with two numbers x and y; an  *)
(* answer may become the next operand, so that every operation meets both  *)
(* widths, the limits of an i64 and the limits of a limb.                  *)
(***************************************************************************)
EXTENDS BigInt

CONSTANTS
  Operands,     \* the numbers a program starts from
  POW_MAX_BITS, \* the cap on the bits of a power
  MAX_SHIFT,    \* the cap on a shift to the left
  MaxCalls,     \* calls in a row (bound of the instance)
  MaxNum        \* answers that are computed on with (bound of the instance)

VARIABLES x, y, calls

vars == <<x, y, calls>>

WORD == BASE * BASE
INT_BITS == 2 * LIMB_BITS
MIN == -(WORD \div 2)
MAX == WORD \div 2 - 1

\* An i64 whose arithmetic wraps.
Wrapped(n) == LET w == n % WORD IN IF w > MAX THEN w - WORD ELSE w

\* Rust's `/` and `%`: towards zero.
Quot(p, q) == Sgn(p) * Sgn(q) * (Magnitude(p) \div Magnitude(q))
Rem(p, q) == p - q * Quot(p, q)

Int64(n) == [big |-> FALSE, n |-> n, b |-> Zero]
Wide(b) == [big |-> TRUE, n |-> 0, b |-> b]

\* The answer of a call, or what it raises.
Answer(v) == [raises |-> "nothing", v |-> v]
Raise(error) == [raises |-> error, v |-> Int64(0)]
Checked(n) == n \in MIN .. MAX

-----------------------------------------------------------------------------

bint_value(b) == IF Fits(b) THEN Int64(to_i64(b)) ELSE Wide(b)
as_bigint(v) == IF v.big THEN v.b ELSE from_i64(v.n)

IsZero(v) == ~v.big /\ v.n = 0
Small(v, w) == ~v.big /\ ~w.big

-----------------------------------------------------------------------------
(* + - * and what is built on them. *)

\* Op on i64s where it does not overflow, OpB on wide integers.
int_arith(v, w, Op(_, _), OpB(_, _)) ==
  IF Small(v, w) /\ Checked(Op(v.n, w.n)) THEN Int64(Op(v.n, w.n))
  ELSE bint_value(OpB(as_bigint(v), as_bigint(w)))

Plus(v, w) == int_arith(v, w, LAMBDA p, q : p + q, add)
Minus(v, w) == int_arith(v, w, LAMBDA p, q : p - q, sub)
Times(v, w) == int_arith(v, w, LAMBDA p, q : p * q, mul)

num_uminus(v) ==
  IF v.big THEN Times(Int64(-1), v)
  ELSE IF Checked(-v.n) THEN Int64(-v.n) ELSE bint_value(neg(from_i64(v.n)))

\* Two numbers of which one is wide are compared as wide ones.
num_cmp(v, w) == IF Small(v, w) THEN Sgn(v.n - w.n) ELSE cmp(as_bigint(v), as_bigint(w))

bint_pow(b, e) ==
  IF e < 0 THEN Raise("negative exponent")
  ELSE IF e > 0 /\ e > POW_MAX_BITS \div (IF is_zero(b) THEN 1 ELSE bit_length(b))
  THEN Raise("exponent too large")
  ELSE Answer(bint_value(pow(b, e)))

\* The squarings of int_pow, <<>> where one of them overflows.
RECURSIVE SmallPow(_, _, _)
SmallPow(r, b, e) ==
  LET r1 == IF e % 2 = 1 THEN r * b ELSE r
  IN  IF ~Checked(r1) THEN <<>>
      ELSE IF e \div 2 = 0 THEN <<r1>>
      ELSE IF ~Checked(b * b) THEN <<>> ELSE SmallPow(r1, b * b, e \div 2)

int_pow(v, w) ==
  IF v.big THEN IF w.big THEN Raise("too big power") ELSE bint_pow(v.b, w.n)
  ELSE IF w.big THEN Raise("integer out of range")
  ELSE IF w.n < 0 THEN Raise("a Float instead")
  ELSE LET small == SmallPow(1, v.n, w.n)
       IN  IF small # <<>> THEN Answer(Int64(small[1])) ELSE bint_pow(from_i64(v.n), w.n)

-----------------------------------------------------------------------------
(* Division and what is built on it. *)

div_floor(p, q) ==
  IF Rem(p, q) # 0 /\ (p < 0) # (q < 0) THEN Quot(p, q) - 1 ELSE Quot(p, q)
mod_floor(p, q) ==
  IF Rem(p, q) # 0 /\ (Rem(p, q) < 0) # (q < 0) THEN Rem(p, q) + q ELSE Rem(p, q)

LeavesTheRange(v, w) == v = Int64(MIN) /\ w = Int64(-1)

\* The one quotient that leaves the range wraps.
int_div_slip(v, w) ==
  IF IsZero(w) THEN Raise("divided by 0")
  ELSE IF Small(v, w) THEN Answer(Int64(Wrapped(div_floor(v.n, w.n))))
  ELSE Answer(bint_value(divmod_floor(as_bigint(v), as_bigint(w)).q))

int_div(v, w) ==
  IF IsZero(w) THEN Raise("divided by 0")
  ELSE IF LeavesTheRange(v, w) THEN Answer(bint_value(neg(from_i64(v.n))))
  ELSE IF Small(v, w) THEN Answer(Int64(div_floor(v.n, w.n)))
  ELSE Answer(bint_value(divmod_floor(as_bigint(v), as_bigint(w)).q))

\* Integer#div of a small receiver takes no wide divisor.
int_idiv(v, w) == IF ~v.big /\ w.big THEN Raise("integer out of range") ELSE int_div(v, w)

\* A zero receiver is its own answer, whatever small number divides it.
int_mod(v, w) ==
  IF IsZero(v) /\ ~w.big THEN Answer(v)
  ELSE IF IsZero(w) THEN Raise("divided by 0")
  ELSE IF LeavesTheRange(v, w) THEN Answer(Int64(0))
  ELSE IF Small(v, w) THEN Answer(Int64(mod_floor(v.n, w.n)))
  ELSE Answer(bint_value(divmod_floor(as_bigint(v), as_bigint(w)).r))

\* The quotient and the remainder.
int_divmod(v, w) ==
  LET d == divmod_floor(as_bigint(v), as_bigint(w))
  IN  IF IsZero(w) THEN <<Raise("divided by 0"), Raise("divided by 0")>>
      ELSE IF LeavesTheRange(v, w) THEN <<Answer(bint_value(neg(from_i64(v.n)))), Answer(Int64(0))>>
      ELSE IF Small(v, w) THEN <<Answer(Int64(div_floor(v.n, w.n))), Answer(Int64(mod_floor(v.n, w.n)))>>
      ELSE <<Answer(bint_value(d.q)), Answer(bint_value(d.r))>>

int_remainder(v, w) ==
  IF IsZero(w) THEN Raise("divided by 0")
  ELSE IF ~Small(v, w) THEN Answer(bint_value(rem_trunc(as_bigint(v), as_bigint(w))))
  ELSE IF LeavesTheRange(v, w) THEN Answer(Int64(0)) ELSE Answer(Int64(Rem(v.n, w.n)))

\* A negative modulus moves an answer that is not zero down by it.
MovedBy(m, r) == IF sign(m) < 0 /\ ~is_zero(r) THEN sub(r, abs(m)) ELSE r

bint_powm(v, e, m) ==
  IF IsZero(m) THEN Raise("divided by 0")
  ELSE IF sign(as_bigint(e)) < 0 THEN Raise("n must be positive")
  ELSE IF IsZero(v) /\ ~IsZero(e) THEN Answer(Int64(0))
  ELSE Answer(bint_value(MovedBy(as_bigint(m),
                                 powm(as_bigint(v), as_bigint(e), abs(as_bigint(m))))))

\* p * q % m, both reduced where the product overflows: [ok, t, p, q].
MulMod(p, q, m) ==
  IF Checked(p * q) THEN [ok |-> TRUE, t |-> Rem(p * q, m), q |-> q]
  ELSE [ok |-> Checked(Rem(p, m) * Rem(q, m)), t |-> Rem(Rem(p, m) * Rem(q, m), m), q |-> Rem(q, m)]

\* The loop of int_powm, <<>> where a product overflows twice.
RECURSIVE SmallPowm(_, _, _, _)
SmallPowm(result, base, e, m) ==
  LET r == IF e % 2 = 1 THEN MulMod(result, base, m) ELSE [ok |-> TRUE, t |-> result, q |-> base]
      s == MulMod(r.q, r.q, m)
  IN  IF ~r.ok THEN <<>>
      ELSE IF e \div 2 = 0 THEN <<r.t>>
      ELSE IF ~s.ok THEN <<>> ELSE SmallPowm(r.t, s.t, e \div 2, m)

int_powm(v, e, m) ==
  IF v.big \/ e.big \/ m.big THEN bint_powm(v, e, m)
  ELSE IF e.n < 0 THEN Raise("n must be positive")
  ELSE IF m.n = 0 THEN Raise("divided by 0")
  ELSE LET modulus == IF m.n < 0 THEN Wrapped(-m.n) ELSE m.n
           small == SmallPowm(1, v.n, e.n, modulus)
       IN  IF modulus = 1 \/ (v.n = 0 /\ e.n > 0) THEN Answer(Int64(0))
           ELSE IF small = <<>> THEN bint_powm(v, e, m)
           ELSE Answer(Int64(IF m.n < 0 /\ small[1] # 0 THEN Wrapped(small[1] - modulus) ELSE small[1]))

RECURSIVE GcdRaw(_, _)
GcdRaw(p, q) == IF q = 0 THEN p ELSE GcdRaw(q, p % q)
gcd_raw(p, q) == Wrapped(GcdRaw(Magnitude(p), Magnitude(q)))

int_gcd(v, w) ==
  IF ~Small(v, w) THEN Answer(bint_value(gcd(as_bigint(v), as_bigint(w))))
  ELSE IF gcd_raw(v.n, w.n) < 0 THEN Raise("integer overflow in gcd")
  ELSE Answer(Int64(gcd_raw(v.n, w.n)))

int_lcm(v, w) ==
  LET l == Quot(Magnitude(v.n), gcd_raw(v.n, w.n)) * Magnitude(w.n)
  IN  IF ~Small(v, w) THEN Answer(bint_value(lcm(as_bigint(v), as_bigint(w))))
      ELSE IF v.n = 0 \/ w.n = 0 THEN Answer(Int64(0))
      ELSE IF MIN \in {v.n, w.n} \/ ~Checked(l) THEN Raise("integer overflow in lcm")
      ELSE Answer(Int64(l))

-----------------------------------------------------------------------------
(* Bits. *)

\* Op on the words of i64s, OpB on wide integers.
bit(v, w, Op(_, _), OpB(_, _)) ==
  IF Small(v, w) THEN Int64(Wrapped(Op(v.n % WORD, w.n % WORD)))
  ELSE bint_value(OpB(as_bigint(v), as_bigint(w)))

BitAnd(v, w) == bit(v, w, LAMBDA p, q : p & q, and)
BitOr(v, w) == bit(v, w, LAMBDA p, q : p | q, or)
BitXor(v, w) == bit(v, w, LAMBDA p, q : p ^^ q, xor)
Invert(v) == IF v.big THEN bint_value(not(v.b)) ELSE Int64(-v.n - 1)

\* Bits that leave the word are lost.
shift_slip(v, w, left) ==
  LET n == Magnitude(w.n)
      toLeft == left = (w.n >= 0)
      fits == Checked(v.n * 2^n)
  IN  IF w.big THEN Raise("integer out of range")
      ELSE IF ~v.big /\ ~toLeft
      THEN Answer(Int64(IF n < INT_BITS THEN v.n \div 2^n ELSE IF v.n < 0 THEN -1 ELSE 0))
      ELSE IF ~v.big /\ (v.n = 0 \/ n < INT_BITS) THEN Answer(Int64(Wrapped(v.n * 2^n)))
      ELSE IF toLeft /\ n > MAX_SHIFT THEN Raise("shift width too big")
      ELSE Answer(bint_value(IF toLeft THEN shl(as_bigint(v), n) ELSE shr(as_bigint(v), n)))

\* A shift by a negative width goes the other way; one to the left that loses
\* no bit stays an i64.
shift(v, w, left) ==
  LET n == Magnitude(w.n)
      toLeft == left = (w.n >= 0)
      shifted == Wrapped(v.n * 2^n)
  IN  IF w.big THEN Raise("integer out of range")
      ELSE IF ~v.big /\ ~toLeft
      THEN Answer(Int64(IF n < INT_BITS THEN v.n \div 2^n ELSE IF v.n < 0 THEN -1 ELSE 0))
      ELSE IF ~v.big /\ v.n = 0 THEN Answer(v)
      ELSE IF ~v.big /\ n < INT_BITS /\ shifted \div 2^n = v.n THEN Answer(Int64(shifted))
      ELSE IF toLeft /\ n > MAX_SHIFT THEN Raise("shift width too big")
      ELSE Answer(bint_value(IF toLeft THEN shl(as_bigint(v), n) ELSE shr(as_bigint(v), n)))

-----------------------------------------------------------------------------
(* Roots. *)

\* isqrt of an i64, whose arithmetic wraps at the last of them.
RECURSIVE SmallRoot(_, _, _)
SmallRoot(n, r, next) ==
  IF next < r THEN SmallRoot(n, next, Quot(next + Quot(n, next), 2)) ELSE r
isqrt(n) == IF n < 2 THEN n ELSE SmallRoot(n, n, Quot(Wrapped(n + 1), 2))

int_sqrt(v) ==
  IF v.big THEN IF sign(v.b) < 0 THEN Raise("square root of negative number") ELSE Answer(bint_value(sqrt(v.b)))
  ELSE IF v.n < 0 THEN Raise("non-negative integer required") ELSE Answer(Int64(isqrt(v.n)))

-----------------------------------------------------------------------------
(* The program. *)

\* The number a value stands for.
RECURSIVE Sum(_)
Sum(mag) == IF mag = <<>> THEN 0 ELSE Sum(Tail(mag)) * BASE + Head(mag)
Num(v) == IF v.big THEN (IF v.b.neg THEN -Sum(v.b.mag) ELSE Sum(v.b.mag)) ELSE v.n

Goes(answer) ==
  /\ answer.raises = "nothing"
  /\ Num(answer.v) \in -MaxNum .. MaxNum
  /\ x' = answer.v
  /\ UNCHANGED y

Add == Goes(Answer(Plus(x, y)))
Subtract == Goes(Answer(Minus(x, y)))
Multiply == Goes(Answer(Times(x, y)))
Negate == Goes(Answer(num_uminus(x)))
Power == Goes(int_pow(x, y))
Divide == Goes(int_div(x, y)) \/ Goes(int_idiv(x, y))
Modulo == Goes(int_mod(x, y)) \/ Goes(int_divmod(x, y)[2]) \/ Goes(int_remainder(x, y))
PowerModulo == \E m \in Operands : Goes(int_powm(x, y, m))
Divisors == Goes(int_gcd(x, y)) \/ Goes(int_lcm(x, y))
Bits == \/ Goes(Answer(BitAnd(x, y))) \/ Goes(Answer(BitOr(x, y)))
        \/ Goes(Answer(BitXor(x, y))) \/ Goes(Answer(Invert(x)))
Shift == \E left \in BOOLEAN : Goes(shift(x, y, left))
Root == Goes(int_sqrt(x))
Swap == x' = y /\ y' = x

Init == x \in Operands /\ y \in Operands /\ calls = 0

Next ==
  /\ calls < MaxCalls /\ calls' = calls + 1
  /\ \/ Add \/ Subtract \/ Multiply \/ Negate \/ Power \/ Divide \/ Modulo
     \/ PowerModulo \/ Divisors \/ Bits \/ Shift \/ Root \/ Swap

Spec == Init /\ [][Next]_vars

-----------------------------------------------------------------------------
(* Properties *)

\* One number never has two shapes: an i64 where it fits, and limbs without a
\* leading zero where it does not (bint_value).
OneShape(v) ==
  IF v.big THEN ~Checked(Num(v)) /\ v.b = make(v.b.neg, v.b.mag) ELSE Checked(v.n)

Exactly(v, n) == OneShape(v) /\ Num(v) = n

\* An answer that is given is right, and is given unless the code says that it
\* cannot be (`may`).
Answers(answer, n, may) ==
  IF answer.raises = "nothing" THEN Exactly(answer.v, n) ELSE answer.raises \in may

\* isqrt: "the largest `x` with `x * x <= n`", and the same of a wide number.
RootIsTheLargest ==
  LET Largest(r) == Num(r.v)^2 <= Num(x) /\ Num(x) < (Num(r.v) + 1)^2
      Is(r) == IF Num(x) < 0 THEN r.raises # "nothing" ELSE r.raises = "nothing" /\ Largest(r)
  IN  Is(int_sqrt(x))

\* Sums, products, powers, comparisons, digits and roots (but for the one the
\* previous property is about) are those of the integers, whatever the width of
\* the operands and of the answer (int_arith, int_pow, to_string_radix, from_str,
\* sqrt).
ArithmeticIsExact ==
  LET a == Num(x)
      b == Num(y)
  IN /\ Exactly(Plus(x, y), a + b)
     /\ Exactly(Minus(x, y), a - b)
     /\ Exactly(Times(x, y), a * b)
     /\ Exactly(num_uminus(x), -a)
     /\ num_cmp(x, y) = Sgn(a - b)
     /\ LET p == int_pow(x, y)
        IN  IF p.raises = "nothing" THEN Exactly(p.v, IF b = 0 THEN 1 ELSE a^b)
            ELSE \/ b < 0 \/ y.big
                 \/ /\ p.raises = "exponent too large"
                    /\ Magnitude(a) >= 2 /\ b * bit_length(as_bigint(x)) > POW_MAX_BITS
     /\ a # MAX => RootIsTheLargest
     /\ x.big => \A radix \in 2 .. BASE - 1 :
          LET ds == to_string_radix(x.b, radix)
          IN  Value(ds, radix) = Magnitude(a) /\ ds[1] # 0 /\ bint_value(from_str(a < 0, ds, radix)) = x

\* A power modulo a number is the remainder, with the sign of the power, that
\* one multiplication after the other leaves, moved down by a negative modulus
\* (int_powm, bint_powm).  Left out: an answer below every i64 where all three
\* numbers are i64s, since there the last subtraction overflows.
PowersModuloAreExact ==
  LET Ref(m) == LET p[e \in 0 .. Num(y)] == IF e = 0 THEN Rem(1, Magnitude(m))
                                            ELSE Rem(p[e - 1] * Rem(Num(x), Magnitude(m)), Magnitude(m))
                IN  p[Num(y)]
      Moved(m) == IF m < 0 /\ Ref(m) # 0 THEN Ref(m) + m ELSE Ref(m)
  IN  Num(y) \in 0 .. 2 * WORD => \A m \in {w \in Operands : ~IsZero(w)} :
        \/ Answers(int_powm(x, y, m), Moved(Num(m)), {})
        \/ Small(x, y) /\ ~m.big /\ Moved(Num(m)) < MIN

\* Quotients go down, remainders follow the divisor or, for `remainder`, the
\* dividend; divmod, powers modulo a number and common divisors agree with them
\* (int_div, int_mod, int_divmod, int_remainder, int_powm, int_gcd, int_lcm).
DivisionIsExact ==
  LET a == Num(x)
      b == Num(y)
      q == (Sgn(b) * a) \div Magnitude(b)
  IN b # 0 =>
     /\ Answers(int_div(x, y), q, {})
     /\ Answers(int_idiv(x, y), q, IF y.big THEN {"integer out of range"} ELSE {})
     /\ Answers(int_mod(x, y), a - q * b, {})
     /\ Answers(int_divmod(x, y)[1], q, {}) /\ Answers(int_divmod(x, y)[2], a - q * b, {})
     /\ Answers(int_remainder(x, y), Rem(a, b), {})
     /\ LET g == GcdRaw(Magnitude(a), Magnitude(b))
            small == IF Small(x, y) THEN {"integer overflow in gcd", "integer overflow in lcm"} ELSE {}
        IN  /\ Answers(int_gcd(x, y), g, IF g > MAX THEN small ELSE {})
            /\ Answers(int_lcm(x, y), (Magnitude(a) \div g) * Magnitude(b),
                       IF a = MIN \/ b = MIN \/ (Magnitude(a) \div g) * Magnitude(b) > MAX THEN small ELSE {})
     /\ PowersModuloAreExact

BitOf(n, i) == (n \div 2^i) % 2

\* Bit by bit, an Integer is its two's complement with its sign going on for
\* ever, and a shift multiplies or divides, downwards (bit, shift, bitop).
BitsAreTwosComplement ==
  LET a == Num(x)
      b == Num(y)
      EachBit(v, Op(_, _)) ==
        OneShape(v) /\ \A i \in 0 .. 20 : BitOf(Num(v), i) = Op(BitOf(a, i), BitOf(b, i))
      Shifted(n) == IF n >= 0 THEN a * 2^n ELSE IF n < -20 THEN (IF a < 0 THEN -1 ELSE 0) ELSE a \div 2^(-n)
      Tells(n) == IF n > MAX_SHIFT /\ (x.big \/ n >= INT_BITS \/ ~Checked(a * 2^n))
                  THEN {"shift width too big"} ELSE {}
  IN /\ EachBit(BitAnd(x, y), LAMBDA i, j : i * j)
     /\ EachBit(BitOr(x, y), LAMBDA i, j : i + j - i * j)
     /\ EachBit(BitXor(x, y), LAMBDA i, j : (i + j) % 2)
     /\ EachBit(Invert(x), LAMBDA i, j : 1 - i)
     /\ \A n \in -12 .. 12 :
          /\ Answers(shift(x, Int64(n), TRUE), Shifted(n), Tells(n))
          /\ Answers(shift(x, Int64(n), FALSE), Shifted(-n), Tells(-n))

=============================================================================
