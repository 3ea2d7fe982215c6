------------------------------- MODULE BigInt -------------------------------
(***************************************************************************)
(* The arbitrary-precision integers of src/src/bigint.rs: a sign and the   *)
(* absolute value in limbs of LIMB_BITS bits, least significant first and  *)
(* trimmed.  Each algorithm works on limbs as the code does, so that       *)
(* carries, borrows, estimated quotient digits and sign extensions happen  *)
(* at every place they can; only the limb is smaller.                      *)
(***************************************************************************)
EXTENDS Integers, Sequences, SequencesExt, Bitwise

CONSTANT LIMB_BITS  \* 32 in the code

ASSUME LimbAssumption == LIMB_BITS \in Nat /\ LIMB_BITS >= 2

BASE == 2^LIMB_BITS

Sgn(n) == IF n < 0 THEN -1 ELSE IF n = 0 THEN 0 ELSE 1
Magnitude(n) == IF n < 0 THEN -n ELSE n

Limb(a, i) == IF i \in 1 .. Len(a) THEN a[i] ELSE 0

\* n limbs of the sums T(i, carry), with the carry (or borrow, below zero)
\* handed from each to the next.
Chain(n, T(_, _), first) ==
  LET carry[i \in 0..n] == IF i = 0 THEN first ELSE T(i, carry[i - 1]) \div BASE
  IN  [limbs |-> [i \in 1..n |-> T(i, carry[i - 1]) % BASE], carry |-> carry[n]]

RECURSIVE trim(_)
trim(v) == IF v # <<>> /\ Last(v) = 0 THEN trim(Front(v)) ELSE v

-----------------------------------------------------------------------------
(* Magnitudes. *)

ucmp(a, b) ==
  LET differ == {i \in 1 .. Len(a) : a[i] # b[i]}
      top == CHOOSE i \in differ : \A j \in differ : j <= i
  IN  IF Len(a) # Len(b) THEN Sgn(Len(a) - Len(b))
      ELSE IF differ = {} THEN 0 ELSE Sgn(a[top] - b[top])

uadd(a, b) ==
  LET n == IF Len(a) >= Len(b) THEN Len(a) ELSE Len(b)
      sum == Chain(n, LAMBDA i, c : Limb(a, i) + Limb(b, i) + c, 0)
  IN  IF sum.carry = 0 THEN sum.limbs ELSE Append(sum.limbs, sum.carry)

usub(a, b) == trim(Chain(Len(a), LAMBDA i, c : a[i] - Limb(b, i) + c, 0).limbs)

\* One row of the schoolbook multiplication for each limb of a from i on.
RECURSIVE Rows(_, _, _, _)
Rows(a, b, i, out) ==
  IF i > Len(a) THEN out
  ELSE Rows(a, b, i + 1,
            Chain(Len(out), LAMBDA k, c : out[k] + a[i] * Limb(b, k - i + 1) + c, 0).limbs)

umul(a, b) == trim(Rows(a, b, 1, [k \in 1 .. Len(a) + Len(b) |-> 0]))

umul_small(a, d, add) ==
  LET product == Chain(Len(a), LAMBDA i, c : a[i] * d + c, add)
  IN  trim(Append(product.limbs, product.carry))

\* By one limb, from the top: [q, r].
udiv_small(a, d) ==
  LET n == Len(a)
      rest[i \in 1 .. n + 1] == IF i = n + 1 THEN 0 ELSE (rest[i + 1] * BASE + a[i]) % d
  IN  [q |-> trim([i \in 1..n |-> (rest[i + 1] * BASE + a[i]) \div d]), r |-> rest[1]]

ushl(a, limbs, bits) ==
  LET shifted == Chain(Len(a) + 1, LAMBDA i, c : Limb(a, i) * 2^bits + c, 0).limbs
  IN  IF a = <<>> THEN <<>> ELSE trim([i \in 1..limbs |-> 0] \o shifted)

ushr(a, limbs, bits) ==
  LET src == SubSeq(a, limbs + 1, Len(a))
  IN  trim([i \in 1 .. Len(src) |->
              src[i] \div 2^bits + ((Limb(src, i + 1) * 2^(LIMB_BITS - bits)) % BASE)])

\* The estimated digit is too large while the next limb says so.
RECURSIVE Corrected(_, _, _, _, _)
Corrected(qhat, rhat, v1, v2, next) ==
  IF qhat >= BASE \/ qhat * v2 > rhat * BASE + next
  THEN IF rhat + v1 < BASE THEN Corrected(qhat - 1, rhat + v1, v1, v2, next) ELSE qhat - 1
  ELSE qhat

Estimate(an, bn, j) ==
  LET n == Len(bn)
      top == an[j + n + 1] * BASE + an[j + n]
  IN  Corrected(top \div bn[n], top % bn[n], bn[n], bn[n - 1], an[j + n - 1])

\* an less qhat times bn, from limb j on.
Less(an, bn, j, qhat) == Chain(Len(bn) + 1, LAMBDA i, c : an[j + i] - qhat * Limb(bn, i) + c, 0)

\* The estimate is taken as it is after its first correction.
AddedBack_slip(minus, bn, qhat) == [digit |-> qhat, limbs |-> minus.limbs]

\* The divisor is added back where the digit was one too large after all.
AddedBack(minus, bn, qhat) ==
  IF minus.carry >= 0 THEN [digit |-> qhat, limbs |-> minus.limbs]
  ELSE [digit |-> qhat - 1,
        limbs |-> Chain(Len(bn) + 1, LAMBDA i, c : minus.limbs[i] + Limb(bn, i) + c, 0).limbs]

\* What is left of the dividend, and the digits of the quotient so far.
Taken(at, bn, j, by) ==
  [q |-> <<by.digit>> \o at.q,
   an |-> SubSeq(at.an, 1, j) \o by.limbs \o SubSeq(at.an, j + Len(bn) + 2, Len(at.an))]

\* Knuth's algorithm D from digit j down.
DivStep(at, bn, j) ==
  LET qhat == Estimate(at.an, bn, j)
  IN  Taken(at, bn, j, AddedBack(Less(at.an, bn, j, qhat), bn, qhat))

RECURSIVE DivSteps(_, _, _)
DivSteps(at, bn, j) == IF j < 0 THEN at ELSE DivSteps(DivStep(at, bn, j), bn, j - 1)

Unscaled(at, n, s) == [q |-> trim(at.q), r |-> trim(ushr(SubSeq(at.an, 1, n), 0, s))]

udivmod(a, b) ==
  IF ucmp(a, b) < 0 THEN [q |-> <<>>, r |-> a]
  ELSE IF Len(b) = 1
  THEN LET d == udiv_small(a, b[1]) IN [q |-> d.q, r |-> trim(<<d.r>>)]
  ELSE LET s == CHOOSE s \in 0 .. LIMB_BITS - 1 : Last(b) * 2^s \in BASE \div 2 .. BASE - 1
           bn == Chain(Len(b), LAMBDA i, c : b[i] * 2^s + c, 0).limbs
           an == Chain(Len(a) + 1, LAMBDA i, c : Limb(a, i) * 2^s + c, 0).limbs
       IN  Unscaled(DivSteps([q |-> <<>>, an |-> an], bn, Len(a) - Len(b)), Len(b), s)

-----------------------------------------------------------------------------
(* Signed integers. *)

make(neg, mag) == LET m == trim(mag) IN [neg |-> neg /\ m # <<>>, mag |-> m]

Zero == make(FALSE, <<>>)
is_zero(x) == x.mag = <<>>
sign(x) == IF is_zero(x) THEN 0 ELSE IF x.neg THEN -1 ELSE 1

\* Two limbs are what an i64 or a u64 has.
from_i64(n) == make(n < 0, <<Magnitude(n) % BASE, Magnitude(n) \div BASE>>)
Low(x) == Limb(x.mag, 1) + Limb(x.mag, 2) * BASE
to_i64(x) == IF x.neg THEN -Low(x) ELSE Low(x)

\* i64::MIN is taken for wide.
Fits_slip(x) == Len(x.mag) <= 2 /\ Low(x) < (BASE * BASE) \div 2

\* to_i64 answers a value.
Fits(x) == Len(x.mag) <= 2 /\ Low(x) < (BASE * BASE) \div 2 + (IF x.neg THEN 1 ELSE 0)

One == from_i64(1)

BitLength(mag) ==
  IF mag = <<>> THEN 0
  ELSE (Len(mag) - 1) * LIMB_BITS + (CHOOSE n \in 1..LIMB_BITS : Last(mag) \in 2^(n - 1) .. 2^n - 1)
bit_length(x) == BitLength(x.mag)

cmp(x, y) ==
  IF sign(x) # sign(y) THEN Sgn(sign(x) - sign(y)) ELSE sign(x) * ucmp(x.mag, y.mag)

neg(x) == make(~x.neg, x.mag)
abs(x) == make(FALSE, x.mag)

add(x, y) ==
  IF x.neg = y.neg THEN make(x.neg, uadd(x.mag, y.mag))
  ELSE CASE ucmp(x.mag, y.mag) = 0 -> Zero
         [] ucmp(x.mag, y.mag) > 0 -> make(x.neg, usub(x.mag, y.mag))
         [] OTHER -> make(y.neg, usub(y.mag, x.mag))
sub(x, y) == add(x, neg(y))
mul(x, y) == make(x.neg # y.neg, umul(x.mag, y.mag))

Signed(d, x, y) == [q |-> make(x.neg # y.neg, d.q), r |-> make(x.neg, d.r)]
divmod_trunc(x, y) == Signed(udivmod(x.mag, y.mag), x, y)

\* An exact quotient is rounded down as well.
Floored_slip(d, x, y) == IF x.neg = y.neg THEN d ELSE [q |-> sub(d.q, One), r |-> add(d.r, y)]

Floored(d, x, y) ==
  IF is_zero(d.r) \/ x.neg = y.neg THEN d ELSE [q |-> sub(d.q, One), r |-> add(d.r, y)]

divmod_floor(x, y) == Floored(divmod_trunc(x, y), x, y)

rem_trunc(x, y) == divmod_trunc(x, y).r

RECURSIVE Powered(_, _, _)
Powered(result, base, e) ==
  IF e = 0 THEN result
  ELSE Powered(IF e % 2 = 1 THEN mul(result, base) ELSE result,
               IF e > 1 THEN mul(base, base) ELSE base, e \div 2)
pow(x, e) == Powered(One, x, e)

\* The bits of the exponent from bit i on.
RECURSIVE PoweredMod(_, _, _, _, _)
PoweredMod(result, base, e, i, m) ==
  IF i = bit_length(e) THEN result
  ELSE LET bit == (e.mag[(i \div LIMB_BITS) + 1] \div 2^(i % LIMB_BITS)) % 2
       IN  PoweredMod(IF bit = 1 THEN rem_trunc(mul(result, base), m) ELSE result,
                      IF i + 1 < bit_length(e) THEN rem_trunc(mul(base, base), m) ELSE base,
                      e, i + 1, m)
powm(x, e, m) == IF m.mag = <<1>> THEN Zero ELSE PoweredMod(One, rem_trunc(x, m), e, 0, m)

shl(x, n) == make(x.neg, ushl(x.mag, n \div LIMB_BITS, n % LIMB_BITS))

\* Towards zero, as the magnitude is shifted.
shr_slip(x, n) == make(x.neg, ushr(x.mag, n \div LIMB_BITS, n % LIMB_BITS))

shr(x, n) ==
  LET v == make(x.neg, ushr(x.mag, n \div LIMB_BITS, n % LIMB_BITS))
  IN  IF x.neg /\ shl(abs(v), n).mag # x.mag THEN sub(v, One) ELSE v

\* Both roots go down from a start above it: y is the next guess.
RECURSIVE RootOf(_, _, _)
RootOf(n, x, y) == IF y < x THEN RootOf(n, y, (y + n \div y) \div 2) ELSE x
isqrt_u64(n) == IF n < 2 THEN n ELSE RootOf(n, n, (n + 1) \div 2)

Guess(x, r) == shr(add(r, divmod_floor(x, r).q), 1)
RECURSIVE NewtonFrom(_, _, _)
NewtonFrom(x, r, next) ==
  IF cmp(next, r) >= 0 THEN r ELSE NewtonFrom(x, next, Guess(x, next))
sqrt(x) ==
  IF Len(x.mag) <= 2 THEN LET r == isqrt_u64(Low(x)) IN make(FALSE, <<r % BASE, r \div BASE>>)
  ELSE LET r == shl(One, (bit_length(x) + 1) \div 2) IN NewtonFrom(x, r, Guess(x, r))

RECURSIVE Gcd(_, _)
Gcd(a, b) == IF is_zero(b) THEN a ELSE Gcd(b, rem_trunc(a, b))
gcd(x, y) == Gcd(abs(x), abs(y))
lcm(x, y) ==
  IF is_zero(x) \/ is_zero(y) THEN Zero ELSE mul(divmod_floor(abs(x), gcd(x, y)).q, abs(y))

-----------------------------------------------------------------------------
(* Bit operations, on two's complement limbs. *)

Negated(mag, n) == Chain(n, LAMBDA i, c : BASE - 1 - Limb(mag, i) + c, 1).limbs

twos(x, n) == IF x.neg THEN Negated(x.mag, n) ELSE [i \in 1..n |-> Limb(x.mag, i)]

\* One limb more than the longer operand has, for the signs.
bitop(x, y, Op(_, _)) ==
  LET n == (IF Len(x.mag) >= Len(y.mag) THEN Len(x.mag) ELSE Len(y.mag)) + 1
      z == [i \in 1..n |-> Op(twos(x, n)[i], twos(y, n)[i])]
  IN  IF z[n] # 0 THEN make(TRUE, Negated(z, n)) ELSE make(FALSE, z)

BothPositive(x, y) == ~x.neg /\ ~y.neg

and(x, y) ==
  LET n == IF Len(x.mag) <= Len(y.mag) THEN Len(x.mag) ELSE Len(y.mag)
  IN  IF is_zero(x) \/ is_zero(y) THEN Zero
      ELSE IF BothPositive(x, y) THEN make(FALSE, [i \in 1..n |-> x.mag[i] & y.mag[i]])
      ELSE bitop(x, y, LAMBDA v, w : v & w)

\* or and xor, which differ in the operation alone.
Either(x, y, Op(_, _)) ==
  LET n == IF Len(x.mag) >= Len(y.mag) THEN Len(x.mag) ELSE Len(y.mag)
  IN  IF is_zero(x) THEN y ELSE IF is_zero(y) THEN x
      ELSE IF BothPositive(x, y) THEN make(FALSE, [i \in 1..n |-> Op(Limb(x.mag, i), Limb(y.mag, i))])
      ELSE bitop(x, y, Op)
or(x, y) == Either(x, y, LAMBDA v, w : v | w)
xor(x, y) == Either(x, y, LAMBDA v, w : v ^^ w)

not(x) == sub(neg(x), One)

-----------------------------------------------------------------------------
(* Digits, most significant first, by chunks of as many as fit in a limb. *)

ChunkDigits(base) == CHOOSE k \in 1..LIMB_BITS : base^k < BASE /\ base^(k + 1) >= BASE

RECURSIVE Value(_, _)
Value(ds, base) == IF ds = <<>> THEN 0 ELSE Value(Front(ds), base) * base + Last(ds)

RECURSIVE Read(_, _, _)
Read(mag, ds, base) ==
  LET k == IF Len(ds) < ChunkDigits(base) THEN Len(ds) ELSE ChunkDigits(base)
  IN  IF ds = <<>> THEN mag
      ELSE Read(umul_small(mag, base^k, Value(SubSeq(ds, 1, k), base)),
                SubSeq(ds, k + 1, Len(ds)), base)

from_str(negative, ds, base) == make(negative, Read(<<>>, ds, base))

\* k digits of r, or as many as it has.
RECURSIVE LowDigits(_, _, _, _)
LowDigits(r, k, base, last) ==
  IF k = 0 \/ (last /\ r = 0) THEN <<>>
  ELSE Append(LowDigits(r \div base, k - 1, base, last), r % base)

RECURSIVE Written(_, _)
Written(mag, base) ==
  LET d == udiv_small(mag, base^ChunkDigits(base))
  IN  IF mag = <<>> THEN <<>>
      ELSE Written(d.q, base) \o LowDigits(d.r, ChunkDigits(base), base, d.q = <<>>)

to_string_radix(x, base) == IF is_zero(x) THEN <<0>> ELSE Written(x.mag, base)
=============================================================================
