----------------------------- MODULE LibcArith -----------------------------
(***************************************************************************)
(* Arithmetic of the C library: 64-bit division (kernel/libc/divmod.c) and *)
(* the functions of kernel/libc/math.c that select, round and scale.       *)
(*                                                                         *)
(* A 64-bit word has BITS bits.  A floating-point number is, where it is   *)
(* rounded, an integer that counts parts of ONE; where its representation  *)
(* matters, the record of its fields with exponents up to EXP_MAX.         *)
(***************************************************************************)
EXTENDS Integers

CONSTANTS
  BITS,                 \* 64
  ONE,                  \* parts of 1.0, an even number
  EXP_MAX               \* the exponent of infinity (0x7FF)

ASSUME ArithAssumption == BITS \in Nat \ {0, 1} /\ ONE \in Nat \ {0} /\ ONE % 2 = 0 /\ EXP_MAX \in Nat \ {0}

WORD == 2 ^ BITS
TOP == 2 ^ (BITS - 1)   \* the sign bit

(* The value of a word that is taken for a signed number                   *)
AsSigned(u) == IF u >= TOP THEN u - WORD ELSE u

-----------------------------------------------------------------------------
(* Division by shifting and subtracting                                    *)

RECURSIVE AlignOne(_, _)
AlignOne(denominator, current) ==
  IF denominator < TOP THEN AlignOne((2 * denominator) % WORD, (2 * current) % WORD)
  ELSE [denominator |-> denominator, current |-> current]

(* The loop that takes the aligned denominator away, bit by bit            *)
RECURSIVE SubtractStrictly(_, _, _, _)
SubtractStrictly(numerator, denominator, current, quotient) ==
  IF current = 0 THEN [quotient |-> quotient, remainder |-> numerator]
  ELSE IF denominator < numerator
    THEN SubtractStrictly(numerator - denominator, denominator \div 2, current \div 2, quotient + current)
    ELSE SubtractStrictly(numerator, denominator \div 2, current \div 2, quotient)

RECURSIVE SubtractShifted(_, _, _, _)
SubtractShifted(numerator, denominator, current, quotient) ==
  IF current = 0 THEN [quotient |-> quotient, remainder |-> numerator]
  ELSE IF denominator <= numerator
    THEN SubtractShifted(numerator - denominator, denominator \div 2, current \div 2, quotient + current)
    ELSE SubtractShifted(numerator, denominator \div 2, current \div 2, quotient)

udivmod_strict(numerator, denominator) ==
  LET a == AlignOne(denominator, 1) IN SubtractStrictly(numerator, a.denominator, a.current, 0)

(* __udivmoddi4(); division by zero is not called for here: it returns 0   *)
(* and leaves the remainder as it was.                                     *)
udivmoddi4(numerator, denominator) ==
  LET a == AlignOne(denominator, 1) IN SubtractShifted(numerator, a.denominator, a.current, 0)

Negated(u) == (WORD - u) % WORD

(* __divmoddi4() on words that hold signed numbers                         *)
divmoddi4(numerator, denominator) ==
  LET n == IF numerator >= TOP THEN Negated(numerator) ELSE numerator
      d == IF denominator >= TOP THEN Negated(denominator) ELSE denominator
      r == udivmoddi4(n, d)
  IN  [quotient |-> IF (numerator >= TOP) # (denominator >= TOP) THEN Negated(r.quotient) ELSE r.quotient,
       remainder |-> IF numerator >= TOP THEN Negated(r.remainder) ELSE r.remainder]

udivdi3(numerator, denominator) == udivmoddi4(numerator, denominator).quotient

umoddi3(numerator, denominator) == udivmoddi4(numerator, denominator).remainder

divdi3(numerator, denominator) == divmoddi4(numerator, denominator).quotient

moddi3(numerator, denominator) == divmoddi4(numerator, denominator).remainder

-----------------------------------------------------------------------------
(* Rounding.  A cast to an integer type rounds towards zero.               *)

Cast(x) == IF x >= 0 THEN x - (x % ONE) ELSE -((-x) - ((-x) % ONE))

trunc(x) == Cast(x)

modf(x) == [int |-> Cast(x), frac |-> x - Cast(x)]

ceil(x) == IF x = Cast(x) THEN x ELSE IF x > 0 THEN Cast(x) + ONE ELSE Cast(x)

floor(x) == IF x = Cast(x) THEN x ELSE IF x > 0 THEN Cast(x) ELSE Cast(x) - ONE

round(x) == IF x >= 0 THEN Cast(x + (ONE \div 2)) ELSE Cast(x - (ONE \div 2))

floorf(x) == IF x >= 0 THEN Cast(x) ELSE IF x = Cast(x) THEN Cast(x) ELSE Cast(x) - ONE

nearbyintf(x) == IF x >= 0 THEN Cast(x + (ONE \div 2)) ELSE Cast(x - (ONE \div 2))

ceilf(x) == IF x = Cast(x) THEN x ELSE IF x > 0 THEN Cast(x) + ONE ELSE Cast(x)

fmin(x, y) == IF x < y THEN x ELSE y

fmax(x, y) == IF x > y THEN x ELSE y

fabs(x) == IF x < 0 THEN -x ELSE x

(* (long long)(numer / denom), denom # 0                                   *)
QuotientCast(numer, denom) ==
  LET q == fabs(numer) \div fabs(denom)
  IN  IF (numer < 0) = (denom < 0) THEN q ELSE -q

fmod(numer, denom) == numer - QuotientCast(numer, denom) * denom

RECURSIVE SubtractWhile(_, _)
SubtractWhile(x, y) == IF x >= y THEN SubtractWhile(x - y, y) ELSE x

fmodf(x, y) ==
  LET r == SubtractWhile(fabs(x), fabs(y)) IN IF x < 0 THEN -r ELSE r

-----------------------------------------------------------------------------
(* ldexp(), ldexpf(): x * 2^exp by the fields of x.  A number whose        *)
(* exponent is 0 is left out: the code multiplies it by pow(2, exp).       *)

isinf(x) == x.exponent = EXP_MAX /\ x.mantissa = 0

isnan(x) == x.exponent = EXP_MAX /\ x.mantissa # 0

ldexp(x, exp) ==
  LET e == x.exponent + exp IN
  IF isinf(x) \/ isnan(x) THEN x
  ELSE IF e >= EXP_MAX THEN [x EXCEPT !.exponent = EXP_MAX, !.mantissa = 0]
  ELSE IF e <= 0 THEN [x EXCEPT !.exponent = 0, !.mantissa = 0]
  ELSE [x EXCEPT !.exponent = e]

=============================================================================
