-------------------------------- MODULE Libc --------------------------------
(***************************************************************************)
(* Calls of the C library, each checked against what its result means.     *)
(* One call runs at a time and keeps nothing, but for strtok_r(), which    *)
(* goes through a text call by call.                                       *)
(***************************************************************************)
EXTENDS LibcText, LibcArith, FiniteSets

CONSTANTS
  Bases,                \* bases itoa() is called with
  Formats,              \* formats of a single number: flags, width, precision and letter
  Logs,                 \* calls of debug_log(): format and arguments
  Texts,                \* texts to compare and to split
  Delims,               \* sets of delimiters
  MEM                   \* bytes of the memory memcpy() works on

VARIABLES
  fn,                   \* the function that was called last
  arg,                  \* its arguments
  res,                  \* its result
  left,                 \* strtok_r(): the text and saveptr between two calls
  tokens                \* history: the tokens so far

vars == <<fn, arg, res, left, tokens>>

Idle == fn = "none"

Init ==
  /\ fn = "none" /\ arg = << >> /\ res = << >>
  /\ left = << >> /\ tokens = << >>

Call(name, args, result) ==
  /\ Idle
  /\ fn' = name /\ arg' = args /\ res' = result
  /\ UNCHANGED <<left, tokens>>

Forget ==
  /\ fn \notin {"none", "strtok_r"}
  /\ fn' = "none" /\ arg' = << >> /\ res' = << >>
  /\ left' = << >> /\ tokens' = << >>

Ints == INT_MIN .. INT_MAX
Words == 0 .. (WORD - 1)
Floats == -(3 * ONE) .. (3 * ONE)

CallItoa == \E value \in Ints, base \in Bases :
  \/ Call("itoa", <<value, base>>, itoa(value, base))
  \/ Call("string_itoa", <<value, base>>, string_itoa(value, base))

CallPrint == \E value \in 0 .. 255 :
  \/ Call("print_u64_decimal", <<value>>, print_u64_decimal(value))
  \/ Call("print_u8_hex", <<value>>, print_u8_hex(value))
  \/ Call("con_write", <<value>>, con_write(value))
  \/ Call("con_write_hex", <<value>>, con_write_hex(value))

(* The format is written out; the number is an int, or unsigned.           *)
FormatOf(f) ==
  <<"%">> \o f.flags \o (IF f.width < 0 THEN << >> ELSE <<"*">>)
  \o (IF f.precision < 0 THEN << >> ELSE <<".", "*">>) \o <<f.spec>>

ArgsOf(f, value) ==
  (IF f.width < 0 THEN << >> ELSE <<[i |-> f.width, s |-> << >>]>>)
  \o (IF f.precision < 0 THEN << >> ELSE <<[i |-> f.precision, s |-> << >>]>>)
  \o <<[i |-> value, s |-> << >>]>>

CallVsprintf == \E f \in Formats, value \in Ints :
  Call("vsprintf", <<f, value>>, vsprintf(FormatOf(f), ArgsOf(f, value)))

CallDebugLog == \E c \in Logs :
  Call("debug_log", <<c>>, debug_log(c.fmt, c.args))

CallCompare == \E a, b \in Texts :
  \/ Call("strcmp", <<a, b>>, strcmp_local(a, b))
  \/ Call("strcasecmp", <<a, b>>, strcasecmp(a, b))
  \/ Call("starts_with_local", <<a, b>>, starts_with_local(a, b))

Bytes == [k \in 0 .. (MEM - 1) |-> k]

CallMemcpy == \E dest, src, count \in 0 .. MEM :
  /\ dest + count <= MEM /\ src + count <= MEM
  /\ Call("memcpy", <<dest, src, count>>, memcpy(Bytes, dest, src, count))

CallDivide == \E n \in Words, d \in Words \ {0} :
  \/ Call("unsigned", <<n, d>>, [quotient |-> udivdi3(n, d), remainder |-> umoddi3(n, d)])
  \/ Call("signed", <<n, d>>, [quotient |-> divdi3(n, d), remainder |-> moddi3(n, d)])

CallRound == \E x \in Floats :
  Call("round", <<x>>,
       [trunc |-> trunc(x), modf |-> modf(x), ceil |-> ceil(x), floor |-> floor(x),
        round |-> round(x), floorf |-> floorf(x), nearbyintf |-> nearbyintf(x), ceilf |-> ceilf(x)])

CallFmod == \E x \in Floats, y \in Floats \ {0} :
  Call("fmod", <<x, y>>, <<fmod(x, y), fmodf(x, y), fmin(x, y), fmax(x, y)>>)

Doubles == [sign : {0, 1}, exponent : 1 .. EXP_MAX, mantissa : 0 .. 1]

CallLdexp == \E x \in Doubles, exp \in -(EXP_MAX + 1) .. (EXP_MAX + 1) :
  Call("ldexp", <<x, exp>>, ldexp(x, exp))

(* strtok_r(text, delim, &saveptr), and strtok_r(NULL, delim, &saveptr)    *)
Tokenise(text, delim, s, saveptr) ==
  LET r == strtok_r(s, delim, saveptr) IN
  /\ fn' = IF r.ok THEN "strtok_r" ELSE "split"
  /\ arg' = <<text, delim>>
  /\ res' = << >>
  /\ left' = IF r.ok THEN <<r.s, r.saveptr>> ELSE << >>
  /\ tokens' = IF r.ok THEN Append(tokens, r.token) ELSE tokens

FirstToken == \E text \in Texts, delim \in Delims :
  Idle /\ Tokenise(text, delim, text, 1)

NextToken == fn = "strtok_r" /\ Tokenise(arg[1], arg[2], left[1], left[2])

Next ==
  \/ CallItoa \/ CallPrint \/ CallVsprintf \/ CallDebugLog \/ CallCompare
  \/ CallMemcpy \/ CallDivide \/ CallRound \/ CallFmod \/ CallLdexp
  \/ FirstToken \/ NextToken
  \/ Forget

Spec == Init /\ [][Next]_vars

-----------------------------------------------------------------------------
(* What results mean                                                       *)

IsDigit(ch, base) == \E k \in 1 .. base : LOWER[k] = ch \/ (k <= Len(UPPER) /\ UPPER[k] = ch)

DigitValue(ch) ==
  (CHOOSE k \in 1 .. Len(LOWER) : LOWER[k] = ch \/ (k <= Len(UPPER) /\ UPPER[k] = ch)) - 1

(* The number a text stands for: its digits, whatever stands around them,  *)
(* and a minus sign anywhere                                               *)
Magnitude(text, base) ==
  FoldLeft(LAMBDA n, ch : n * base + DigitValue(ch), 0,
           SelectSeq(text, LAMBDA ch : IsDigit(ch, base)))

Value(text, base) ==
  IF \E k \in 1 .. Len(text) : text[k] = "-" THEN -Magnitude(text, base) ELSE Magnitude(text, base)

WellFormed(text, base) == text # << >> /\ \A k \in 1 .. Len(text) : text[k] = "-" \/ IsDigit(text[k], base)

Sgn(n) == IF n > 0 THEN 1 ELSE IF n < 0 THEN -1 ELSE 0

-----------------------------------------------------------------------------
(* Properties                                                              *)

(* The text of itoa() stands for the value it was given, also for the      *)
(* smallest int, in base 10 with a sign and in any other base as an        *)
(* unsigned number.  The itoa() of string.c prints the magnitude only.     *)
ItoaReadsBack ==
  fn \in {"itoa", "string_itoa"} =>
    LET value == arg[1]
        base == arg[2]
    IN  IF base \notin 2 .. 36 THEN res = << >>
        ELSE /\ WellFormed(res, base)
             /\ fn = "itoa" => Value(res, base) = IF base = 10 THEN value ELSE Unsigned(value)
             /\ fn = "string_itoa" => Value(res, base) = fabs(value)

(* The shell and the boot loader print the numbers they are given without  *)
(* leading zeros, but for bytes, which have two digits.                    *)
PrintsNumbers ==
  /\ fn \in {"print_u64_decimal", "con_write", "con_write_hex"} =>
       /\ Value(res, IF fn = "con_write_hex" THEN 16 ELSE 10) = arg[1]
       /\ res[1] = "0" => Len(res) = 1
  /\ fn = "print_u8_hex" => Value(res, 16) = arg[1] /\ Len(res) = 2

(* A number printed by vsprintf() reads back, whatever its flags, width    *)
(* and precision, unless it has the top bit set: then an unsigned one, or  *)
(* the smallest int, is printed from outside the table of digits.  The     *)
(* field is as wide as asked and no wider than it must be.                 *)
FieldReadsBack ==
  fn = "vsprintf" =>
    LET f == arg[1]
        base == IF f.spec \in {"d", "i", "u"} THEN 10 ELSE IF f.spec = "o" THEN 8 ELSE 16
        signed == f.spec \in {"d", "i"}
        body == NumberBody(arg[2], base, f.precision,
                           ToSet(f.flags) \cup (IF signed THEN {"+"} ELSE {}) \cup (IF f.spec = "p" THEN {"#"} ELSE {}))
    IN  /\ (IF signed THEN arg[2] # INT_MIN ELSE arg[2] >= 0) =>
             /\ "?" \notin ToSet(res)
             /\ Value(res, base) = arg[2]
        /\ Len(res) = IF f.width > Len(body) THEN f.width ELSE Len(body)
        /\ f.precision <= BUFFER - 3 => Len(body) <= BUFFER

(* The places of a format where debug_log() takes an argument, were "%%"   *)
(* one directive                                                           *)
Starts(fmt) ==
  LET percents == {k \in 1 .. Len(fmt) : fmt[k] = "%"}
      RunStart(k) == CHOOSE j \in 1 .. k : (j .. k) \subseteq percents /\ (j = 1 \/ fmt[j - 1] # "%")
  IN  {k \in percents : (k - RunStart(k)) % 2 = 0}

WithReturns(text) ==
  FlattenSeq([k \in 1 .. Len(text) |-> IF text[k] = "NL" THEN <<"NL", "CR">> ELSE <<text[k]>>])

ExpectedPieces(fmt, args) ==
  [k \in 1 .. Len(fmt) |->
    LET n == Cardinality({j \in Starts(fmt) : j < k /\ fmt[j + 1] \in {"s", "d", "X", "p", "c"}})
    IN  IF k \in Starts(fmt) THEN << >>
        ELSE IF k - 1 \in Starts(fmt)
          THEN (CASE fmt[k] = "s" -> WithReturns(args[n].s)
                  [] fmt[k] = "d" -> itoa(args[n].i, 10)
                  [] fmt[k] = "X" -> itoa(args[n].i, 16)
                  [] fmt[k] = "p" -> <<"0", "x">> \o itoa(args[n].i, 16)
                  [] fmt[k] = "c" -> WithReturns(<<Head(args[n].s)>>)
                  [] OTHER -> <<fmt[k]>>)
        ELSE WithReturns(<<fmt[k]>>)]

(* debug_log() prints its format with every directive replaced by its own  *)
(* argument, in order; "%%" is the exception: its second half starts a     *)
(* directive again.                                                        *)
LogIsItsFormat ==
  fn = "debug_log" =>
    LET c == arg[1] IN
    (\A k \in 1 .. (Len(c.fmt) - 1) : ~(c.fmt[k] = "%" /\ c.fmt[k + 1] = "%")) =>
      res = FlattenSeq(ExpectedPieces(c.fmt, c.args))

Lower(s) == [k \in 1 .. Len(s) |-> tolower(s[k])]

(* a comes before b: at the first difference, or as its beginning          *)
Before(a, b) ==
  \E k \in 1 .. Len(b) :
    /\ \A j \in 1 .. (k - 1) : At(a, j) = b[j]
    /\ At(a, k) < b[k]

(* Comparisons order texts as a dictionary does, and find a command exactly*)
(* when it was typed; a prefix is not taken for the whole.                 *)
ComparesLikeADictionary ==
  /\ fn = "strcmp" =>
       Sgn(res) = IF Before(arg[1], arg[2]) THEN -1 ELSE IF arg[1] = arg[2] THEN 0 ELSE 1
  /\ fn = "strcasecmp" =>
       Sgn(res) = IF Before(Lower(arg[1]), Lower(arg[2])) THEN -1
                  ELSE IF Lower(arg[1]) = Lower(arg[2]) THEN 0 ELSE 1
  /\ fn = "starts_with_local" => res = IsPrefix(arg[2], arg[1])

(* memcpy() copies exactly, also where the two areas overlap, as long as   *)
(* the destination does not start inside the source.                       *)
CopyIsExact ==
  fn = "memcpy" =>
    LET dest == arg[1]
        src == arg[2]
        count == arg[3]
    IN  dest <= src \/ dest >= src + count =>
          res = [k \in 0 .. (MEM - 1) |->
                  IF k \in dest .. (dest + count - 1) THEN src + (k - dest) ELSE k]

(* Division is exact for every pair of words: unsigned, and signed with    *)
(* the quotient rounded towards zero, also for the smallest number.        *)
DivisionIsExact ==
  /\ fn = "unsigned" =>
       res.quotient = arg[1] \div arg[2] /\ res.remainder = arg[1] % arg[2]
  /\ fn = "signed" =>
       LET n == AsSigned(arg[1])
           d == AsSigned(arg[2])
       IN  /\ AsSigned(res.quotient) * d + AsSigned(res.remainder) \in {n, n + WORD, n - WORD}
           /\ fabs(AsSigned(res.remainder)) < fabs(d)
           /\ AsSigned(res.remainder) = 0 \/ Sgn(AsSigned(res.remainder)) = Sgn(n)
           /\ (n # -TOP \/ d # -1) => AsSigned(res.quotient) * d + AsSigned(res.remainder) = n

IsInteger(x) == x % ONE = 0

(* Every rounding function gives the whole number its name promises, for   *)
(* negative numbers and for halves too, in double and in float.            *)
RoundingIsRight ==
  fn = "round" =>
    LET x == arg[1] IN
    /\ \A f \in {"trunc", "ceil", "floor", "round", "floorf", "nearbyintf", "ceilf"} : IsInteger(res[f])
    /\ res.floor <= x /\ x < res.floor + ONE /\ res.floorf = res.floor
    /\ res.ceil >= x /\ x > res.ceil - ONE /\ res.ceilf = res.ceil
    /\ res.trunc = IF x >= 0 THEN res.floor ELSE res.ceil
    /\ 2 * fabs(res.round - x) <= ONE /\ res.nearbyintf = res.round
    /\ 2 * fabs(res.round - x) = ONE => fabs(res.round) > fabs(x)
    /\ res.modf.int + res.modf.frac = x /\ res.modf.int = res.trunc

(* fmod() and fmodf() agree: the remainder differs from x by a multiple of *)
(* y, is smaller than y and has the sign of x.                             *)
RemaindersAgree ==
  fn = "fmod" =>
    LET x == arg[1]
        y == arg[2]
        r == res[1]
    IN  /\ res[2] = r
        /\ (x - r) % fabs(y) = 0 /\ fabs(r) < fabs(y) /\ (r = 0 \/ Sgn(r) = Sgn(x))
        /\ res[3] + res[4] = x + y /\ res[3] <= res[4]

(* ldexp() multiplies by a power of two: the exponent grows by exp, and a  *)
(* result that is too large is infinite, never a NaN, one too small zero.  *)
LdexpScales ==
  fn = "ldexp" =>
    LET x == arg[1]
        e == x.exponent + arg[2]
    IN  /\ res.sign = x.sign
        /\ isnan(res) <=> isnan(x)
        /\ x.exponent # EXP_MAX =>
             /\ isinf(res) <=> e >= EXP_MAX
             /\ e \in 1 .. (EXP_MAX - 1) => res.exponent = e /\ res.mantissa = x.mantissa
             /\ e <= 0 => res.exponent = 0 /\ res.mantissa = 0

(* The runs of characters between delimiters                               *)
RunsOf(text, delim) ==
  LET inside == {k \in 1 .. Len(text) : text[k] \notin delim}
      from == SetToSortSeq({k \in inside : k - 1 \notin inside}, <)
      to == SetToSortSeq({k \in inside : k + 1 \notin inside}, <)
  IN  [k \in 1 .. Len(from) |-> SubSeq(text, from[k], to[k])]

(* Call by call strtok_r() returns the runs between delimiters, in order,  *)
(* each once and none empty, although it writes into the text it reads.    *)
TokensAreTheRuns ==
  /\ fn = "strtok_r" => IsPrefix(tokens, RunsOf(arg[1], arg[2]))
  /\ fn = "split" => tokens = RunsOf(arg[1], arg[2])

(* Numbers become the texts that stand for them, and texts are compared,   *)
(* copied and split as they should be.                                     *)
TextsAreRight ==
  /\ ItoaReadsBack /\ PrintsNumbers /\ FieldReadsBack /\ LogIsItsFormat
  /\ ComparesLikeADictionary /\ CopyIsExact /\ TokensAreTheRuns

(* The functions that stand in for the processor's and the compiler's own  *)
(* arithmetic give the exact results, for every argument of a small word.  *)
ArithmeticIsExact == DivisionIsExact /\ RoundingIsRight /\ RemaindersAgree /\ LdexpScales

=============================================================================
