------------------------------ MODULE LibcText ------------------------------
(***************************************************************************)
(* Numbers as text and text compared: vsprintf() (kernel/libc/vsprintf.c), *)
(* the two itoa() (kernel/libc/kernel.c, which is built, and string.c),    *)
(* debug_log() (syscall/debug_log.c), the printing and comparing helpers   *)
(* of the shell (x86_64/entry.c), strcmp() and memcpy() (libc/mem.c), and  *)
(* strcasecmp() and strtok_r() (libc/string.c).                            *)
(*                                                                         *)
(* Text to be printed is a sequence of one-character strings; text to be   *)
(* compared or split is a sequence of character codes.  int has INT_BITS   *)
(* bits.  "?" is whatever a read outside an array yields.                  *)
(***************************************************************************)
EXTENDS Integers, Sequences, SequencesExt

CONSTANTS
  INT_BITS,             \* 32
  BUFFER                \* characters of number_to_string()'s buffer (32)

UINT == 2 ^ INT_BITS
INT_MIN == -(2 ^ (INT_BITS - 1))
INT_MAX == 2 ^ (INT_BITS - 1) - 1

ASSUME IntAssumption == INT_BITS \in Nat \ {0, 1} /\ BUFFER \in Nat

Unsigned(n) == n % UINT
Signed(n) == IF Unsigned(n) > INT_MAX THEN Unsigned(n) - UINT ELSE Unsigned(n)

(* Division rounds towards zero, and the remainder has the sign of n.      *)
CDiv(n, d) == IF n >= 0 THEN n \div d ELSE -((-n) \div d)
CMod(n, d) == n - CDiv(n, d) * d

LOWER == <<"0", "1", "2", "3", "4", "5", "6", "7", "8", "9",
           "a", "b", "c", "d", "e", "f", "g", "h", "i", "j", "k", "l", "m",
           "n", "o", "p", "q", "r", "s", "t", "u", "v", "w", "x", "y", "z">>
UPPER == <<"0", "1", "2", "3", "4", "5", "6", "7", "8", "9",
           "A", "B", "C", "D", "E", "F">>

CharIn(digits, k) == IF k + 1 \in DOMAIN digits THEN digits[k + 1] ELSE "?"

(* The digits of n, the lowest first: do ... while (n > 0)                 *)
RECURSIVE LowDigits(_, _, _)
LowDigits(n, base, digits) ==
  <<CharIn(digits, CMod(n, base))>>
  \o (IF CDiv(n, base) > 0 THEN LowDigits(CDiv(n, base), base, digits) ELSE << >>)

Repeat(ch, n) == [k \in 1 .. n |-> ch]

-----------------------------------------------------------------------------
(* itoa(), print_u64_decimal(), print_u8_hex()                             *)

(* kernel.c: the magnitude is computed without overflow.                   *)
itoa(value, base) ==
  IF base < 2 \/ base > 36 THEN << >>
  ELSE IF value < 0 /\ base = 10 THEN <<"-">> \o Reverse(LowDigits(-(value + 1) + 1, base, LOWER))
  ELSE Reverse(LowDigits(Unsigned(value), base, LOWER))

RECURSIVE MirroredDigits(_, _)
MirroredDigits(value, base) ==
  LET r == CMod(value, base)
      rest == CDiv(value, base)
  IN  (IF rest # 0 THEN MirroredDigits(rest, base) ELSE << >>)
      \o <<CharIn(LOWER, IF r < 0 THEN -r ELSE r)>>

(* string.c: the table of digits is mirrored, so a negative remainder has  *)
(* its digit too; the final strcpy() moves the digits over the sign.       *)
string_itoa(value, base) ==
  IF base < 2 \/ base > 36 THEN << >>
  ELSE IF value = 0 THEN <<"0">>
  ELSE MirroredDigits(IF value < 0 /\ base = 10 THEN Signed(-value) ELSE value, base)

print_u64_decimal(value) ==
  IF value = 0 THEN <<"0">> ELSE Reverse(LowDigits(value, 10, UPPER))

hex_digit(value) == CharIn(UPPER, value)

print_u8_hex(value) == <<hex_digit((value \div 16) % 16), hex_digit(value % 16)>>

(* The numbers in the boot loader's messages                               *)
con_write(val) == Reverse(LowDigits(val, 10, UPPER))

con_write_hex(val) == Reverse(LowDigits(val, 16, UPPER))

-----------------------------------------------------------------------------
(* vsprintf()                                                              *)

RECURSIVE skip_atoi(_, _)
skip_atoi(fmt, value) ==
  IF fmt # << >> /\ \E k \in 1 .. 10 : LOWER[k] = Head(fmt)
    THEN skip_atoi(Tail(fmt), value * 10 + SelectInSeq(LOWER, LAMBDA ch : ch = Head(fmt)) - 1)
    ELSE [fmt |-> fmt, value |-> value]

(* The characters of a number before padding, in the order of the text     *)
Sign(num, flags) ==
  IF "+" \in flags THEN <<IF num < 0 THEN "-" ELSE "+">>
  ELSE IF " " \in flags THEN <<" ">> ELSE << >>

Prefix(base, flags) ==
  IF "#" \notin flags THEN << >>
  ELSE IF base = 16 THEN <<"0", IF "small" \in flags THEN "x" ELSE "X">>
  ELSE IF base = 8 THEN <<"0">> ELSE << >>

NumberBody(num, base, precision, flags) ==
  LET n == IF "+" \in flags /\ num < 0 THEN Signed(-num) ELSE num
      digits == Reverse(LowDigits(n, base, IF "small" \in flags THEN LOWER ELSE UPPER))
  IN  Prefix(base, flags) \o Sign(num, flags)
      \o Repeat("0", precision - Len(digits)) \o digits

number_to_string(num, base, width, precision, flags) ==
  LET body == NumberBody(num, base, precision, flags)
      padding == width - Len(body)
      left == IF "-" \in flags THEN << >> ELSE Repeat(IF "0" \in flags THEN "0" ELSE " ", padding)
      right == IF "-" \in flags THEN Repeat(" ", padding) ELSE << >>
  IN  left \o body \o right

RECURSIVE TakeFlags(_, _)
TakeFlags(fmt, flags) ==
  IF fmt # << >> /\ Head(fmt) \in {"-", "+", " ", "#", "0"}
    THEN TakeFlags(Tail(fmt), flags \cup {Head(fmt)})
    ELSE [fmt |-> fmt, flags |-> flags]

(* A width or a precision: digits, or * for the next argument              *)
TakeNumber(fmt, args) ==
  LET n == skip_atoi(fmt, 0) IN
  IF Len(n.fmt) < Len(fmt) THEN [fmt |-> n.fmt, args |-> args, value |-> n.value]
  ELSE IF fmt # << >> /\ Head(fmt) = "*"
    THEN [fmt |-> Tail(fmt), args |-> Tail(args), value |-> Head(args).i]
  ELSE [fmt |-> fmt, args |-> args, value |-> -1]

(* An unsigned argument becomes an int on its way to number_to_string().   *)
Conversion(spec, args, width, precision, flags) ==
  LET num == Signed(Head(args).i) IN
  CASE spec = "c" -> <<Head(Head(args).s)>>
    [] spec = "s" -> Head(args).s
    [] spec \in {"d", "i"} -> number_to_string(num, 10, width, precision, flags \cup {"+"})
    [] spec = "u" -> number_to_string(num, 10, width, precision, flags)
    [] spec = "o" -> number_to_string(num, 8, width, precision, flags)
    [] spec = "x" -> number_to_string(num, 16, width, precision, flags \cup {"small"})
    [] spec = "X" -> number_to_string(num, 16, width, precision, flags)
    [] spec = "p" -> number_to_string(num, 16, width, precision, flags \cup {"#"})
    [] spec = "%" -> <<"%">>
    [] OTHER -> <<"%", spec>>

SPECS == {"c", "s", "d", "i", "u", "o", "x", "X", "p"}

RECURSIVE vsprintf(_, _)
vsprintf(fmt, args) ==
  IF fmt = << >> THEN << >>
  ELSE IF Head(fmt) # "%" THEN <<Head(fmt)>> \o vsprintf(Tail(fmt), args)
  ELSE LET f == TakeFlags(Tail(fmt), {})
           w == TakeNumber(f.fmt, args)
           p == IF w.fmt # << >> /\ Head(w.fmt) = "." THEN TakeNumber(Tail(w.fmt), w.args)
                ELSE [fmt |-> w.fmt, args |-> w.args, value |-> -1]
           l == IF p.fmt # << >> /\ Head(p.fmt) \in {"h", "l", "L"} THEN Tail(p.fmt) ELSE p.fmt
           spec == Head(l)
       IN  Conversion(spec, p.args, w.value, p.value, f.flags)
           \o vsprintf(Tail(l), IF spec \in SPECS THEN Tail(p.args) ELSE p.args)

-----------------------------------------------------------------------------
(* debug_log()                                                             *)

LogChar(ch) == IF ch = "NL" THEN <<"NL", "CR">> ELSE <<ch>>

logs(str) == FlattenSeq([k \in 1 .. Len(str) |-> LogChar(str[k])])

(* The second character of "%%" is not passed over.                        *)
RECURSIVE debug_log(_, _)
debug_log(fmt, args) ==
  IF fmt = << >> THEN << >>
  ELSE IF Head(fmt) # "%" THEN LogChar(Head(fmt)) \o debug_log(Tail(fmt), args)
  ELSE IF Tail(fmt) = << >> THEN << >>
  ELSE LET spec == fmt[2]
           rest == SubSeq(fmt, 3, Len(fmt))
       IN  CASE spec = "p" -> <<"0", "x">> \o itoa(Signed(Head(args).i), 16) \o debug_log(rest, Tail(args))
             [] spec = "c" -> LogChar(Head(Head(args).s)) \o debug_log(rest, Tail(args))
             [] spec = "d" -> itoa(Signed(Head(args).i), 10) \o debug_log(rest, Tail(args))
             [] spec = "X" -> itoa(Signed(Head(args).i), 16) \o debug_log(rest, Tail(args))
             [] spec = "s" -> logs(Head(args).s) \o debug_log(rest, Tail(args))
             [] spec = "%" -> <<"%">> \o debug_log(Tail(fmt), args)
             [] OTHER -> debug_log(Tail(fmt), args)

-----------------------------------------------------------------------------
(* Comparing, copying, splitting                                           *)

At(s, k) == IF k \in 1 .. Len(s) THEN s[k] ELSE 0

tolower(ch) == IF ch \in 65 .. 90 THEN ch + 32 ELSE ch

(* The first place where the loops of the comparisons stop                 *)
RECURSIVE DiffersFrom(_, _, _)
DiffersFrom(a, b, k) ==
  IF At(a, k) # 0 /\ At(a, k) = At(b, k) THEN DiffersFrom(a, b, k + 1) ELSE k

(* strcmp(); the shell has a copy of its own                               *)
strcmp(a, b) == At(a, DiffersFrom(a, b, 1)) - At(b, DiffersFrom(a, b, 1))

strcmp_local(s1, s2) == strcmp(s1, s2)

RECURSIVE CaseDiffersFrom(_, _, _)
CaseDiffersFrom(a, b, k) ==
  IF At(a, k) # 0 /\ At(b, k) # 0 /\ tolower(At(a, k)) = tolower(At(b, k))
    THEN CaseDiffersFrom(a, b, k + 1) ELSE k

strcasecmp(a, b) ==
  tolower(At(a, CaseDiffersFrom(a, b, 1))) - tolower(At(b, CaseDiffersFrom(a, b, 1)))

starts_with_local(s, prefix) == \A k \in 1 .. Len(prefix) : At(s, k) = prefix[k]

(* Byte by byte, from the first on                                         *)
RECURSIVE memcpy(_, _, _, _)
memcpy(m, dest, src, count) ==
  IF count = 0 THEN m
  ELSE memcpy([m EXCEPT ![dest] = m[src]], dest + 1, src + 1, count - 1)

(* One call of strtok_r() on the rest of s from saveptr on: the token, the *)
(* text with its end marked by a zero, and the new saveptr                 *)
RECURSIVE Skip(_, _, _)
Skip(s, k, Chars) == IF At(s, k) # 0 /\ At(s, k) \in Chars THEN Skip(s, k + 1, Chars) ELSE k

RECURSIVE Scan(_, _, _)
Scan(s, k, Chars) == IF At(s, k) # 0 /\ At(s, k) \notin Chars THEN Scan(s, k + 1, Chars) ELSE k

strtok_stays_at_delimiter(s, delim, saveptr) ==
  LET from == saveptr
      to == Scan(s, from, delim)
  IN  IF At(s, from) = 0
        THEN [ok |-> FALSE, s |-> s, saveptr |-> from, token |-> << >>]
        ELSE [ok |-> TRUE, s |-> IF At(s, to) = 0 THEN s ELSE [s EXCEPT ![to] = 0],
              saveptr |-> IF At(s, to) = 0 THEN to ELSE to + 1, token |-> SubSeq(s, from, to - 1)]

strtok_r(s, delim, saveptr) ==
  LET from == Skip(s, saveptr, delim)
      to == Scan(s, from, delim)
  IN  IF At(s, from) = 0
        THEN [ok |-> FALSE, s |-> s, saveptr |-> from, token |-> << >>]
        ELSE [ok |-> TRUE, s |-> IF At(s, to) = 0 THEN s ELSE [s EXCEPT ![to] = 0],
              saveptr |-> IF At(s, to) = 0 THEN to ELSE to + 1, token |-> SubSeq(s, from, to - 1)]

=============================================================================
