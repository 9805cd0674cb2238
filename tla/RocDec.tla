------------------------------- MODULE RocDec -------------------------------
(***************************************************************************)
(* Decimal numbers of crates/roc_std/src/lib.rs: an i128 that counts units *)
(* of 10^-18, here an integer of -MAX - 1 .. MAX that counts units of      *)
(* 10^-DecimalPlaces, and its conversion from and to a string, which is a  *)
(* sequence of characters.  An Option is a set of at most one element.     *)
(***************************************************************************)
EXTENDS Integers, Sequences, FiniteSets

CONSTANTS DecimalPlaces,  \* RocDec::DECIMAL_PLACES
          MAX             \* i128::MAX

pow10[n \in Nat] == IF n = 0 THEN 1 ELSE 10 * pow10[n - 1]

ONE_POINT_ZERO == pow10[DecimalPlaces]

(* Digits before the point of a fraction fit in any case, and there is at  *)
(* least one place for a digit after it.                                   *)
ASSUME DecAssumption ==
  DecimalPlaces \in Nat \ {0} /\ MAX \in Nat /\ ONE_POINT_ZERO <= MAX

MIN == -MAX - 1

checked(n) == IF n \in MIN .. MAX THEN {n} ELSE {}

digit == <<"0", "1", "2", "3", "4", "5", "6", "7", "8", "9">>

isDigit(c) == \E d \in 0 .. 9 : digit[d + 1] = c

to_digit(c) == CHOOSE d \in 0 .. 9 : digit[d + 1] = c

startsWith(s, characters) == s # <<>> /\ Head(s) \in characters

withoutSign(s) == IF startsWith(s, {"+", "-"}) THEN Tail(s) ELSE s

(* The number that a sequence of digits stands for.                        *)
number(s) ==
  LET n[i \in 0 .. Len(s)] == IF i = 0 THEN 0 ELSE 10 * n[i - 1] + to_digit(s[i])
  IN  n[Len(s)]

parse(s) ==
  LET digits == withoutSign(s)
  IN  IF digits # <<>> /\ \A i \in DOMAIN digits : isDigit(digits[i])
      THEN {IF startsWith(s, {"-"}) THEN -number(digits) ELSE number(digits)}
      ELSE {}

(* Variant: only the sum is checked, a product that overflows wraps.       *)
adjust_hi_Wraps(sign, s) ==
  LET wrapped(n) == ((n + MAX + 1) % (2 * MAX + 2)) - MAX - 1
      hi[i \in 0 .. Len(s)] ==
        IF i = 0 THEN {0}
        ELSE CASE s[i] = "_"    -> hi[i - 1]
               [] isDigit(s[i]) -> UNION {checked(wrapped(10 * h) + sign * to_digit(s[i])) : h \in hi[i - 1]}
               [] OTHER         -> {}
  IN  hi[Len(s)]

(* The digits before the point, added one by one; underscores are skipped. *)
adjust_hi(sign, s) ==
  LET hi[i \in 0 .. Len(s)] ==
        IF i = 0 THEN {0}
        ELSE CASE s[i] = "_"    -> hi[i - 1]
               [] isDigit(s[i]) -> UNION {checked(h + sign * to_digit(s[i])) :
                                            h \in UNION {checked(10 * h) : h \in hi[i - 1]}}
               [] OTHER         -> {}
  IN  hi[Len(s)]

(* Variant: the fraction of a negative number is added.                    *)
low_Unsigned(sign, after) ==
  {p * pow10[DecimalPlaces - Len(after)] : p \in parse(after)}

(* The digits after the point, with the zeros that were left out.          *)
low(sign, after) ==
  {sign * p * pow10[DecimalPlaces - Len(after)] : p \in parse(after)}

from_str(value) ==
  LET points == {i \in DOMAIN value : value[i] = "."}
      point  == IF points = {} THEN Len(value) + 1 ELSE CHOOSE i \in points : \A j \in points : i <= j
      before == SubSeq(value, 1, point - 1)
      rest   == SubSeq(value, point + 1, Len(value))
      after  == SubSeq(rest, 1, IF Len(rest) <= DecimalPlaces THEN Len(rest) ELSE DecimalPlaces)
      sign   == IF startsWith(before, {"-"}) THEN -1 ELSE 1
      his    == UNION {checked(hi * ONE_POINT_ZERO) : hi \in adjust_hi(sign, withoutSign(before))}
      los    == IF points = {} THEN {0} ELSE low(sign, after)
  IN  IF Cardinality(points) > 1 THEN {} ELSE UNION {checked(hi + lo) : hi \in his, lo \in los}

decimal[n \in Nat] ==
  IF n < 10 THEN <<digit[n + 1]>> ELSE Append(decimal[n \div 10], digit[(n % 10) + 1])

(* The format :0width; the sign is one of the width characters.            *)
padded(n, width) ==
  LET sign   == IF n < 0 THEN <<"-">> ELSE <<>>
      digits == decimal[IF n < 0 THEN -n ELSE n]
  IN  sign \o [i \in 1 .. width - Len(sign \o digits) |-> "0"] \o digits

to_str(num) ==
  LET string == padded(num, DecimalPlaces + 1)
      decimal_location  == Len(string) - DecimalPlaces
      last_nonzero_byte == CHOOSE i \in DOMAIN string :
                             string[i] # "0" /\ \A j \in i + 1 .. Len(string) : string[j] = "0"
  IN  CASE num = 0 -> <<"0">>
        [] num # 0 /\ last_nonzero_byte <= decimal_location -> SubSeq(string, 1, decimal_location)
        [] OTHER -> SubSeq(string, 1, decimal_location) \o <<".">>
                      \o SubSeq(string, decimal_location + 1, last_nonzero_byte)

from_i32(value) == ONE_POINT_ZERO * value
=============================================================================
