----------------------------- MODULE JsonNumber -----------------------------
(***************************************************************************)
(* How a float goes onto the wire and back (config_json.c): the "%g"       *)
(* formatter with its estimated exponent, the three layouts, the scanner,  *)
(* and the guard that widens a number that would not read back the same.   *)
(*                                                                         *)
(* A value is n * 10^x, exactly.  A number on the wire is its digits       *)
(* before the point, those after it and the exponent.                      *)
(***************************************************************************)
EXTENDS Integers, SequencesExt

CONSTANTS
  Digits,       \* CFG_JSON_SIG_DEFAULT
  ExactDigits,  \* CFG_JSON_SIG_EXACT
  MantDigits,   \* digits the scanner accumulates: 19
  Exponents     \* the x that are tried

VARIABLE n      \* the number tried
numberVars == n

Ten(k) == 10 ^ k
DigitsOf(m) == CHOOSE d \in 1..9 : m >= Ten(d - 1) /\ m < Ten(d)

\* Round-to-nearest of m * 10^k, halves up.
Scaled(m, k) == IF k >= 0 THEN m * Ten(k) ELSE (m + Ten(-k) \div 2) \div Ten(-k)

-----------------------------------------------------------------------------
(* cfg_json_fmt_g                                                          *)

\* The estimate was one too low or one too high: the mantissa is computed again.
Adjust(m, x, e, sig) ==
  LET again(f) == [m |-> Scaled(n, x + sig - 1 - f), e |-> f] IN
  IF m >= Ten(sig) THEN again(e + 1) ELSE IF m < Ten(sig - 1) THEN again(e - 1) ELSE [m |-> m, e |-> e]

\* Rounding may carry into one more digit even then.
Mantissa(x, estimate, sig) ==
  LET a == Adjust(Scaled(n, x + sig - 1 - estimate), x, estimate, sig)
  IN  IF a.m >= Ten(sig) THEN [m |-> Ten(sig - 1), e |-> a.e + 1] ELSE a

\* The digits of m, without the zeros at the end.
Stripped(m, sig) ==
  LET d == [i \in 1..sig |-> (m \div Ten(sig - i)) % 10]
      on == {i \in 1..sig : d[i] # 0}
  IN  SubSeq(d, 1, Max(on \cup {1}))
Zeros(k) == [i \in 1..k |-> 0]

Fixed(d, e) ==
  [int |-> SubSeq(d \o Zeros(e + 1), 1, e + 1), frac |-> SubSeq(d, e + 2, Len(d)), exp |-> 0]

\* The %e form, the fixed form of one and more, and 0.000ddd.
Layout(d, e, sig) ==
  IF e < -4 \/ e >= sig THEN [int |-> <<d[1]>>, frac |-> Tail(d), exp |-> e]
  ELSE IF e >= 0 THEN Fixed(d, e)
  ELSE [int |-> <<0>>, frac |-> Zeros(-e - 1) \o d, exp |-> 0]

Format(x, estimate, sig) ==
  LET r == Mantissa(x, estimate, sig) IN Layout(Stripped(r.m, sig), r.e, sig)

-----------------------------------------------------------------------------
(* cfg_json_scan_num: mantissa and decimal exponent                        *)

ValueOf(d) == FoldLeft(LAMBDA m, c : 10 * m + c, 0, d)

\* A leading 0 counts as a digit; digits over the limit move the exponent or are dropped.
Scan(t) ==
  LET kept == Min({Len(t.int), MantDigits})
      room == Min({Len(t.frac), MantDigits - kept})
  IN  [m |-> ValueOf(SubSeq(t.int, 1, kept) \o SubSeq(t.frac, 1, room)),
       e |-> (Len(t.int) - kept) - room + t.exp]

Same(r, x) == LET k == Min({r.e, x}) IN r.m * Ten(r.e - k) = n * Ten(x - k)

\* cfg_json_w_f32: the short form, or the exact one when the short one reads back differently.
Write(x, estimate) ==
  LET short == Format(x, estimate, Digits)
  IN  IF Same(Scan(short), x) THEN short ELSE Format(x, estimate, ExactDigits)

NumberInit == n = 1
NumberNext == n' = IF n = Ten(ExactDigits) THEN 1 ELSE n + 1

-----------------------------------------------------------------------------
(* Properties *)

Estimate(x, off) == DigitsOf(n) - 1 + x + off

\* Every value that the exact form can hold reads back as itself, with the exponent estimated
\* right or one too low (config_json.c: the guard keeps cfg-get and cfg-set from being "a
\* silent editor of the user's config").  The divisions that estimate it come out one too
\* high only a rounding error below a power of ten, closer than any float is.
NumberComesBack ==
  n < Ten(ExactDigits) => \A x \in Exponents, off \in {-1, 0} : Same(Scan(Write(x, Estimate(x, off))), x)

\* The mantissa has exactly the digits asked for and is a nearest one, wherever the estimate
\* landed: rounding up to a power of ten is the case that needs the last step.
MantissaIsNearest ==
  \A x \in Exponents, off \in {-1, 0, 1} :
    LET r == Mantissa(x, Estimate(x, off), Digits)
        k == r.e - Digits + 1
        low == Min({k, x})
        error == r.m * Ten(k - low) - n * Ten(x - low)
    IN  /\ r.m \in Ten(Digits - 1)..(Ten(Digits) - 1)
        /\ 2 * error <= Ten(k - low) /\ -2 * error <= Ten(k - low)
=============================================================================
