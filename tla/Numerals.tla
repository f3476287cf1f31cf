------------------------------ MODULE Numerals ------------------------------
(* Numbers and their digits to a base, the highest digit first: what bn.js,  *)
(* parseInt and Number.toString do for the code.                             *)
EXTENDS Naturals, Sequences

Power(base, n) ==
  LET power[k \in 0..n] == IF k = 0 THEN 1 ELSE base * power[k - 1]
  IN power[n]

\* The number that digits stand for.
Number(base, digits) ==
  LET value[k \in 0..Len(digits)] == IF k = 0 THEN 0 ELSE base * value[k - 1] + digits[k]
  IN value[Len(digits)]

\* The digits of n, at least one and without zeros in front.
Numeral(base, n) ==
  LET digits[k \in 0..n] ==
        IF k < base THEN <<k>> ELSE Append(digits[k \div base], k % base)
  IN digits[n]
=============================================================================
