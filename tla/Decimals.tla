------------------------------ MODULE Decimals ------------------------------
(* Decimal of packages/math/src/decimal.ts: a natural number of atomics with *)
(* a fixed number of fractional digits, and its text form.  A text is the    *)
(* digits before the separator, whether there is one, and those after it.    *)
EXTENDS Numerals

Digit == 0..9

Text(whole, fraction) == [whole |-> whole, dot |-> fraction # <<>>, fraction |-> fraction]

ValueOf(digits) == Number(10, digits)
DigitsOf(n) == Numeral(10, n)

Zeros(n) == [i \in 1..n |-> 0]

\* String.padStart and padEnd with "0".
PadStart(digits, n) == (IF n > Len(digits) THEN Zeros(n - Len(digits)) ELSE <<>>) \o digits
PadEnd(digits, n) == digits \o (IF n > Len(digits) THEN Zeros(n - Len(digits)) ELSE <<>>)

\* Zeros at the end are dropped.
Trim(digits) ==
  LET last == CHOOSE k \in 0..Len(digits) :
                /\ k > 0 => digits[k] # 0
                /\ \A i \in (k + 1)..Len(digits) : digits[i] = 0
  IN SubSeq(digits, 1, last)
-----------------------------------------------------------------------------
\* The result is empty where the code throws, as for "1." and for "" with no
\* digits at all.
fromUserInput(text, fractionalDigits) ==
  LET whole == IF text.whole = <<>> /\ ~text.dot THEN <<0>> ELSE text.whole
      fraction == Trim(text.fraction)
      quantity == whole \o PadEnd(fraction, fractionalDigits)
  IN IF (text.dot /\ text.fraction = <<>>) \/ Len(fraction) > fractionalDigits \/ quantity = <<>>
     THEN {}
     ELSE {[atomics |-> ValueOf(quantity), fractionalDigits |-> fractionalDigits]}

fromAtomics(atomics, fractionalDigits) == [atomics |-> atomics, fractionalDigits |-> fractionalDigits]

toString(d) ==
  LET factor == Power(10, d.fractionalDigits)
      fractional == d.atomics % factor
  IN Text(DigitsOf(d.atomics \div factor),
          IF fractional = 0 THEN <<>> ELSE Trim(PadStart(DigitsOf(fractional), d.fractionalDigits)))

floor(d) ==
  LET factor == Power(10, d.fractionalDigits) IN [d EXCEPT !.atomics = (@ \div factor) * factor]

ceil(d) ==
  LET factor == Power(10, d.fractionalDigits)
  IN [d EXCEPT !.atomics = IF @ % factor = 0 THEN @ ELSE (@ \div factor + 1) * factor]

multiply(d, n) == [d EXCEPT !.atomics = @ * n]
=============================================================================
