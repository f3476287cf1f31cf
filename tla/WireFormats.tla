----------------------------- MODULE WireFormats -----------------------------
(* Values that change their form on the way between the chain, a device and  *)
(* the application: times (tendermint-rpc/src/dates.ts, encoding/src/        *)
(* rfc3339.ts), signatures (crypto/src/secp256k1signature.ts) and the header *)
(* of a block (comet38/encodings.ts, comet38/hasher.ts).                     *)
EXTENDS Integers, Sequences, Decimals, FiniteSetsExt

CONSTANTS
  MsDigits, NsDigits,  \* decimal digits of the milliseconds and of the rest: 3 and 6
  Group,               \* bits in a byte of an uvarint: 7
  IntBits,             \* bits of the integers of JavaScript's shifts: 32
  IntegerBytes,        \* bytes of r and s: 32
  Times, Signatures, Headers  \* what is tried: texts, DER bytes, numbers of fields

VARIABLES
  first,  \* parameter: the form and the data in which the value came in
  form,   \* rfc3339, date, seconds, bytes; der, signature, fixed; header, tree; or failed
  data

vars == <<first, form, data>>

Init ==
  /\ \/ first \in {[form |-> "rfc3339", data |-> t] : t \in Times}
     \/ first \in {[form |-> "der", data |-> s] : s \in Signatures}
     \/ first \in {[form |-> "header", data |-> n] : n \in Headers}
  /\ form = first.form /\ data = first.data

Becomes(f, d) == form' = f /\ data' = d /\ UNCHANGED first
-----------------------------------------------------------------------------
(* Times.  A text is the seconds that it spells, a fraction and a time zone. *)
Millis == Power(10, MsDigits)
Nanos == Power(10, NsDigits)

\* JavaScript's %, whose result has the sign of a.
Remainder(a, b) == IF a >= 0 THEN a % b ELSE -((-a) % b)

fromRfc3339(text) ==
  (text.seconds - text.offset) * Millis
    + ValueOf(SubSeq(PadEnd(text.fraction, MsDigits), 1, MsDigits))

\* The digits after the milliseconds count only before a "Z".
fromRfc3339WithNanoseconds ==
  /\ form = "rfc3339"
  /\ LET rest == IF data.utc THEN SubSeq(data.fraction, MsDigits + 1, Len(data.fraction)) ELSE <<>>
     IN Becomes("date", [time |-> fromRfc3339(data), nanoseconds |-> ValueOf(PadEnd(rest, NsDigits))])

\* Faulty: zeros in front of the nanoseconds are forgotten.
toRfc3339Unpadded ==
  /\ form = "date"
  /\ Becomes("rfc3339",
       [seconds |-> data.time \div Millis, utc |-> TRUE, offset |-> 0,
        fraction |-> PadStart(DigitsOf(data.time % Millis), MsDigits) \o DigitsOf(data.nanoseconds)])

toRfc3339WithNanoseconds ==
  /\ form = "date"
  /\ Becomes("rfc3339",
       [seconds |-> data.time \div Millis, utc |-> TRUE, offset |-> 0,
        fraction |-> PadStart(DigitsOf(data.time % Millis), MsDigits)
                       \o PadStart(DigitsOf(data.nanoseconds), NsDigits)])

\* A timestamp of the protobuf messages.
Timestamp(date) ==
  [seconds |-> date.time \div Millis,
   nanos |-> Remainder(date.time, Millis) * Nanos + date.nanoseconds]

toSeconds == form = "date" /\ Becomes("seconds", Timestamp(data))

\* Negative nanos are refused, and those of more than a second.
fromSeconds ==
  /\ form = "seconds"
  /\ IF data.nanos \in 0..(Millis * Nanos - 1)
     THEN Becomes("date", [time |-> data.seconds * Millis + data.nanos \div Nanos,
                           nanoseconds |-> data.nanos % Nanos])
     ELSE Becomes("failed", <<>>)
-----------------------------------------------------------------------------
(* A header.                                                                 *)

\* What bitwise operators and shifts make of a number.
Limit == Power(2, IntBits - 1)
Int32(n) == LET m == n % (2 * Limit) IN IF m >= Limit THEN m - 2 * Limit ELSE m

\* The top bit of a byte tells that more bytes follow.
More == Power(2, Group)

encodeUvarint(n) ==
  LET bytes[k \in {j \in Int : j <= n}] ==
        IF k >= More
        THEN <<(Int32(k) % More) + More>> \o bytes[Int32(k) \div More]
        ELSE <<Int32(k) % (2 * More)>>
  IN bytes[n]

\* A number that is zero is left out.
encodeTime ==
  /\ form = "date"
  /\ LET field(n) == IF n = 0 THEN <<>> ELSE encodeUvarint(n)
     IN Becomes("bytes", [seconds |-> field(Timestamp(data).seconds), nanos |-> field(Timestamp(data).nanos)])

\* The largest power of two below n.
getSplitPoint(n) ==
  LET largestPowerOf2 == Max({k \in {Power(2, i) : i \in 0..n} : k <= n})
  IN IF largestPowerOf2 < n THEN largestPowerOf2 ELSE largestPowerOf2 \div 2

\* The tree over n fields: a node <<from, to>> covers the fields from + 1 to to.
hashTree(n) ==
  LET nodes[k \in 1..n] ==
        {<<0, k>>} \cup
          IF k = 1 THEN {}
          ELSE LET slicePoint == getSplitPoint(k)
               IN nodes[slicePoint]
                    \cup {<<slicePoint + node[1], slicePoint + node[2]>> : node \in nodes[k - slicePoint]}
  IN nodes[n]

hashBlock == form = "header" /\ Becomes("tree", hashTree(data))
-----------------------------------------------------------------------------
(* Signatures, as bytes.                                                     *)
trimLeadingNullBytes(bytes) ==
  SubSeq(bytes, Min({i \in DOMAIN bytes : bytes[i] # 0} \cup {Len(bytes) + 1}), Len(bytes))

\* The constructor, which wants unpadded integers that are not zero.
Construct(r, s) ==
  IF Len(r) \in 1..IntegerBytes /\ Len(s) \in 1..IntegerBytes
  THEN Becomes("signature", [r |-> r, s |-> s])
  ELSE Becomes("failed", <<>>)

fromDer ==
  /\ form = "der"
  /\ LET rLength == data[4]
         sLength == data[6 + rLength]
         wellFormed == /\ data[1] = 48 /\ data[2] = Len(data) - 2
                       /\ data[3] = 2 /\ rLength < 128
                       /\ data[5 + rLength] = 2 /\ sLength < 128
     IN IF wellFormed
        THEN Construct(trimLeadingNullBytes(SubSeq(data, 5, 4 + rLength)),
                       trimLeadingNullBytes(SubSeq(data, 7 + rLength, 6 + rLength + sLength)))
        ELSE Becomes("failed", <<>>)

toDer ==
  /\ form = "signature"
  /\ LET positive(bytes) == IF bytes[1] >= 128 THEN <<0>> \o bytes ELSE bytes
         integer(bytes) == <<2, Len(positive(bytes))>> \o positive(bytes)
         body == integer(data.r) \o integer(data.s)
     IN Becomes("der", <<48, Len(body)>> \o body)

toFixedLength ==
  /\ form = "signature"
  /\ Becomes("fixed", PadStart(data.r, IntegerBytes) \o PadStart(data.s, IntegerBytes))

fromFixedLength ==
  /\ form = "fixed"
  /\ Construct(trimLeadingNullBytes(SubSeq(data, 1, IntegerBytes)),
               trimLeadingNullBytes(SubSeq(data, IntegerBytes + 1, 2 * IntegerBytes)))
-----------------------------------------------------------------------------
Next ==
  \/ fromRfc3339WithNanoseconds \/ toRfc3339WithNanoseconds \/ toSeconds \/ fromSeconds
  \/ encodeTime \/ hashBlock
  \/ fromDer \/ toDer \/ toFixedLength \/ fromFixedLength

Spec == Init /\ [][Next]_vars
-----------------------------------------------------------------------------
(* What the data mean, each form by its own standard.                        *)

\* Groups of bits, the lowest first; all but the last have a bit on top.
Uvarint(bytes) ==
  Number(More, [i \in DOMAIN bytes |-> bytes[Len(bytes) + 1 - i] % More])

Instant(seconds, nanos) == seconds * Millis * Nanos + nanos

\* The header's tree by RFC 6962: blocks of 2^l fields, the last one cut off.
Blocks(n) ==
  {<<k * Power(2, l), Min({n, (k + 1) * Power(2, l)})>> : l \in 0..n, k \in 0..(n - 1)}
    \cap ((0..(n - 1)) \X (1..n))

\* DER: a sequence of two integers, each with a tag and a length of one byte;
\* an integer whose highest bit is set is negative.
DerR(d) == SubSeq(d, 5, 4 + d[4])
DerS(d) == SubSeq(d, 7 + d[4], Len(d))
Integer(bytes) == Number(256, bytes) - (IF bytes[1] >= 128 THEN Power(256, Len(bytes)) ELSE 0)

IsDer(d) ==
  LET rLength == d[4]
      sLength == d[6 + rLength]
  IN /\ d \in Seq(0..255) /\ Len(d) \in 8..129 /\ 6 + rLength < Len(d)
     /\ d[1] = 48 /\ d[2] = Len(d) - 2
     /\ d[3] = 2 /\ rLength > 0 /\ d[5] < 128
     /\ d[5 + rLength] = 2 /\ sLength = Len(d) - (6 + rLength) /\ d[7 + rLength] < 128

Meaning(f, d) ==
  CASE f = "rfc3339" -> Instant(d.seconds - d.offset, ValueOf(PadEnd(d.fraction, MsDigits + NsDigits)))
    [] f = "date" -> d.time * Nanos + d.nanoseconds
    [] f = "seconds" -> Instant(d.seconds, d.nanos)
    [] f = "bytes" -> Instant(Uvarint(d.seconds), Uvarint(d.nanos))
    [] f = "der" -> <<Integer(DerR(d)), Integer(DerS(d))>>
    [] f = "signature" -> <<Number(256, d.r), Number(256, d.s)>>
    [] f = "fixed" -> <<Number(256, SubSeq(d, 1, IntegerBytes)), Number(256, SubSeq(d, IntegerBytes + 1, Len(d)))>>
    [] f = "header" -> {node \in Blocks(d) : node[1] < node[2]}
    [] f = "tree" -> d

\* What the code does not keep: nanoseconds of a time that is not spelled with
\* a "Z", fractions before 1970, and seconds that shifts take for negative.
Kept ==
  first.form = "rfc3339" =>
    LET text == first.data
        seconds == text.seconds - text.offset
    IN /\ text.utc \/ Len(text.fraction) <= MsDigits
       /\ seconds < 0 => ValueOf(text.fraction) = 0
       /\ form = "bytes" => seconds \in 0..(Limit - 1)

(* However often a value changes its form, it means the same, and no form of *)
(* it is refused.                                                            *)
FormsAgree == Kept => form # "failed" /\ Meaning(form, data) = Meaning(first.form, first.data)
=============================================================================
