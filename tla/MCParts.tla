------------------------------ MODULE MCParts ------------------------------
(* Parts of the system that share no state, for TLC: a behaviour is one of    *)
(* the part that its first state names, and the other parts rest.            *)
EXTENDS FaucetRefill, Integers, Sequences

CONSTANTS
  Length, MaxEvents,                                  \* StreamConcat
  PageSize, Validators, MaxItems, MaxHeight,          \* Pagination
  Calls, Paths, testModeAllowed, MaxSwitches,         \* LedgerSigner
  DecDigits,                                          \* AminoSigning
  Digits, Prices, MaxGas,                             \* Fees
  KeyLists, Thresholds, Addresses,                    \* Multisig
  WordBits, ByteBits, AllowedUnits, Half, Passwords,  \* HdWallet
  Sha256(_), Entropies, TypedWords, HdPathLists,
  MsDigits, NsDigits, Group, IntBits, IntegerBytes,   \* WireFormats
  Times, Signatures, Headers

\* Of the numbers that the loops over streams and pages use.
ASSUME LengthAssumption == Length \in Nat

ASSUME PaginationAssumption ==
  PageSize \in Nat \ {0} /\ Validators \in Nat /\ MaxItems \in Nat /\ MaxHeight \in Nat

\* Decimals of the chain have fractional digits, which are always rendered.
ASSUME AminoAssumption == DecDigits \in Nat \ {0}

\* Members are named by the rank of their address.
ASSUME MultisigAssumption ==
  /\ Thresholds \subseteq Nat
  /\ \A keys \in KeyLists :
       keys \in Seq(Nat) /\ {keys[i] : i \in DOMAIN keys} = 1..Len(keys)

\* A price is made of digits; GasPrice.fromString matches nothing else.
ASSUME FeesAssumption ==
  /\ Digits \in Nat /\ MaxGas \in Nat
  /\ Prices \subseteq [whole : Seq(0..9), dot : BOOLEAN, fraction : Seq(0..9)]

VARIABLES
  part,
  phase, subscribed, subscriptions, queues, completedStreams, activeStreamIndex,
  flushing, crashed, leftOver, count, completed, out,
  call, status, page, startAtKey, blockHeight, acc, items, height, outage, before,
  asked, goal, step, pubkeys, accounts, signature, device, switches, checkedAt, signedIn,
  mode, msg, timeout, signing, doc, signed, signedTx,
  price, estimate, percent, paying, gasPrice, gas, amount,
  given, threshold, members, signatures, prefix, collecting, multiTx,
  entropy, words, options, opening, wallet, document, mistyped,
  first, form, data

\* Keys in both orders, for less than a byte of bits, one, and more.
MCKeyLists == UNION {{[i \in 1..n |-> i], [i \in 1..n |-> n + 1 - i]} : n \in {1, 8, 9}}

\* Members and others under the prefix of a chain, two of them under another.
MCAddresses == {<<"cosmos", i>> : i \in 1..9} \cup {<<"juno", 1>>, <<"juno", 9>>}

\* Gas prices of up to two digits, and with one too many.
MCPrices ==
  [whole : {<<>>, <<0>>, <<1>>, <<0, 3>>}, dot : BOOLEAN, fraction : {<<>>}]
    \cup [whole : {<<>>, <<0>>, <<1>>}, dot : {TRUE}, fraction : {<<0>>, <<5>>, <<0, 1>>, <<2, 5, 0>>, <<1, 2, 5>>}]

\* Entropies of one unit and of two; words that are a mnemonic, or have a wrong
\* checksum, length or word; paths with the first and the last indices.
MCEntropies == [1..4 -> {0, 3}] \cup {<<0, 1, 2, 3, a, b, 3, 0>> : a, b \in {0, 3}}
MCTypedWords == [1..3 -> {0, 5, 8}] \cup {<<1>>, <<1, 2, 3, 4>>, <<0, 0, 0, 0, 0, 0>>, <<0, 0, 0, 0, 7, 1>>}
MCHdPathLists ==
  LET paths == {<<>>, <<0, Half>>, <<Half - 1, 2 * Half - 1>>}
  IN UNION {[1..n -> paths] : n \in 0..2}

\* Stands for a hash: a number that depends on every byte and its place.
MCSha256(bytes) ==
  LET sum[i \in 0..Len(bytes)] == IF i = 0 THEN 0 ELSE sum[i - 1] + i * bytes[i]
  IN <<(sum[Len(bytes)] \div 2) % 2, sum[Len(bytes)] % 2>>

\* Times before and after 1970 and around the limit of shifts, with all
\* lengths of a fraction; integers with and without zeros in front.
MCTimes ==
  LET fractions == UNION {[1..k -> {0, 1, 9}] : k \in 0..(MsDigits + NsDigits)}
  IN [seconds : {-1, 0, 1, 2^(IntBits - 1) - 1, 2^(IntBits - 1)}, fraction : fractions,
      utc : {TRUE}, offset : {0}]
       \cup [seconds : {-1, 5}, fraction : fractions, utc : {FALSE}, offset : {-2, 0, 3}]
MCSignatures ==
  LET integers == {<<1>>, <<127>>, <<0, 128>>, <<0, 0, 5>>, <<1, 0>>, <<0, 255, 1>>, <<0, 129, 0, 0>>}
      encoded(bytes) == <<2, Len(bytes)>> \o bytes
      sequence(body) == <<48, Len(body)>> \o body
  IN {sequence(encoded(r) \o encoded(s)) : r, s \in integers}

MCHeaders == 1..17

Concat == INSTANCE StreamConcat WITH ended <- completed
Pages == INSTANCE Pagination
Ledger == INSTANCE LedgerSigner
Amino == INSTANCE AminoSigning WITH stage <- signing, tx <- signedTx
Fee == INSTANCE Fees WITH stage <- paying
Multi == INSTANCE Multisig WITH stage <- collecting, pubkeys <- members, tx <- multiTx
Hd == INSTANCE HdWallet WITH stage <- opening, hdPathLists <- HdPathLists
Wire == INSTANCE WireFormats

\* Three words have the bits of a unit of four bytes and one more, as 3 * 11 is
\* 4 * 8 + 1; a hash has enough bits for the checksum.
ASSUME WalletAssumption ==
  /\ WordBits \in Nat \ {0} /\ ByteBits \in Nat \ {0} /\ 3 * WordBits = 4 * ByteBits + 1
  /\ AllowedUnits \subseteq Nat \ {0} /\ Half \in Nat
  /\ HdPathLists \subseteq Seq(Seq(0..(2 * Half - 1)))
  /\ TypedWords \subseteq Seq(Nat) \ {<<>>}
  /\ \A u \in AllowedUnits : \A bytes \in [1..(4 * u) -> 0..(Hd!Power(2, ByteBits) - 1)] :
       Sha256(bytes) \in Seq({0, 1}) /\ Len(Sha256(bytes)) >= u
  /\ Entropies \subseteq UNION {[1..(4 * u) -> 0..(Hd!Power(2, ByteBits) - 1)] : u \in AllowedUnits}

\* A fraction of a second fits an integer of the shifts; the lengths of DER fit
\* a byte.  Times have at most nine digits after the point, as the matcher of
\* fromRfc3339 wants it; signatures are of numbers that are not zero.
ASSUME WireAssumption ==
  /\ MsDigits \in Nat \ {0} /\ NsDigits \in Nat \ {0} /\ Group \in Nat \ {0} /\ IntBits \in Nat \ {0}
  /\ Wire!Millis * Wire!Nanos <= Wire!Limit
  /\ IntegerBytes \in 1..60
  /\ Times \subseteq [seconds : Int, fraction : Seq(0..9), utc : BOOLEAN, offset : Int]
  /\ \A text \in Times : Len(text.fraction) <= MsDigits + NsDigits
  /\ \A der \in Signatures :
       /\ Wire!IsDer(der)
       /\ Len(Wire!trimLeadingNullBytes(Wire!DerR(der))) \in 1..IntegerBytes
       /\ Len(Wire!trimLeadingNullBytes(Wire!DerS(der))) \in 1..IntegerBytes
  /\ Headers \subseteq Nat \ {0}

concat == <<phase, subscribed, subscriptions, queues, completedStreams, activeStreamIndex, flushing,
            crashed, leftOver, count, completed, out>>
pages == <<call, status, page, startAtKey, blockHeight, acc, items, height, outage, before>>
ledger == <<asked, goal, step, pubkeys, accounts, signature, device, switches, checkedAt, signedIn>>
amino == <<mode, msg, timeout, signing, doc, signed, signedTx>>
fees == <<price, estimate, percent, paying, gasPrice, gas, amount>>
multisig == <<given, threshold, members, signatures, prefix, collecting, multiTx>>
hd == <<entropy, words, options, opening, wallet, document, mistyped>>
wire == <<first, form, data>>

Parts == {"refill", "concat", "pages", "ledger", "amino", "fees", "multisig", "wallet", "wire"}

\* Initial states of the parts that do not take part.
PagesRest ==
  /\ call = [kind |-> "none"] /\ status = "idle" /\ page = 0 /\ startAtKey = 0 /\ blockHeight = 0
  /\ acc = 0 /\ items = 0 /\ height = 0 /\ outage = 0 /\ before = 0
LedgerRest ==
  /\ asked = 0 /\ goal = 0 /\ step = 0 /\ pubkeys = 0 /\ accounts = 0
  /\ signature = 0 /\ device = 0 /\ switches = 0 /\ checkedAt = 0 /\ signedIn = 0
AminoRest ==
  /\ mode = 0 /\ msg = 0 /\ timeout = 0 /\ signing = 0 /\ doc = 0 /\ signed = 0 /\ signedTx = 0
FeesRest ==
  /\ price = 0 /\ estimate = 0 /\ percent = 0 /\ paying = 0 /\ gasPrice = 0 /\ gas = 0 /\ amount = 0
MultisigRest ==
  /\ given = 0 /\ threshold = 0 /\ members = 0 /\ signatures = 0 /\ prefix = 0
  /\ collecting = 0 /\ multiTx = 0
WalletRest ==
  /\ entropy = 0 /\ words = 0 /\ options = 0 /\ opening = 0 /\ wallet = 0 /\ document = 0 /\ mistyped = 0
WireRest == first = 0 /\ form = 0 /\ data = 0

PartsInit ==
  /\ part \in Parts
  /\ Init /\ Concat!Init
  /\ IF part = "pages" THEN Pages!Init ELSE PagesRest
  /\ IF part = "ledger" THEN Ledger!Init ELSE LedgerRest
  /\ IF part = "amino" THEN Amino!Init ELSE AminoRest
  /\ IF part = "fees" THEN Fee!Init ELSE FeesRest
  /\ IF part = "multisig" THEN Multi!Init ELSE MultisigRest
  /\ IF part = "wallet" THEN Hd!Init ELSE WalletRest
  /\ IF part = "wire" THEN Wire!Init ELSE WireRest

PartsNext ==
  /\ UNCHANGED part
  /\ IF part = "refill" THEN Next ELSE UNCHANGED vars
  /\ IF part = "concat" THEN Concat!Next ELSE UNCHANGED concat
  /\ IF part = "pages" THEN Pages!Next ELSE UNCHANGED pages
  /\ IF part = "ledger" THEN Ledger!Next ELSE UNCHANGED ledger
  /\ IF part = "amino" THEN Amino!Next ELSE UNCHANGED amino
  /\ IF part = "fees" THEN Fee!Next ELSE UNCHANGED fees
  /\ IF part = "multisig" THEN Multi!Next ELSE UNCHANGED multisig
  /\ IF part = "wallet" THEN Hd!Next ELSE UNCHANGED hd
  /\ IF part = "wire" THEN Wire!Next ELSE UNCHANGED wire

PartsSpec ==
  /\ PartsInit /\ [][PartsNext]_<<part, vars, concat, pages, ledger, amino, fees, multisig, hd, wire>>
  /\ \A p \in Runs : WF_vars(part = "refill" /\ Work(p))
  /\ \A d \in Distributors : WF_vars(part = "refill" /\ ExecuteLate(d))
  /\ WF_pages(part = "pages" /\ Pages!Turn)

(* A distributor below its threshold is refilled (LowIsRefilled).            *)
RefillServesLow ==
  \A d \in Distributors : (part = "refill" /\ Low(d)) ~> (~Low(d) \/ holder < refillAmount \/ ended)

(* concat() gives the listener all events in order, and the end; not if      *)
(* handlers are left of a start() in which a source failed.                  *)
ConcatIsFaithful == Concat!ConcatIsFaithful

(* Loops over pages return everything once, while the chain grows.           *)
PagesAreComplete == part = "pages" => Pages!PagesAreComplete

(* Every loop over pages ends, except getCodes without a pagination.         *)
LoopsEnd == Pages!LoopsEnd

(* Ledger signatures have the right key, from an app that was accepted.      *)
SignaturesAreChecked == part = "ledger" => Ledger!SignaturesAreChecked

(* The chain executes what the caller asked for and the user signed.         *)
SignedIsExecuted == part = "amino" => Amino!SignedIsExecuted

(* A fee is the least amount that pays the gas at the price typed.           *)
FeeIsExact == part = "fees" => Fee!FeeIsExact

(* A multisig transaction is accepted exactly when enough members signed     *)
(* under the prefix of the first signature.                                  *)
MultisigAccepted == part = "multisig" => Multi!MultisigAccepted

(* A wallet that was serialized comes back with the same keys.               *)
RestoredIsTheSame == part = "wallet" => Hd!RestoredIsTheSame

(* Times, signatures and headers mean the same in all their forms.           *)
FormsAgree == part = "wire" => Wire!FormsAgree
=============================================================================
