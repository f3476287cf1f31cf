------------------------------ MODULE Multisig ------------------------------
(* A transaction of a multisig account: the threshold public key             *)
(* (packages/amino/src/multisig.ts), the signatures that its members send in *)
(* any order, and their assembly (packages/stargate/src/multisignature.ts)   *)
(* into what the chain verifies.  Keys are named by the rank of their raw    *)
(* address, those of the members by 1..Len(given), and any other number is   *)
(* somebody else; an address is a bech32 prefix and a key.                   *)
EXTENDS Numerals, FiniteSets

CONSTANTS
  KeyLists,  \* lists of the members' keys, in the orders that are tried
  Thresholds,\* thresholds that are tried
  Addresses  \* addresses, pairs of prefix and key, that may be in the Map

VARIABLES
  given,      \* parameter: the public keys, as they are passed in
  threshold,  \* parameter
  pubkeys,    \* of the multisig public key; empty if it cannot be made
  signatures, \* the Map: its keys, each with a signature by the key of the address
  prefix,     \* of the first of them, in the order in which they were put in
  stage,      \* new, collecting, sent, accepted, rejected or failed
  tx          \* bit array and list of signatures

vars == <<given, threshold, pubkeys, signatures, prefix, stage, tx>>

Init ==
  /\ given \in KeyLists
  /\ threshold \in {t \in Thresholds : t <= Len(given) + 1}
  /\ pubkeys = <<>> /\ signatures = {} /\ prefix = "" /\ stage = "new"
  /\ tx = [elems |-> <<>>, extraBitsStored |-> 0, signatures |-> <<>>]

\* Sorted by address: the k-th key has k - 1 keys below it.
Ascending(keys) ==
  [k \in DOMAIN keys |->
     keys[CHOOSE i \in DOMAIN keys : Cardinality({j \in DOMAIN keys : keys[j] < keys[i]}) = k - 1]]

createMultisigThresholdPubkey ==
  /\ stage = "new"
  /\ \/ /\ threshold <= Len(given)
        /\ pubkeys' \in {given, Ascending(given)}   \* nosort or not
        /\ stage' = "collecting"
     \/ threshold > Len(given) /\ stage' = "failed" /\ UNCHANGED pubkeys
  /\ UNCHANGED <<given, threshold, signatures, prefix, tx>>

\* A signature comes in.
Collect(address) ==
  /\ stage = "collecting" /\ address \notin signatures
  /\ signatures' = signatures \cup {address}
  /\ prefix' = IF signatures = {} THEN address[1] ELSE prefix
  /\ UNCHANGED <<given, threshold, pubkeys, stage, tx>>
-----------------------------------------------------------------------------
\* Faulty: always starts another byte.
makeCompactBitArrayAnother(bits) ==
  LET bit(i) == IF i <= Len(bits) /\ bits[i] THEN 1 ELSE 0
  IN [elems |-> [k \in 1..(Len(bits) \div 8 + 1) |-> Number(2, [j \in 1..8 |-> bit(8 * (k - 1) + j)])],
      extraBitsStored |-> Len(bits) - (Len(bits) \div 8) * 8]

\* One bit for each member, the highest of a byte first, the rest zero.
makeCompactBitArray(bits) ==
  LET bit(i) == IF i <= Len(bits) /\ bits[i] THEN 1 ELSE 0
  IN [elems |-> [k \in 1..((Len(bits) + 7) \div 8) |-> Number(2, [j \in 1..8 |-> bit(8 * (k - 1) + j)])],
      extraBitsStored |-> Len(bits) - (Len(bits) \div 8) * 8]

\* The Map is asked for the address of a member's key under the prefix of the
\* first address in it: what is there under other prefixes is not found.
Found(key) == <<prefix, key>> \in signatures

\* The signatures that are found, in the order of the keys.
signaturesList ==
  LET list[i \in 0..Len(pubkeys)] ==
        IF i = 0 THEN <<>>
        ELSE IF Found(pubkeys[i]) THEN Append(list[i - 1], pubkeys[i]) ELSE list[i - 1]
  IN list[Len(pubkeys)]

\* A Map without any signatures makes the function throw.
makeMultisignedTx ==
  LET bits == makeCompactBitArray([i \in DOMAIN pubkeys |-> Found(pubkeys[i])]) IN
  /\ stage = "collecting"
  /\ \/ signatures = {} /\ stage' = "failed" /\ UNCHANGED tx
     \/ /\ signatures # {} /\ stage' = "sent"
        /\ tx' = [elems |-> bits.elems, extraBitsStored |-> bits.extraBitsStored,
                  signatures |-> signaturesList]
  /\ UNCHANGED <<given, threshold, pubkeys, signatures, prefix>>
-----------------------------------------------------------------------------
(* The chain: the size of the bit array is the number of keys, and the k-th  *)
(* bit that is set belongs to the k-th signature.                            *)
Size ==
  IF tx.extraBitsStored = 0 THEN 8 * Len(tx.elems) ELSE 8 * (Len(tx.elems) - 1) + tx.extraBitsStored

Bit(i) == (tx.elems[(i - 1) \div 8 + 1] \div Power(2, 7 - ((i - 1) % 8))) % 2 = 1

Valid ==
  LET ones[i \in 0..Size] == IF i = 0 THEN 0 ELSE ones[i - 1] + (IF Bit(i) THEN 1 ELSE 0)
  IN /\ Size = Len(pubkeys)
     /\ ones[Size] = Len(tx.signatures) /\ ones[Size] >= threshold
     /\ \A i \in 1..Size : Bit(i) => tx.signatures[ones[i]] = pubkeys[i]

Verify ==
  /\ stage = "sent"
  /\ stage' = IF Valid THEN "accepted" ELSE "rejected"
  /\ UNCHANGED <<given, threshold, pubkeys, signatures, prefix, tx>>

Next ==
  \/ createMultisigThresholdPubkey \/ makeMultisignedTx \/ Verify
  \/ \E address \in Addresses : Collect(address)

Spec == Init /\ [][Next]_vars
-----------------------------------------------------------------------------
(* The chain accepts the transaction exactly when enough members have signed *)
(* under the prefix of the address that was put into the Map first: in       *)
(* whatever order the others came, whoever else has signed, and also when    *)
(* the bits fill their bytes.  If the first address is of another chain, the *)
(* signatures that the members gave under the prefix of theirs do not count. *)
MultisigAccepted ==
  stage \in {"accepted", "rejected"} =>
    (stage = "accepted" <=> Cardinality({i \in 1..Len(given) : <<prefix, i>> \in signatures}) >= threshold)
=============================================================================
