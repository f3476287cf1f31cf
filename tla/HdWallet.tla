------------------------------ MODULE HdWallet ------------------------------
(* DirectSecp256k1HdWallet (packages/proto-signing) and what it is made of:  *)
(* BIP39 mnemonics and SLIP-10 paths (packages/crypto).  A wallet is         *)
(* generated or restored from words, serialized with a password and          *)
(* deserialized, again and again.                                            *)
EXTENDS Numerals

CONSTANTS
  WordBits,          \* bits in a word, 11 in the code
  ByteBits,          \* bits in a byte, 8 in the code
  AllowedUnits,      \* lengths of a mnemonic, in units of 3 words or 4 bytes: 4..8
  Half,              \* 2^31: the first hardened index
  Sha256(_),         \* the bits of a hash
  Entropies, TypedWords,  \* entropies and words tried; a word is its index in the list
  hdPathLists,       \* what is tried as the option hdPaths
  Passwords          \* of serializations and for BIP39; "" is the default for BIP39

VARIABLES
  entropy,    \* parameter: what the random source gave; empty for words typed
  words,      \* the mnemonic
  options,    \* parameter: bip39Password, hdPaths and prefix
  stage,      \* new, open, saved or failed
  wallet,     \* secret, BIP39 password in its seed, accounts
  document,   \* the serialization
  mistyped    \* history: the password of the serialization was wrong

vars == <<entropy, words, options, stage, wallet, document, mistyped>>

Unit == 4 * ByteBits

None == [secret |-> <<>>, password |-> "", accounts |-> <<>>]

Init ==
  /\ \/ entropy \in Entropies /\ words = <<>>
     \/ entropy = <<>> /\ words \in TypedWords
  /\ options \in [bip39Password : Passwords \cup {""}, hdPaths : hdPathLists, prefix : {"cosmos", "other"}]
  /\ stage = "new" /\ wallet = None
  /\ document = [key |-> "", mnemonic |-> <<>>, accounts |-> <<>>]
  /\ mistyped = FALSE
-----------------------------------------------------------------------------
(* Mnemonics.                                                                *)

\* Numbers of the given width as a string of bits, and back.
Bits(numbers, width) ==
  [i \in 1..(width * Len(numbers)) |->
     (numbers[(i - 1) \div width + 1] \div Power(2, (width - 1) - ((i - 1) % width))) % 2]

Numbers(bits, width) ==
  [k \in 1..(Len(bits) \div width) |->
     Number(2, [j \in 1..width |-> bits[(k - 1) * width + j]])]

deriveChecksumBits(bytes) == SubSeq(Sha256(bytes), 1, (ByteBits * Len(bytes)) \div Unit)

entropyToMnemonic(bytes) == Numbers(Bits(bytes, ByteBits) \o deriveChecksumBits(bytes), WordBits)

\* The entropy, or nothing when the words are not a mnemonic.
mnemonicToEntropy(ws) ==
  LET bits    == Bits(ws, WordBits)
      divider == (Len(bits) \div (Unit + 1)) * Unit
      bytes   == Numbers(SubSeq(bits, 1, divider), ByteBits)
      checksum == SubSeq(bits, divider + 1, Len(bits))
  IN {e \in {bytes} : /\ Len(ws) \in {3 * u : u \in AllowedUnits}
                      /\ \A i \in DOMAIN ws : ws[i] < Power(2, WordBits)
                      /\ deriveChecksumBits(e) = checksum}
-----------------------------------------------------------------------------
(* Paths: components with or without an apostrophe.                          *)

pathToString(path) ==
  [i \in DOMAIN path |->
     [number |-> IF path[i] >= Half THEN path[i] - Half ELSE path[i], apostrophe |-> path[i] >= Half]]

\* Faulty: the highest index is refused.
stringToPathTight(text) ==
  IF \E i \in DOMAIN text : text[i].number >= Half - 1 THEN {}
  ELSE {[i \in DOMAIN text |-> IF text[i].apostrophe THEN text[i].number + Half ELSE text[i].number]}

stringToPath(text) ==
  IF \E i \in DOMAIN text : text[i].number >= Half THEN {}
  ELSE {[i \in DOMAIN text |-> IF text[i].apostrophe THEN text[i].number + Half ELSE text[i].number]}
-----------------------------------------------------------------------------
(* The wallet, or nothing when the words are refused.  Its seed is made of    *)
(* the words and the BIP39 password.                                          *)
fromMnemonic(ws, password, paths, prefix) ==
  {[secret |-> ws, password |-> password,
    accounts |-> [i \in DOMAIN paths |-> [hdPath |-> paths[i], prefix |-> prefix]]]
     : e \in mnemonicToEntropy(ws)}

\* The keys and addresses of a wallet differ whenever one of these differs.
getAccounts(w) ==
  [i \in DOMAIN w.accounts |-> [seed |-> <<w.secret, w.password>>, account |-> w.accounts[i]]]

\* A wallet, or a throw.
OpenOrFail(ws) ==
  \/ ws = {} /\ stage' = "failed" /\ UNCHANGED wallet
  \/ wallet' \in ws /\ stage' = "open"

Open(ws) == OpenOrFail(fromMnemonic(ws, options.bip39Password, options.hdPaths, options.prefix))

\* generate(): entropy of 4 * floor(11 * length / 33) bytes makes the words.
generate ==
  /\ stage = "new" /\ words = <<>>
  /\ words' = entropyToMnemonic(entropy)
  /\ Open(words')
  /\ UNCHANGED <<entropy, options, document, mistyped>>

Restore ==
  /\ stage = "new" /\ words # <<>>
  /\ Open(words)
  /\ UNCHANGED <<entropy, words, options, document, mistyped>>

\* The key of the encryption is made of the password.
serialize(password) ==
  /\ stage = "open" /\ stage' = "saved"
  /\ document' = [key |-> password, mnemonic |-> wallet.secret,
                  accounts |-> [i \in DOMAIN wallet.accounts |->
                     [hdPath |-> pathToString(wallet.accounts[i].hdPath), prefix |-> wallet.accounts[i].prefix]]]
  /\ UNCHANGED <<entropy, words, options, wallet, mistyped>>

\* Throws with another key, for a list without a first account, and for paths
\* that cannot be parsed.  The BIP39 password is not in the document.
deserialize(password) ==
  LET accounts == document.accounts
      paths    == [i \in DOMAIN accounts |-> stringToPath(accounts[i].hdPath)]
  IN /\ stage = "saved"
     /\ OpenOrFail(
          IF password # document.key \/ accounts = <<>> \/ \E i \in DOMAIN paths : paths[i] = {} THEN {}
          ELSE fromMnemonic(document.mnemonic, "",
                 [i \in DOMAIN paths |-> CHOOSE p \in paths[i] : TRUE], accounts[1].prefix))
     /\ mistyped' = (password # document.key)
     /\ UNCHANGED <<entropy, words, options, document>>

Next == generate \/ Restore \/ \E p \in Passwords : serialize(p) \/ deserialize(p)

Spec == Init /\ [][Next]_vars
-----------------------------------------------------------------------------
(* A wallet that was serialized can be deserialized with its password, and    *)
(* has the keys and addresses of the original, for every legal path; except   *)
(* that one with a BIP39 password comes back without it, and one without      *)
(* paths does not come back.  Words are accepted only if they are what their  *)
(* entropy encodes to, and generated ones always are.                         *)
RestoredIsTheSame ==
  /\ stage \in {"open", "saved"} =>
       /\ options.bip39Password = "" =>
            getAccounts(wallet) =
              [i \in DOMAIN options.hdPaths |->
                 [seed |-> <<words, "">>,
                  account |-> [hdPath |-> options.hdPaths[i], prefix |-> options.prefix]]]
       /\ \E e \in mnemonicToEntropy(words) :
            entropyToMnemonic(e) = words /\ (entropy # <<>> => e = entropy)
  /\ stage = "failed" =>
       \/ mistyped \/ options.hdPaths = <<>>
       \/ entropy = <<>> /\ \A e \in Entropies : entropyToMnemonic(e) # words
=============================================================================
