---------------------------- MODULE AminoSigning ----------------------------
(* Signing a message with an Amino JSON or a direct signer: signAmino and    *)
(* signDirect of packages/stargate/src/signingstargateclient.ts, with the    *)
(* AminoTypes of MsgConverters.  The signer shows the document to the user,  *)
(* who may change fee and memo; the transaction is made of what was signed.  *)
(* The chain checks the signature against the transaction it receives.       *)
EXTENDS MsgConverters

VARIABLES
  mode,      \* parameter: what the signer can do, amino or direct
  msg,       \* parameter: the message that the caller asked for
  timeout,   \* parameter: timeoutHeight, which may be missing
  stage,     \* asked, shown, signed, sent, accepted, rejected, refused or failed
  doc,       \* the sign document
  signed,    \* the document that the signature is for
  tx         \* the transaction, whose messages are protobuf

vars == <<mode, msg, timeout, stage, doc, signed, tx>>

Usual(codec) == IF codec \in {"required", "pubkey", "content"}
                THEN CHOOSE v \in Values(codec) : Convertible(codec, v)
                ELSE CHOOSE v \in Values(codec) : TRUE

\* All fields have an unremarkable value, except for one; fields that are kept
\* hold their own name, so that they can be told apart.
Message(type, field, v) ==
  LET codecs == Register[type]
  IN [type |-> type,
      value |-> [f \in DOMAIN codecs |->
                   IF codecs[f] = "plain" THEN f ELSE IF f = field THEN v ELSE Usual(codecs[f])]]

Nothing == [msgs |-> <<>>, memo |-> "", fee |-> "", timeout |-> {}]

Init ==
  /\ mode \in {"amino", "direct"}
  /\ \/ \E type \in DOMAIN Register : \E field \in DOMAIN Register[type] :
          \E v \in Values(Register[type][field]) : msg = Message(type, field, v)
     \/ msg = [type |-> "MsgGrant", value |-> <<>>]
  /\ timeout \in Optional({0, 5})
  /\ stage = "asked"
  /\ doc = Nothing /\ signed = Nothing /\ tx = Nothing
-----------------------------------------------------------------------------
ToAmino(m) ==
  [type |-> AminoTypeOf(m.type),
   value |-> [f \in DOMAIN m.value |-> ToJson(Register[m.type][f], m.value[f])]]

\* fromAmino looks for the one type URL with this Amino type.
TypesOf(aminoType) == {type \in DOMAIN Register : AminoTypeOf(type) = aminoType}

FromAmino(m) ==
  LET type == OneOf(TypesOf(m.type))
  IN [type |-> type, value |-> [f \in DOMAIN m.value |-> FromJson(Register[type][f], m.value[f])]]

\* timeout_height is left out of the document when it is missing or zero.
makeSignDoc(msgs) == [msgs |-> msgs, memo |-> "memo", fee |-> "fee", timeout |-> timeout \ {0}]

\* signAmino up to the signer: an unknown type or a missing part throws.
ShowAmino ==
  /\ stage = "asked" /\ mode = "amino"
  /\ \/ /\ msg.type \in DOMAIN Register
        /\ \A f \in DOMAIN msg.value : Convertible(Register[msg.type][f], msg.value[f])
        /\ stage' = "shown" /\ doc' = makeSignDoc(<<ToAmino(msg)>>)
     \/ /\ \/ msg.type \notin DOMAIN Register
           \/ \E f \in DOMAIN msg.value : ~Convertible(Register[msg.type][f], msg.value[f])
        /\ stage' = "failed" /\ UNCHANGED doc
  /\ UNCHANGED <<mode, msg, timeout, signed, tx>>

\* signDirect up to the signer: the document holds the encoded transaction.
ShowDirect ==
  /\ stage = "asked" /\ mode = "direct"
  /\ stage' = "shown"
  /\ doc' = [makeSignDoc(<<msg>>) EXCEPT !.timeout = {OrDefault(timeout, 0)}]
  /\ UNCHANGED <<mode, msg, timeout, signed, tx>>

\* The user signs, with another fee or memo or as it is, or refuses.
Sign ==
  /\ stage = "shown"
  /\ \/ stage' = "refused" /\ UNCHANGED signed
     \/ /\ stage' = "signed"
        /\ \E fee \in {doc.fee, "higher fee"}, memo \in {doc.memo, ""} :
             signed' = [doc EXCEPT !.fee = fee, !.memo = memo]
  /\ UNCHANGED <<mode, msg, timeout, doc, tx>>

\* Faulty: takes the memo that the caller gave.
AssembleAminoOwnMemo ==
  /\ stage = "signed" /\ mode = "amino"
  /\ stage' = "sent"
  /\ tx' = [msgs |-> Map(FromAmino, signed.msgs), memo |-> doc.memo, fee |-> signed.fee,
            timeout |-> {OrDefault(timeout, 0)}]
  /\ UNCHANGED <<mode, msg, timeout, doc, signed>>

\* The rest of signAmino: the timeout is the caller's, all else was signed.
AssembleAmino ==
  /\ stage = "signed" /\ mode = "amino"
  /\ stage' = "sent"
  /\ tx' = [msgs |-> Map(FromAmino, signed.msgs), memo |-> signed.memo, fee |-> signed.fee,
            timeout |-> {OrDefault(timeout, 0)}]
  /\ UNCHANGED <<mode, msg, timeout, doc, signed>>

AssembleDirect ==
  /\ stage = "signed" /\ mode = "direct"
  /\ stage' = "sent" /\ tx' = signed
  /\ UNCHANGED <<mode, msg, timeout, doc, signed>>

\* The document that the chain renders from a transaction.
ChainDoc ==
  LET Rendered(m) ==
        [type |-> AminoTypeOf(m.type),
         value |-> [f \in DOMAIN m.value |-> ChainJson(Register[m.type][f], m.value[f])]]
  IN IF mode = "direct" THEN tx
     ELSE [tx EXCEPT !.msgs = Map(Rendered, @), !.timeout = @ \ {0}]

Verify ==
  /\ stage = "sent"
  /\ stage' = IF ChainDoc = signed THEN "accepted" ELSE "rejected"
  /\ UNCHANGED <<mode, msg, timeout, doc, signed, tx>>

Next == ShowAmino \/ ShowDirect \/ Sign \/ AssembleAmino \/ AssembleDirect \/ Verify

Spec == Init /\ [][Next]_vars
-----------------------------------------------------------------------------
SameMeaning(m, n) ==
  /\ m.type = n.type
  /\ m.type \in DOMAIN Register =>
       \A f \in DOMAIN m.value :
         Meaning(Register[m.type][f], m.value[f]) = Meaning(Register[m.type][f], n.value[f])

VotesWithOneOption(m) == m.type = "MsgVoteWeighted" /\ Len(m.value.options) = 1

\* A JSON number that JavaScript rounds.
Rounded(m) == "msg" \in DOMAIN m.value /\ m.value.msg = "long number"

(* The chain accepts whatever the user has signed, with the fee and memo of  *)
(* the user, and executes the message that the caller asked for; except for   *)
(* votes with a single option (see VotesAreAccepted) and, with an Amino      *)
(* signer, for contract messages with numbers beyond 53 bits.                *)
SignedIsExecuted ==
  (stage \in {"accepted", "rejected"} /\ ~VotesWithOneOption(msg)) =>
    /\ stage = "accepted"
    /\ tx.fee = signed.fee /\ tx.memo = signed.memo
    /\ SameMeaning(tx.msgs[1], msg) \/ (mode = "amino" /\ Rounded(msg))

(* Weights up to one are rendered with all their digits, "1.000000000000000000" *)
(* included, so votes are accepted.                                          *)
VotesAreAccepted == stage = "rejected" => msg.type # "MsgVoteWeighted"
=============================================================================
