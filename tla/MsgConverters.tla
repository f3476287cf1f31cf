---------------------------- MODULE MsgConverters ----------------------------
(* The Amino JSON converters of packages/stargate/src/modules and of         *)
(* packages/cosmwasm-stargate/src/modules/wasm/aminomessages.ts: for each    *)
(* message type its fields, for each field how its protobuf value becomes    *)
(* JSON and back.  Optional values are sets of at most one element.          *)
EXTENDS Decimals

CONSTANTS
  DecDigits   \* fractional digits of a Cosmos SDK decimal, 18 in the code

Optional(S) == {{}} \cup {{v} : v \in S}
OneOf(optional) == CHOOSE v \in optional : TRUE
Map(f(_), seq) == [i \in DOMAIN seq |-> f(seq[i])]

\* Bank, distribution and vesting: addresses and coins are kept.
BankMsgs == [
  MsgSend      |-> [fromAddress |-> "plain", toAddress |-> "plain", amount |-> "coins"],
  MsgMultiSend |-> [inputs |-> "coins", outputs |-> "coins"] ]

DistributionMsgs == [
  MsgFundCommunityPool           |-> [amount |-> "coins", depositor |-> "plain"],
  MsgSetWithdrawAddress          |-> [delegatorAddress |-> "plain", withdrawAddress |-> "plain"],
  MsgWithdrawDelegatorReward     |-> [delegatorAddress |-> "plain", validatorAddress |-> "plain"],
  MsgWithdrawValidatorCommission |-> [validatorAddress |-> "plain"] ]

VestingMsgs == [
  MsgCreateVestingAccount |-> [fromAddress |-> "plain", toAddress |-> "plain", amount |-> "coins",
                               endTime |-> "bigint", delayed |-> "plain"] ]

GovMsgs == [
  MsgDeposit        |-> [amount |-> "coins", depositor |-> "plain", proposalId |-> "bigint"],
  MsgVote           |-> [option |-> "enum", proposalId |-> "bigint", voter |-> "plain"],
  MsgVoteWeighted   |-> [options |-> "weighted", proposalId |-> "bigint", voter |-> "plain"],
  MsgSubmitProposal |-> [initialDeposit |-> "coins", proposer |-> "plain", content |-> "content"] ]

Delegation == [delegatorAddress |-> "plain", validatorAddress |-> "plain", amount |-> "required"]

StakingMsgs == [
  MsgBeginRedelegate |-> [delegatorAddress |-> "plain", validatorSrcAddress |-> "plain",
                          validatorDstAddress |-> "plain", amount |-> "required"],
  MsgDelegate        |-> Delegation,
  MsgUndelegate      |-> Delegation,
  MsgCancelUnbondingDelegation |-> [delegatorAddress |-> "plain", validatorAddress |-> "plain",
                                    amount |-> "required", creationHeight |-> "bigint"],
  MsgCreateValidator |-> [description |-> "required", rate |-> "decimal", maxRate |-> "decimal",
                          maxChangeRate |-> "decimal", minSelfDelegation |-> "plain",
                          delegatorAddress |-> "plain", validatorAddress |-> "plain",
                          pubkey |-> "pubkey", value |-> "required"],
  MsgEditValidator   |-> [description |-> "required", commissionRate |-> "newRate",
                          minSelfDelegation |-> "omitted", validatorAddress |-> "plain"] ]

IbcMsgs == [
  MsgTransfer |-> [sourcePort |-> "plain", sourceChannel |-> "plain", token |-> "plain",
                   sender |-> "plain", receiver |-> "plain", timeoutHeight |-> "height",
                   timeoutTimestamp |-> "omittedBigint", memo |-> "omitted"] ]

WasmMsgs == [
  MsgStoreCode            |-> [sender |-> "plain", wasmByteCode |-> "plain", instantiatePermission |-> "access"],
  MsgInstantiateContract  |-> [sender |-> "plain", codeId |-> "bigint", label |-> "plain", msg |-> "json",
                               funds |-> "coins", admin |-> "omitted"],
  MsgInstantiateContract2 |-> [sender |-> "plain", codeId |-> "bigint", label |-> "plain", msg |-> "json",
                               funds |-> "coins", admin |-> "omitted", salt |-> "plain", fixMsg |-> "omittedBool"],
  MsgUpdateAdmin          |-> [sender |-> "plain", newAdmin |-> "plain", contract |-> "plain"],
  MsgClearAdmin           |-> [sender |-> "plain", contract |-> "plain"],
  MsgExecuteContract      |-> [sender |-> "plain", contract |-> "plain", msg |-> "json", funds |-> "coins"],
  MsgMigrateContract      |-> [sender |-> "plain", contract |-> "plain", codeId |-> "bigint", msg |-> "json"] ]

\* Authz and feegrant have no converters.
Modules == {BankMsgs, DistributionMsgs, VestingMsgs, GovMsgs, StakingMsgs, IbcMsgs, WasmMsgs}
Register ==
  [type \in UNION {DOMAIN module : module \in Modules} |->
     (CHOOSE module \in Modules : type \in DOMAIN module)[type]]

\* Amino types that are not named after the message.
AminoTypeOf(type) ==
  IF type = "MsgSetWithdrawAddress" THEN "MsgModifyWithdrawAddress"
  ELSE IF type = "MsgWithdrawDelegatorReward" THEN "MsgWithdrawDelegationReward"
  ELSE type
-----------------------------------------------------------------------------
(* What the fields may hold.                                                 *)
One == Power(10, DecDigits)
Access == {"Unspecified", "Nobody", "OnlyAddress", "Everybody", "AnyOfAddresses"}

\* Weights of a vote add up to one.
Votes ==
  {<<[option |-> o, weight |-> One]>> : o \in 1..2}
    \cup {<<[option |-> 1, weight |-> w], [option |-> 3, weight |-> One - w]>> : w \in 1..(One - 1)}

Values(codec) ==
  CASE codec = "plain"         -> {"text"}
    [] codec = "coins"         -> {<<>>, <<"coin">>, <<"coin", "other">>}
    [] codec = "required"      -> Optional({"message"})
    [] codec = "bigint"        -> {0, 1, 70}
    [] codec = "omittedBigint" -> {0, 1, 70}
    [] codec = "omitted"       -> {"", "text"}
    [] codec = "omittedBool"   -> BOOLEAN
    [] codec = "decimal"       -> 0..(2 * One)
    [] codec = "newRate"       -> Optional(0..One)
    [] codec = "weighted"      -> Votes
    [] codec = "enum"          -> 0..4
    [] codec = "json"          -> {"compact", "spaced", "long number"}
    [] codec = "pubkey"        -> Optional({"secp256k1", "ed25519", "multisig", "sr25519"})
    [] codec = "height"        -> Optional([revisionHeight : {0, 70}, revisionNumber : 0..1])
    [] codec = "access"        -> Optional([permission : Access, addresses : {<<>>, <<"address">>}])
    [] codec = "content"       -> Optional({"TextProposal", "ParameterChangeProposal"})

\* assertDefinedAndNotNull and the default cases that throw.
Convertible(codec, v) ==
  CASE codec = "required" -> v # {}
    [] codec = "pubkey"   -> v # {} /\ v # {"sr25519"}
    [] codec = "content"  -> v = {"TextProposal"}
    [] OTHER              -> TRUE
-----------------------------------------------------------------------------
(* The conversions.  BigInt values become texts.                             *)
omitDefault(v, default) == IF v = default THEN {} ELSE {v}
OrDefault(optional, default) == IF optional = {} THEN default ELSE OneOf(optional)

BigintText(n) == Text(DigitsOf(n), <<>>)
BigInt(text) == ValueOf(text.whole)

protoDecimalToJson(atomics) ==
  LET parsed == toString(fromAtomics(atomics, DecDigits))
  IN Text(parsed.whole, PadEnd(parsed.fraction, DecDigits))

jsonDecimalToProto(text) == OneOf(fromUserInput(text, DecDigits)).atomics

\* The text is padded to the length of a number below ten with all its digits.
WeightToJson(weight) ==
  LET text == toString(fromAtomics(weight, DecDigits))
  IN IF text.dot THEN Text(text.whole, PadEnd(text.fraction, DecDigits + 1 - Len(text.whole)))
     ELSE Text(PadEnd(text.whole, DecDigits + 2), <<>>)

HeightToJson(h) ==
  [revisionHeight |-> {BigintText(n) : n \in omitDefault(h.revisionHeight, 0)},
   revisionNumber |-> {BigintText(n) : n \in omitDefault(h.revisionNumber, 0)}]
NoHeight == [revisionHeight |-> {}, revisionNumber |-> {}]

AccessToJson(access) ==
  [permission |-> access.permission, addresses |-> omitDefault(access.addresses, <<>>)]

ToJson(codec, v) ==
  CASE codec = "bigint"        -> BigintText(v)
    [] codec = "omittedBigint" -> {BigintText(n) : n \in omitDefault(v, 0)}
    [] codec = "omitted"       -> omitDefault(v, "")
    [] codec = "omittedBool"   -> omitDefault(v, FALSE)
    [] codec = "decimal"       -> protoDecimalToJson(v)
    [] codec = "newRate"       -> {protoDecimalToJson(n) : n \in v}
    [] codec = "weighted"      -> Map(LAMBDA o : [o EXCEPT !.weight = WeightToJson(@)], v)
    [] codec = "json"          -> IF v = "long number" THEN "rounded object" ELSE "object"
    [] codec = "height"        -> IF v = {} THEN NoHeight ELSE HeightToJson(OneOf(v))
    [] codec = "access"        -> {AccessToJson(a) : a \in v}
    [] OTHER                   -> v

HeightFromJson(j) ==
  {[revisionHeight |-> BigInt(OrDefault(j.revisionHeight, BigintText(0))),
    revisionNumber |-> BigInt(OrDefault(j.revisionNumber, BigintText(0)))]}

FromJson(codec, j) ==
  CASE codec = "bigint"        -> BigInt(j)
    [] codec = "omittedBigint" -> BigInt(OrDefault(j, BigintText(0)))
    [] codec = "omitted"       -> OrDefault(j, "")
    [] codec = "omittedBool"   -> OrDefault(j, FALSE)
    [] codec = "decimal"       -> jsonDecimalToProto(j)
    [] codec = "newRate"       -> {jsonDecimalToProto(text) : text \in j}
    [] codec = "weighted"      -> Map(LAMBDA o : [o EXCEPT !.weight = jsonDecimalToProto(@)], j)
    [] codec = "json"          -> IF j = "object" THEN "compact" ELSE "rounded number"
    [] codec = "height"        -> HeightFromJson(j)
    [] codec = "access"        -> {[a EXCEPT !.addresses = OrDefault(@, <<>>)] : a \in j}
    [] OTHER                   -> j
-----------------------------------------------------------------------------
(* The chain renders a message that it executes as the JSON that it checks   *)
(* the signature for: decimals with all their digits, the rest as converted. *)
ChainDecimal(atomics) == Text(DigitsOf(atomics \div One), PadStart(DigitsOf(atomics % One), DecDigits))

ChainJson(codec, v) ==
  CASE codec = "decimal"  -> ChainDecimal(v)
    [] codec = "newRate"  -> {ChainDecimal(n) : n \in v}
    [] codec = "weighted" -> Map(LAMBDA o : [o EXCEPT !.weight = ChainDecimal(@)], v)
    [] codec = "json"     -> IF v = "rounded number" THEN "rounded object" ELSE "object"
    [] OTHER -> ToJson(codec, v)

\* Values that the chain does not tell apart.
Meaning(codec, v) ==
  CASE codec = "json"   -> IF v = "spaced" THEN "compact" ELSE v
    [] codec = "height" -> IF v = {} THEN {[revisionHeight |-> 0, revisionNumber |-> 0]} ELSE v
    [] OTHER            -> v
=============================================================================
