-------------------------------- MODULE Fees --------------------------------
(* The fee of a transaction: a gas price typed by the user, the gas that     *)
(* simulate() estimated and a multiplier, or a gas limit, make a StdFee      *)
(* (packages/stargate/src/fee.ts and signAndBroadcast).                      *)
EXTENDS Decimals

CONSTANTS
  Digits,          \* fractional digits of a gas price, 18 in the code
  Prices,          \* the texts typed as a gas price
  MaxGas           \* bound: the gas estimated

VARIABLES
  price,       \* parameter: what was typed
  estimate,    \* parameter: the result of simulate()
  percent,     \* parameter: the multiplier times 100; defaultGasMultiplier is 140
  stage,       \* typed, priced, simulated, done or failed
  gasPrice,    \* GasPrice.amount; empty before it is parsed
  gas,         \* StdFee.gas
  amount       \* the amount of StdFee, a text

vars == <<price, estimate, percent, stage, gasPrice, gas, amount>>

Init ==
  /\ price \in Prices /\ estimate \in 1..MaxGas /\ percent \in {100, 140}
  /\ stage = "typed" /\ gasPrice = {} /\ gas = 0 /\ amount = Text(<<0>>, <<>>)

\* GasPrice.fromString, when the client is created; it wants an amount.
ParsePrice ==
  /\ stage = "typed"
  /\ gasPrice' = IF price.whole = <<>> /\ ~price.dot THEN {} ELSE fromUserInput(price, Digits)
  /\ stage' = IF gasPrice' = {} THEN "failed" ELSE "priced"
  /\ UNCHANGED <<price, estimate, percent, gas, amount>>

\* GasPrice.toString, parsed again by another client.
CopyPrice ==
  /\ stage = "priced"
  /\ gasPrice' = UNION {fromUserInput(toString(d), Digits) : d \in gasPrice}
  /\ UNCHANGED <<price, estimate, percent, stage, gas, amount>>

\* Math.round(gasEstimation * multiplier).
Simulated ==
  /\ stage = "priced"
  /\ stage' = "simulated"
  /\ gas' = (estimate * percent + 50) \div 100
  /\ UNCHANGED <<price, estimate, percent, gasPrice, amount>>

\* Faulty: rounds down.
calculateFeeFloor ==
  /\ stage = "simulated" /\ stage' = "done"
  /\ \E d \in gasPrice : amount' = toString(floor(multiply(d, gas)))
  /\ UNCHANGED <<price, estimate, percent, gasPrice, gas>>

calculateFee ==
  /\ stage = "simulated" /\ stage' = "done"
  /\ \E d \in gasPrice : amount' = toString(ceil(multiply(d, gas)))
  /\ UNCHANGED <<price, estimate, percent, gasPrice, gas>>

Next == ParsePrice \/ CopyPrice \/ Simulated \/ calculateFee

Spec == Init /\ [][Next]_vars
-----------------------------------------------------------------------------
\* The price that was typed, times Scale.
Scale == Power(10, Len(price.fraction))
Typed == ValueOf(price.whole \o price.fraction)

(* The fee is the least whole amount that pays for the gas at the price that *)
(* was typed, however often the price was printed and parsed, and covers the *)
(* estimate; its amount is a number without a fraction, as a coin must be.    *)
FeeIsExact ==
  stage = "done" =>
    /\ gas >= estimate
    /\ amount.fraction = <<>>
    /\ ValueOf(amount.whole) * Scale >= Typed * gas
    /\ ValueOf(amount.whole) * Scale < Typed * gas + Scale
=============================================================================
