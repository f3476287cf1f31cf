------------------------------ MODULE TxClient ------------------------------
(* SigningStargateClient.signAndBroadcast on StargateClient.broadcastTx      *)
(* (packages/stargate): read the account's sequence, sign, submit, then poll *)
(* until the transaction is found in a block or a timeout has passed.        *)
(*                                                                           *)
(* Any number of calls run at the same time, also for one account.  An       *)
(* action is the code between two awaits.  The node is external: it checks   *)
(* the sequence against its mempool, executes the mempool in order, may      *)
(* restart with an empty mempool, and may be reached by a request whose      *)
(* connection the client has given up.                                       *)
EXTENDS Naturals, Sequences, FiniteSets

CONSTANTS
  Jobs,         \* calls of signAndBroadcast; a bound on their number for TLC
  Accounts,     \* signer addresses
  NoAccount,    \* the signer of a call that is not made yet
  MaxFaults     \* bound: failed or lost requests and restarts of the node

ASSUME JobsAssumption == IsFiniteSet(Jobs) /\ NoAccount \notin Accounts /\ MaxFaults \in Nat

VARIABLES
  stage,       \* where each call stands
  signer,      \* the signer address of each call
  sequence,    \* signerData.sequence of each call
  timedOut,    \* the variable of broadcastTx that its timer sets
  \* the node and the network
  transit,     \* calls whose transaction is on its way to the node
  mempool,     \* calls whose transaction waits in the mempool
  executed,    \* result of each call's transaction in a block: none, ok or failed
  chainSequence,    \* sequence of each account in the latest block
  \* history
  crowded,     \* calls that overlapped with another transaction of their signer
  faults

nodeVars == <<mempool, executed, chainSequence>>
vars == <<stage, signer, sequence, timedOut, transit, nodeVars, crowded, faults>>

Final == {"delivered", "refused", "timedOut", "error"}
Stages == {"idle", "signing", "submitting", "polling"} \cup Final

Init ==
  /\ stage = [j \in Jobs |-> "idle"]
  /\ signer = [j \in Jobs |-> NoAccount]
  /\ sequence = [j \in Jobs |-> 0]
  /\ timedOut = [j \in Jobs |-> FALSE]
  /\ transit = {} /\ mempool = <<>>
  /\ executed = [j \in Jobs |-> "none"]
  /\ chainSequence = [a \in Accounts |-> 0]
  /\ crowded = {} /\ faults = 0

Goto(j, s) == stage' = [stage EXCEPT ![j] = s]
Fault == faults < MaxFaults /\ faults' = faults + 1

InMempool == {mempool[i] : i \in DOMAIN mempool}

\* Calls for account a whose transaction may still be executed.
Busy(a) ==
  {k \in Jobs : signer[k] = a /\ ( \/ stage[k] \notin Final
                                   \/ k \in transit \cup InMempool )}

\* The sequence that the node expects in the next transaction of account a.
CheckSequence(a) == chainSequence[a] + Cardinality({k \in InMempool : signer[k] = a})
-----------------------------------------------------------------------------
(* The client.                                                               *)

\* The caller makes call j for account a and the account has been asked for sequence n.
Begins(j, a, n) ==
  /\ stage[j] = "idle"
  /\ Goto(j, "signing")
  /\ signer' = [signer EXCEPT ![j] = a]
  /\ sequence' = [sequence EXCEPT ![j] = n]
  /\ crowded' = crowded \cup (IF Busy(a) = {} THEN {} ELSE Busy(a) \cup {j})
  /\ UNCHANGED <<timedOut, transit, nodeVars, faults>>

\* Faulty: counts the calls made for the account instead of asking the chain.
SignAndBroadcastCounts(j, a) == Begins(j, a, Cardinality({k \in Jobs : signer[k] = a}))

(* signAndBroadcast is called, and sign() gets the account from the node,     *)
(* which answers from the latest block: the mempool does not count.          *)
SignAndBroadcast(j, a) == Begins(j, a, chainSequence[a])

\* The chain id and the signature are there; broadcastTx starts its timer and submits.
Sign(j) ==
  /\ stage[j] = "signing"
  /\ Goto(j, "submitting")
  /\ transit' = transit \cup {j}
  /\ UNCHANGED <<signer, sequence, timedOut, nodeVars, crowded, faults>>

\* Faulty: an RPC error is reported like a refusal of the node.
RequestFailsRefused(j) ==
  /\ stage[j] \in {"signing", "submitting", "polling"}
  /\ Goto(j, IF stage[j] = "submitting" THEN "refused" ELSE "error")
  /\ Fault
  /\ UNCHANGED <<signer, sequence, timedOut, transit, nodeVars, crowded>>

(* A query, the signer, the submission or a poll fails, and the call with    *)
(* it.  A submitted transaction may still reach the node.                    *)
RequestFails(j) ==
  /\ stage[j] \in {"signing", "submitting", "polling"}
  /\ Goto(j, "error")
  /\ Fault
  /\ UNCHANGED <<signer, sequence, timedOut, transit, nodeVars, crowded>>

Timeout(j) ==
  /\ stage[j] \in {"submitting", "polling"} /\ ~timedOut[j]
  /\ timedOut' = [timedOut EXCEPT ![j] = TRUE]
  /\ UNCHANGED <<stage, signer, sequence, transit, nodeVars, crowded, faults>>

\* Faulty: the flag of the timer is not looked at.
PollForTxForever(j) == "polling"

\* The head of pollForTx: the next stage of the call.
PollForTx(j) == IF timedOut[j] THEN "timedOut" ELSE "polling"

\* After sleep(pollIntervalMs), the answer of getTx.
GetTx(j) ==
  /\ stage[j] = "polling"
  /\ Goto(j, IF executed[j] # "none" THEN "delivered" ELSE PollForTx(j))
  /\ UNCHANGED <<signer, sequence, timedOut, transit, nodeVars, crowded, faults>>
-----------------------------------------------------------------------------
(* The node and the network.                                                 *)

(* CheckTx and the answer to broadcastTxSync.  A refusal comes with a code,  *)
(* on which it throws a BroadcastTxError; nobody listens to the answer of a  *)
(* connection that was given up.                                             *)
CheckTx(j) ==
  LET Answer(s) == IF stage[j] = "submitting" THEN Goto(j, s) ELSE UNCHANGED stage IN
  /\ j \in transit
  /\ transit' = transit \ {j}
  /\ \/ sequence[j] = CheckSequence(signer[j])
        /\ mempool' = Append(mempool, j) /\ Answer(PollForTx(j))
     \/ sequence[j] # CheckSequence(signer[j])
        /\ UNCHANGED mempool /\ Answer("refused")
  /\ UNCHANGED <<signer, sequence, timedOut, executed, chainSequence, crowded, faults>>

\* A submission is lost.
Lose(j) ==
  /\ j \in transit
  /\ transit' = transit \ {j}
  /\ IF stage[j] = "submitting" THEN Goto(j, "error") ELSE UNCHANGED stage
  /\ Fault
  /\ UNCHANGED <<signer, sequence, timedOut, nodeVars, crowded>>

\* The next transaction of the mempool is executed in a block.
Execute ==
  /\ mempool # <<>>
  /\ LET j == Head(mempool) IN
     /\ \E code \in {"ok", "failed"} : executed' = [executed EXCEPT ![j] = code]
     /\ chainSequence' = [chainSequence EXCEPT ![signer[j]] = @ + 1]
  /\ mempool' = Tail(mempool)
  /\ UNCHANGED <<stage, signer, sequence, timedOut, transit, crowded, faults>>

NodeRestarts ==
  /\ mempool # <<>> /\ Fault
  /\ mempool' = <<>>
  /\ UNCHANGED <<stage, signer, sequence, timedOut, transit, executed, chainSequence, crowded>>
-----------------------------------------------------------------------------
Client(j) == Sign(j) \/ GetTx(j)

Node == Execute \/ NodeRestarts \/ \E j \in Jobs : CheckTx(j) \/ Lose(j)

Next ==
  \/ \E j \in Jobs, a \in Accounts : SignAndBroadcast(j, a)
  \/ \E j \in Jobs : Client(j) \/ RequestFails(j) \/ Timeout(j)
  \/ Node

Spec == Init /\ [][Next]_vars

(* Requests are answered or fail, promises are continued and the timer of    *)
(* broadcastTx fires.  Nothing makes the chain produce blocks.               *)
FairSpec ==
  /\ Spec
  /\ WF_vars(\E j \in Jobs : Client(j))
  /\ WF_vars(\E j \in Jobs : Timeout(j))
  /\ WF_vars(\E j \in Jobs : CheckTx(j))
-----------------------------------------------------------------------------
(* Type invariant.                                                           *)
TypeOK ==
  /\ stage \in [Jobs -> Stages]
  /\ signer \in [Jobs -> Accounts \cup {NoAccount}]
  /\ \A j \in Jobs : stage[j] # "idle" => signer[j] \in Accounts
  /\ sequence \in [Jobs -> Nat]
  /\ timedOut \in [Jobs -> BOOLEAN]
  /\ transit \subseteq Jobs
  /\ mempool \in Seq(Jobs)
  /\ executed \in [Jobs -> {"none", "ok", "failed"}]
  /\ chainSequence \in [Accounts -> Nat]
  /\ crowded \subseteq Jobs
  /\ faults \in 0..MaxFaults

\* What the caller of call j has been told of its transaction.
Told(j) ==
  IF stage[j] = "delivered" THEN executed[j]
  ELSE IF stage[j] = "refused" THEN "refused"
  ELSE IF stage[j] \in Final THEN "unknown" ELSE "none"
told == [j \in Jobs |-> Told(j)]

(* What the caller knows is true: a DeliverTxResponse reports the execution   *)
(* of this very transaction, and a transaction that was refused with a       *)
(* BroadcastTxError is never executed, even when answers are late or lost.   *)
Reports == INSTANCE TxReports WITH report <- told
ImplementsTxReports == Reports!Spec

(* A call is refused for its sequence only if it overlapped with another      *)
(* transaction of its signer: a caller who waits for the end of a call, and   *)
(* after an error for the fate of its transaction, is never refused.          *)
AloneIsAccepted == \A j \in Jobs : stage[j] = "refused" => j \in crowded

(* Every call settles, even when its transaction is lost after it was         *)
(* accepted, the node restarts or the chain stands still.                     *)
EveryCallSettles == \A j \in Jobs : (stage[j] # "idle") ~> (stage[j] \in Final)
=============================================================================
