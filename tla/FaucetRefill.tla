---------------------------- MODULE FaucetRefill ----------------------------
(* Faucet.refill (packages/faucet/src/faucet.ts), which start() runs once    *)
(* and then every minute, whether or not the last run is over, while the     *)
(* distributors pay credits.  One token; balances count credit amounts.      *)
EXTENDS Naturals, FiniteSets

CONSTANTS
  Distributors,      \* the distributor accounts
  Runs,              \* bound: runs of refill that may overlap
  refillThreshold, refillAmount,
  Funds,             \* bound: what the holder has at first
  MaxFaults          \* bound: failing requests

\* The factors are 8 and 20 by default (tokenmanager.ts), and any in the
\* environment.
ASSUME AmountsAssumption ==
  /\ refillThreshold \in Nat /\ refillAmount \in Nat \ {0} /\ Funds \in Nat /\ MaxFaults \in Nat

VARIABLES
  stage,      \* of each run: idle, loading, jobs (between two sends) or sending
  toLoad,     \* distributors whose balance the run has asked for
  jobs,       \* distributors that the run has found below the threshold
  current,    \* distributors that the run's transaction in progress pays, at most one
  tx,         \* that transaction: none, pending, ok or failed
  booted,     \* the first run is over and the interval is set
  ended,      \* the process ended
  holder, balance,
  late,       \* transactions that no run awaits any more, for each distributor
  raced,      \* history: distributors found low while another refill was on its way
  faults

runs == <<stage, toLoad, jobs, current, tx>>
process == <<booted, ended>>
chain == <<holder, balance, late>>
vars == <<runs, process, chain, raced, faults>>

Init ==
  /\ stage = [p \in Runs |-> "idle"]
  /\ toLoad = [p \in Runs |-> {}] /\ jobs = [p \in Runs |-> {}]
  /\ current = [p \in Runs |-> {}] /\ tx = [p \in Runs |-> "none"]
  /\ booted = FALSE /\ ended = FALSE
  /\ holder = Funds /\ balance = [d \in Distributors |-> 0]
  /\ late = [d \in Distributors |-> 0]
  /\ raced = {} /\ faults = 0

Fault == faults < MaxFaults /\ faults' = faults + 1
Goto(p, s) == stage' = [stage EXCEPT ![p] = s]
Idle(p) == stage[p] = "idle"
-----------------------------------------------------------------------------
\* All balances are asked for at once.
Refill(p) ==
  /\ Idle(p) /\ ~ended
  /\ booted \/ \A q \in Runs : Idle(q)
  /\ Goto(p, "loading")
  /\ toLoad' = [toLoad EXCEPT ![p] = Distributors]
  /\ UNCHANGED <<jobs, current, tx, process, chain, raced, faults>>

\* Faulty: at the threshold a distributor is refilled, too.
needsRefillAt(d) == balance[d] <= refillThreshold

needsRefill(d) == balance[d] < refillThreshold

\* A refill of d that has not been executed: a job, or a transaction.
Underway(d) ==
  \/ late[d] > 0
  \/ \E q \in Runs : d \in jobs[q] \/ (d \in current[q] /\ tx[q] = "pending")

\* One balance arrives.
LoadAccount(p, d) ==
  /\ stage[p] = "loading" /\ ~ended /\ d \in toLoad[p]
  /\ toLoad' = [toLoad EXCEPT ![p] = @ \ {d}]
  /\ jobs' = IF needsRefill(d) THEN [jobs EXCEPT ![p] = @ \cup {d}] ELSE jobs
  /\ raced' = IF needsRefill(d) /\ Underway(d) THEN raced \cup {d} ELSE raced
  /\ UNCHANGED <<stage, current, tx, process, chain, faults>>

\* Faulty: nothing is sent if the holder would be left with nothing.
LoadTokensKeepsRest(p) ==
  /\ stage[p] = "loading" /\ ~ended /\ toLoad[p] = {}
  /\ Goto(p, "jobs")
  /\ jobs' = IF holder <= refillAmount THEN [jobs EXCEPT ![p] = {}] ELSE jobs
  /\ UNCHANGED <<toLoad, current, tx, process, chain, raced, faults>>

\* availableTokens(): nothing is sent if the holder has nothing.
LoadTokens(p) ==
  /\ stage[p] = "loading" /\ ~ended /\ toLoad[p] = {}
  /\ Goto(p, "jobs")
  /\ jobs' = IF holder = 0 THEN [jobs EXCEPT ![p] = {}] ELSE jobs
  /\ UNCHANGED <<toLoad, current, tx, process, chain, raced, faults>>

\* Another transaction of the holder waits in the mempool: one with the same
\* sequence is refused.
SequenceTaken ==
  (\E q \in Runs : tx[q] = "pending") \/ (\E d \in Distributors : late[d] > 0)

\* send() of the next job; a refusal is logged and the run goes on.
Send(p, d) ==
  /\ stage[p] = "jobs" /\ ~ended /\ d \in jobs[p]
  /\ jobs' = [jobs EXCEPT ![p] = @ \ {d}]
  /\ \/ /\ Goto(p, "sending")
        /\ current' = [current EXCEPT ![p] = {d}]
        /\ tx' = [tx EXCEPT ![p] = "pending"]
        /\ UNCHANGED faults
     \/ SequenceTaken /\ UNCHANGED <<stage, current, tx, faults>>
     \/ Fault /\ UNCHANGED <<stage, current, tx>>
  /\ UNCHANGED <<toLoad, process, chain, raced>>

Forget(p) ==
  /\ Goto(p, "jobs")
  /\ current' = [current EXCEPT ![p] = {}]
  /\ tx' = [tx EXCEPT ![p] = "none"]

\* sendTokens has answered; a failed transaction is logged.
Sent(p) ==
  /\ stage[p] = "sending" /\ ~ended /\ tx[p] \in {"ok", "failed"}
  /\ Forget(p)
  /\ UNCHANGED <<toLoad, jobs, process, chain, raced, faults>>

\* It timed out, or a request failed: the transaction is executed later, if at all.
Unknown(p) ==
  /\ stage[p] = "sending" /\ ~ended /\ Fault
  /\ \/ UNCHANGED late
     \/ tx[p] = "pending" /\ \E d \in current[p] : late' = [late EXCEPT ![d] = @ + 1]
  /\ Forget(p)
  /\ UNCHANGED <<toLoad, jobs, process, holder, balance, raced>>

Done(p) ==
  /\ stage[p] = "jobs" /\ ~ended /\ jobs[p] = {}
  /\ Goto(p, "idle")
  /\ booted' = TRUE
  /\ UNCHANGED <<toLoad, jobs, current, tx, ended, chain, raced, faults>>

\* A balance or the tokens cannot be read: refill() rejects, and neither
\* start() nor the interval handles that.
QueryFails(p) ==
  /\ stage[p] = "loading" /\ ~ended /\ Fault
  /\ ended' = TRUE
  /\ UNCHANGED <<runs, booted, chain, raced>>
-----------------------------------------------------------------------------
(* The chain.                                                                *)

Pay(d) ==
  /\ holder' = holder - refillAmount
  /\ balance' = [balance EXCEPT ![d] = @ + refillAmount]

Execute(p) ==
  /\ tx[p] = "pending"
  /\ \/ /\ holder >= refillAmount
        /\ \E d \in current[p] : Pay(d)
        /\ tx' = [tx EXCEPT ![p] = "ok"]
     \/ /\ holder < refillAmount
        /\ tx' = [tx EXCEPT ![p] = "failed"]
        /\ UNCHANGED <<holder, balance>>
  /\ UNCHANGED <<stage, toLoad, jobs, current, process, late, raced, faults>>

ExecuteLate(d) ==
  /\ late[d] > 0
  /\ late' = [late EXCEPT ![d] = @ - 1]
  /\ \/ holder >= refillAmount /\ Pay(d)
     \/ holder < refillAmount /\ UNCHANGED <<holder, balance>>
  /\ UNCHANGED <<runs, process, raced, faults>>

\* A credit (module Faucet).
Credit(d) ==
  /\ ~ended /\ balance[d] > 0
  /\ balance' = [balance EXCEPT ![d] = @ - 1]
  /\ UNCHANGED <<runs, process, holder, late, raced, faults>>

Work(p) ==
  \/ Refill(p) \/ LoadTokens(p) \/ Sent(p) \/ Unknown(p) \/ Done(p) \/ Execute(p) \/ QueryFails(p)
  \/ \E d \in Distributors : LoadAccount(p, d) \/ Send(p, d)

Next ==
  \/ \E p \in Runs : Work(p)
  \/ \E d \in Distributors : ExecuteLate(d) \/ Credit(d)

Spec == Init /\ [][Next]_vars

(* The interval fires, queries are answered, and the chain makes blocks.     *)
FairSpec ==
  /\ Spec
  /\ \A p \in Runs : WF_vars(Work(p))
  /\ \A d \in Distributors : WF_vars(ExecuteLate(d))
-----------------------------------------------------------------------------
(* Type invariant.                                                           *)
TypeOK ==
  /\ stage \in [Runs -> {"idle", "loading", "jobs", "sending"}]
  /\ toLoad \in [Runs -> SUBSET Distributors] /\ jobs \in [Runs -> SUBSET Distributors]
  /\ current \in [Runs -> SUBSET Distributors]
  /\ tx \in [Runs -> {"none", "pending", "ok", "failed"}]
  /\ booted \in BOOLEAN /\ ended \in BOOLEAN
  /\ holder \in Nat /\ balance \in [Distributors -> Nat] /\ late \in [Distributors -> Nat]
  /\ raced \subseteq Distributors /\ faults \in Nat

(* No distributor is refilled beyond its need: one that reaches the          *)
(* threshold plus a refill was found low while another refill for it was on  *)
(* its way, in an overlapping run or in a transaction that was given up.     *)
OverfilledOnlyByOverlap ==
  \A d \in Distributors : balance[d] >= refillThreshold + refillAmount => d \in raced

(* A distributor below its threshold is refilled, through refusals, lost     *)
(* answers and overlapping runs, as long as the holder can pay and no query  *)
(* has ended the process.                                                    *)
Low(d) == balance[d] < refillThreshold
LowIsRefilled == \A d \in Distributors : Low(d) ~> (~Low(d) \/ holder < refillAmount \/ ended)
=============================================================================
