------------------------------ MODULE RpcCalls ------------------------------
(* What every RPC client of tendermint-rpc promises its caller: execute()    *)
(* returns a promise that settles at most once, and if it settles with what  *)
(* the server said, then with what the server said about that very call.     *)
CONSTANTS
  Calls,     \* the calls of execute() that may be made
  Nobody     \* stands for "no call"; not a call

VARIABLES
  outcome,    \* the state of each call's promise
  answerOf    \* the call that the answer which settled a promise was about

vars == <<outcome, answerOf>>

Settled == {"resolved", "rejected"}

Init ==
  /\ outcome  = [c \in Calls |-> "idle"]
  /\ answerOf = [c \in Calls |-> Nobody]

Issue(c) ==
  /\ outcome[c] = "idle"
  /\ outcome' = [outcome EXCEPT ![c] = "pending"]
  /\ UNCHANGED answerOf

\* A client that was disconnected throws at once.
Refuse(c) ==
  /\ outcome[c] = "idle"
  /\ outcome' = [outcome EXCEPT ![c] = "rejected"]
  /\ UNCHANGED answerOf

\* One message from the network settles any number of pending calls.
Settle ==
  /\ outcome' \in [Calls -> {"idle", "pending"} \cup Settled]
  /\ answerOf' \in [Calls -> Calls \cup {Nobody}]
  /\ \A c \in Calls :
       \/ outcome'[c] = outcome[c] /\ answerOf'[c] = answerOf[c]
       \/ /\ outcome[c] = "pending" /\ outcome'[c] \in Settled
          /\ answerOf'[c] \in {c, Nobody}

Next == Settle \/ \E c \in Calls : Issue(c) \/ Refuse(c)

Spec == Init /\ [][Next]_vars
=============================================================================
