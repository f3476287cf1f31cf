----------------------------- MODULE TxReports -----------------------------
(* What broadcastTx promises (packages/stargate/src/stargateclient.ts): a    *)
(* transaction is executed at most once, a DeliverTxResponse tells how, and  *)
(* after a BroadcastTxError it is not executed any more.  Any other error    *)
(* says nothing.                                                             *)
CONSTANT Jobs      \* calls that sign and broadcast one transaction each

VARIABLES
  executed,   \* what became of the transaction on the chain: none, ok or failed
  report      \* what the caller was told: none, ok, failed, refused or unknown

vars == <<executed, report>>

Init ==
  /\ executed = [j \in Jobs |-> "none"]
  /\ report = [j \in Jobs |-> "none"]

Execute(j) ==
  /\ executed[j] = "none" /\ report[j] # "refused"
  /\ \E code \in {"ok", "failed"} : executed' = [executed EXCEPT ![j] = code]
  /\ UNCHANGED report

Tell(j, r) == report[j] = "none" /\ report' = [report EXCEPT ![j] = r] /\ UNCHANGED executed

TellDelivered(j) == executed[j] # "none" /\ Tell(j, executed[j])
TellRefused(j)   == executed[j] = "none" /\ Tell(j, "refused")
TellUnknown(j)   == Tell(j, "unknown")

Next == \E j \in Jobs : Execute(j) \/ TellDelivered(j) \/ TellRefused(j) \/ TellUnknown(j)

Spec == Init /\ [][Next]_vars
=============================================================================
