--------------------------- MODULE TxClient_proofs ---------------------------
(* Proofs about TxClient, for any number of calls, accounts and faults.       *)
EXTENDS TxClient, SequenceTheorems, FiniteSetTheorems, TLAPS

(* Where the transaction of a call is, and what its caller has seen of it.    *)
(* What makes it inductive: a refusal is the end of the only submission, and  *)
(* a transaction enters the mempool from transit only.                        *)
Fate ==
  /\ \A j \in transit :
       executed[j] = "none" /\ j \notin InMempool /\ stage[j] \in {"submitting", "error"}
  /\ \A j \in InMempool : executed[j] = "none" /\ stage[j] \in {"polling", "timedOut", "error"}
  /\ \A j \in Jobs : stage[j] = "submitting" => j \in transit
  /\ \A j \in Jobs :
       executed[j] # "none" => stage[j] \in {"polling", "timedOut", "error", "delivered"}
  /\ \A j \in Jobs : stage[j] = "delivered" => executed[j] # "none"
  /\ \A i, k \in DOMAIN mempool : mempool[i] = mempool[k] => i = k

IInv == TypeOK /\ Fate

LEMMA InitInv == Init => IInv
<1> SUFFICES ASSUME Init PROVE IInv
  OBVIOUS
<1>1. <<>> \in Seq(Jobs) /\ DOMAIN mempool = {} /\ InMempool = {}
  BY EmptySeq DEF Init, InMempool
<1>2. TypeOK
  BY <1>1, JobsAssumption DEF Init, TypeOK, Stages, Final
<1>3. Fate
  BY <1>1 DEF Init, Fate
<1> QED  BY <1>2, <1>3 DEF IInv

\* The mempool after a transaction is added at its end.
LEMMA AddToMempool ==
  ASSUME mempool \in Seq(Jobs), NEW j \in Jobs, j \notin InMempool,
         \A i, k \in DOMAIN mempool : mempool[i] = mempool[k] => i = k,
         mempool' = Append(mempool, j)
  PROVE  /\ mempool' \in Seq(Jobs) /\ InMempool' = InMempool \cup {j}
         /\ \A i, k \in DOMAIN mempool' : mempool'[i] = mempool'[k] => i = k
<1>1. /\ mempool' \in Seq(Jobs) /\ Len(mempool') = Len(mempool) + 1
      /\ \A i \in 1..Len(mempool) : mempool'[i] = mempool[i]
      /\ mempool'[Len(mempool) + 1] = j
  BY AppendProperties
<1>2. /\ DOMAIN mempool = 1..Len(mempool) /\ Len(mempool) \in Nat
      /\ DOMAIN mempool' = 1..(Len(mempool) + 1)
  BY <1>1, LenProperties
<1>3. InMempool' = InMempool \cup {j}
  BY <1>1, <1>2 DEF InMempool
<1> QED  BY <1>1, <1>2, <1>3 DEF InMempool

\* The mempool after its first transaction is executed.
LEMMA TakeFromMempool ==
  ASSUME mempool \in Seq(Jobs), mempool # <<>>,
         \A i, k \in DOMAIN mempool : mempool[i] = mempool[k] => i = k,
         mempool' = Tail(mempool)
  PROVE  /\ mempool' \in Seq(Jobs)
         /\ Head(mempool) \in InMempool /\ InMempool' = InMempool \ {Head(mempool)}
         /\ \A i, k \in DOMAIN mempool' : mempool'[i] = mempool'[k] => i = k
<1>1. /\ mempool' \in Seq(Jobs) /\ Len(mempool') = Len(mempool) - 1
      /\ \A i \in 1..Len(mempool') : mempool'[i] = mempool[i + 1]
      /\ Head(mempool) = mempool[1]
  BY HeadTailProperties
<1>2. /\ DOMAIN mempool = 1..Len(mempool) /\ Len(mempool) \in Nat \ {0}
      /\ DOMAIN mempool' = 1..(Len(mempool) - 1)
  BY <1>1, LenProperties, EmptySeq
<1>3. Head(mempool) \in InMempool
  BY <1>1, <1>2 DEF InMempool
<1>4. ASSUME NEW i \in 1..Len(mempool), i # 1
      PROVE  i - 1 \in DOMAIN mempool' /\ mempool'[i - 1] = mempool[i]
  <2>1. i - 1 \in 1..Len(mempool') /\ (i - 1) + 1 = i
    BY <1>1, <1>2, <1>4
  <2> QED  BY <2>1, <1>1, <1>2
<1>5. InMempool' \subseteq InMempool \ {Head(mempool)}
  <2> SUFFICES ASSUME NEW i \in DOMAIN mempool'
               PROVE  mempool'[i] \in InMempool \ {Head(mempool)}
    BY DEF InMempool
  <2>1. i + 1 \in DOMAIN mempool /\ i + 1 # 1 /\ 1 \in DOMAIN mempool
    BY <1>2
  <2>2. mempool'[i] = mempool[i + 1]
    BY <1>1, <1>2
  <2> QED  BY <2>1, <2>2, <1>1 DEF InMempool
<1>6. InMempool \ {Head(mempool)} \subseteq InMempool'
  <2> SUFFICES ASSUME NEW i \in 1..Len(mempool), mempool[i] # Head(mempool)
               PROVE  mempool[i] \in InMempool'
    BY <1>2 DEF InMempool
  <2>1. i # 1
    BY <1>1
  <2> QED  BY <2>1, <1>4 DEF InMempool
<1>7. \A i, k \in DOMAIN mempool' : mempool'[i] = mempool'[k] => i = k
  BY <1>1, <1>2
<1> QED  BY <1>1, <1>3, <1>5, <1>6, <1>7

LEMMA TypeStep == TypeOK /\ [Next]_vars => TypeOK'
<1> SUFFICES ASSUME TypeOK, [Next]_vars PROVE TypeOK'
  OBVIOUS
<1> USE DEF TypeOK
<1>1. ASSUME NEW j \in Jobs, NEW a \in Accounts, SignAndBroadcast(j, a)
      PROVE  TypeOK'
  BY <1>1 DEF SignAndBroadcast, Begins, Goto, nodeVars, Stages, Busy
<1>2. ASSUME NEW j \in Jobs, Sign(j) \/ Timeout(j) \/ GetTx(j)
      PROVE  TypeOK'
  BY <1>2 DEF Sign, Timeout, GetTx, PollForTx, Goto, nodeVars, Stages, Final
<1>3. ASSUME NEW j \in Jobs, RequestFails(j) \/ Lose(j)
      PROVE  TypeOK'
  BY <1>3, JobsAssumption DEF RequestFails, Lose, Fault, Goto, nodeVars, Stages, Final
<1>4. ASSUME NEW j \in Jobs, CheckTx(j)
      PROVE  TypeOK'
  <2>1. Append(mempool, j) \in Seq(Jobs)
    BY AppendProperties
  <2>2. stage' \in [Jobs -> Stages] /\ \A k \in Jobs : stage'[k] # "idle" => stage[k] # "idle"
    BY <1>4 DEF CheckTx, PollForTx, Goto, Stages, Final
  <2> QED  BY <1>4, <2>1, <2>2 DEF CheckTx
<1>5. CASE Execute
  <2>1. Head(mempool) \in Jobs /\ Tail(mempool) \in Seq(Jobs)
    BY <1>5, HeadTailProperties DEF Execute
  <2>2. executed' \in [Jobs -> {"none", "ok", "failed"}]
    BY <1>5, <2>1 DEF Execute
  <2>3. chainSequence' \in [Accounts -> Nat]
    <3> DEFINE a == signer[Head(mempool)]
    <3>1. chainSequence' = [chainSequence EXCEPT ![a] = chainSequence[a] + 1]
      BY <1>5 DEF Execute
    <3> HIDE DEF a
    <3>2. a \in Accounts => chainSequence[a] + 1 \in Nat
      OBVIOUS
    <3> QED  BY <3>1, <3>2
  <2> QED  BY <1>5, <2>1, <2>2, <2>3 DEF Execute
<1>6. CASE NodeRestarts
  BY <1>6, EmptySeq, JobsAssumption DEF NodeRestarts, Fault
<1>7. CASE UNCHANGED vars
  BY <1>7 DEF vars, nodeVars
<1> QED  BY <1>1, <1>2, <1>3, <1>4, <1>5, <1>6, <1>7 DEF Next, Client, Node

\* The steps of the client and the loss of a message leave the node alone.
LEMMA ClientKeepsFate ==
  ASSUME IInv, NEW j \in Jobs, UNCHANGED <<mempool, executed>>,
         \/ \E a \in Accounts : SignAndBroadcast(j, a)
         \/ Sign(j) \/ RequestFails(j) \/ Timeout(j) \/ GetTx(j) \/ Lose(j)
  PROVE  Fate'
<1>1. InMempool' = InMempool
  BY DEF InMempool
<1> USE <1>1 DEF IInv, TypeOK, Fate, Goto
<1>2. CASE \E a \in Accounts : SignAndBroadcast(j, a)
  BY <1>2 DEF SignAndBroadcast, Begins
<1>3. CASE Sign(j)
  BY <1>3 DEF Sign
<1>4. CASE RequestFails(j)
  BY <1>4 DEF RequestFails
<1>5. CASE Timeout(j)
  BY <1>5 DEF Timeout
<1>6. CASE GetTx(j)
  BY <1>6 DEF GetTx, PollForTx
<1>7. CASE Lose(j)
  <2>1. /\ transit' = transit \ {j}
        /\ \A k \in Jobs : stage'[k] = stage[k] \/ (k = j /\ stage'[k] = "error")
        /\ stage'[j] # "submitting"
    BY <1>7 DEF Lose
  <2>2. j \in transit
    BY <1>7 DEF Lose
  <2>3. transit \subseteq Jobs /\ InMempool \subseteq Jobs
    BY ElementOfSeq, LenProperties DEF InMempool
  <2> QED  BY <2>1, <2>2, <2>3
<1> QED  BY <1>2, <1>3, <1>4, <1>5, <1>6, <1>7

LEMMA CheckTxKeepsFate ==
  ASSUME IInv, NEW j \in Jobs, CheckTx(j)
  PROVE  Fate'
<1> USE DEF IInv, TypeOK, Fate
<1>1. /\ j \in transit /\ transit' = transit \ {j} /\ executed' = executed
      /\ \A k \in Jobs \ {j} : stage'[k] = stage[k]
      /\ stage[j] \in {"submitting", "error"} /\ executed[j] = "none" /\ j \notin InMempool
  BY DEF CheckTx, Goto
<1>2. transit \subseteq Jobs /\ InMempool \subseteq Jobs
  BY ElementOfSeq, LenProperties DEF InMempool
<1>3. CASE mempool' = Append(mempool, j)
           /\ stage'[j] \in {"polling", "timedOut", "error"}
  <2>1. InMempool' = InMempool \cup {j}
        /\ \A i, k \in DOMAIN mempool' : mempool'[i] = mempool'[k] => i = k
    BY <1>1, <1>3, AddToMempool
  <2> QED  BY <1>1, <1>2, <1>3, <2>1
<1>4. CASE mempool' = mempool /\ stage'[j] \in {"refused", "error"}
  <2>1. InMempool' = InMempool
    BY <1>4 DEF InMempool
  <2> QED  BY <1>1, <1>2, <1>4, <2>1
<1> QED  BY <1>1, <1>3, <1>4 DEF CheckTx, PollForTx, Goto

LEMMA ExecuteKeepsFate ==
  ASSUME IInv, Execute
  PROVE  Fate'
<1> USE DEF IInv, TypeOK, Fate
<1> DEFINE j == Head(mempool)
<1>1. /\ j \in InMempool /\ InMempool' = InMempool \ {j}
      /\ \A i, k \in DOMAIN mempool' : mempool'[i] = mempool'[k] => i = k
  BY TakeFromMempool DEF Execute
<1>2. InMempool \subseteq Jobs
  BY ElementOfSeq, LenProperties DEF InMempool
<1>3. /\ transit' = transit /\ stage' = stage
      /\ executed'[j] # "none" /\ \A k \in Jobs \ {j} : executed'[k] = executed[k]
  BY <1>1, <1>2 DEF Execute
<1> QED  BY <1>1, <1>2, <1>3

LEMMA RestartKeepsFate ==
  ASSUME IInv, NodeRestarts
  PROVE  Fate'
<1>1. DOMAIN mempool' = {} /\ InMempool' = {}
  BY EmptySeq DEF NodeRestarts, InMempool
<1> QED  BY <1>1 DEF NodeRestarts, IInv, Fate

LEMMA StepInv == IInv /\ [Next]_vars => IInv'
<1> SUFFICES ASSUME IInv, [Next]_vars PROVE Fate'
  BY TypeStep DEF IInv
<1>1. ASSUME NEW j \in Jobs, \/ \E a \in Accounts : SignAndBroadcast(j, a)
                             \/ Sign(j) \/ RequestFails(j) \/ Timeout(j) \/ GetTx(j) \/ Lose(j)
      PROVE  Fate'
  <2>1. UNCHANGED <<mempool, executed>>
    BY <1>1 DEF SignAndBroadcast, Begins, Sign, RequestFails, Timeout, GetTx, Lose, nodeVars
  <2> QED  BY <1>1, <2>1, ClientKeepsFate
<1>2. ASSUME NEW j \in Jobs, CheckTx(j) PROVE Fate'
  BY <1>2, CheckTxKeepsFate
<1>3. CASE Execute
  BY <1>3, ExecuteKeepsFate
<1>4. CASE NodeRestarts
  BY <1>4, RestartKeepsFate
<1>5. CASE UNCHANGED vars
  BY <1>5 DEF vars, nodeVars, IInv, Fate, InMempool
<1> QED  BY <1>1, <1>2, <1>3, <1>4, <1>5 DEF Next, Client, Node

LEMMA Invariance == Spec => []IInv
BY InitInv, StepInv, PTL DEF Spec

(* Every state of every behaviour is well typed.                              *)
THEOREM TypeCorrect == Spec => []TypeOK
<1>1. IInv => TypeOK
  BY DEF IInv
<1> QED  BY <1>1, Invariance, PTL
-----------------------------------------------------------------------------
(* Every behaviour of the client and the node is one that the abstract         *)
(* promise allows: a step tells one caller something true, executes one       *)
(* transaction, or is not visible.                                            *)

\* Nothing is told and nothing executed.
LEMMA Silent ==
  ASSUME executed' = executed, \A k \in Jobs : Told(k)' = Told(k)
  PROVE  [Reports!Next]_Reports!vars
BY DEF told, Reports!vars

\* One caller is told something.
LEMMA Tells ==
  ASSUME IInv, executed' = executed, NEW j \in Jobs,
         \A k \in Jobs \ {j} : Told(k)' = Told(k),
         Told(j) = "none",
         \/ Told(j)' = "unknown"
         \/ Told(j)' = "refused" /\ executed[j] = "none"
         \/ Told(j)' = executed[j] /\ executed[j] # "none"
  PROVE  [Reports!Next]_Reports!vars
<1>1. told[j] = "none" /\ told' = [told EXCEPT ![j] = Told(j)']
  BY DEF told
<1>2. CASE Told(j)' = "unknown"
  <2>1. Reports!TellUnknown(j)
    BY <1>1, <1>2 DEF Reports!TellUnknown, Reports!Tell
  <2> QED  BY <2>1 DEF Reports!Next
<1>3. CASE Told(j)' = "refused" /\ executed[j] = "none"
  <2>1. Reports!TellRefused(j)
    BY <1>1, <1>3 DEF Reports!TellRefused, Reports!Tell
  <2> QED  BY <2>1 DEF Reports!Next
<1>4. CASE Told(j)' = executed[j] /\ executed[j] # "none"
  <2>1. Reports!TellDelivered(j)
    BY <1>1, <1>4 DEF Reports!TellDelivered, Reports!Tell
  <2> QED  BY <2>1 DEF Reports!Next
<1> QED  BY <1>2, <1>3, <1>4

LEMMA ClientStepMaps ==
  ASSUME IInv, NEW j \in Jobs,
         \/ \E a \in Accounts : SignAndBroadcast(j, a)
         \/ Sign(j) \/ RequestFails(j) \/ Timeout(j) \/ GetTx(j) \/ Lose(j)
  PROVE  [Reports!Next]_Reports!vars
<1> USE DEF IInv, TypeOK, Told, Final
<1>1. CASE (\E a \in Accounts : SignAndBroadcast(j, a)) \/ Sign(j) \/ Timeout(j)
  <2>1. executed' = executed /\ \A k \in Jobs : Told(k)' = Told(k)
    BY <1>1 DEF SignAndBroadcast, Begins, Sign, Timeout, Goto, nodeVars
  <2> QED  BY <2>1, Silent
<1>2. CASE RequestFails(j)
  <2>1. /\ executed' = executed /\ \A k \in Jobs \ {j} : Told(k)' = Told(k)
        /\ Told(j) = "none" /\ Told(j)' = "unknown"
    BY <1>2 DEF RequestFails, Goto, nodeVars
  <2> QED  BY <2>1, Tells
<1>3. CASE Lose(j)
  <2>1. executed' = executed /\ \A k \in Jobs \ {j} : Told(k)' = Told(k)
    BY <1>3 DEF Lose, Goto, nodeVars
  <2>2. CASE stage[j] = "submitting"
    <3>1. Told(j) = "none" /\ Told(j)' = "unknown"
      BY <1>3, <2>2 DEF Lose, Goto
    <3> QED  BY <2>1, <3>1, Tells
  <2>3. CASE stage[j] # "submitting"
    <3>1. Told(j)' = Told(j)
      BY <1>3, <2>3, <2>1 DEF Lose
    <3> QED  BY <2>1, <3>1, Silent
  <2> QED  BY <2>2, <2>3
<1>4. CASE GetTx(j)
  <2>1. /\ executed' = executed /\ \A k \in Jobs \ {j} : Told(k)' = Told(k)
        /\ Told(j) = "none"
    BY <1>4 DEF GetTx, Goto, nodeVars
  <2>2. CASE executed[j] # "none"
    <3>1. Told(j)' = executed[j]
      BY <1>4, <2>1, <2>2 DEF GetTx, Goto
    <3> QED  BY <2>1, <2>2, <3>1, Tells
  <2>3. CASE executed[j] = "none" /\ timedOut[j]
    <3>1. Told(j)' = "unknown"
      BY <1>4, <2>3 DEF GetTx, Goto, PollForTx
    <3> QED  BY <2>1, <3>1, Tells
  <2>4. CASE executed[j] = "none" /\ ~timedOut[j]
    <3>1. Told(j)' = "none"
      BY <1>4, <2>4 DEF GetTx, Goto, PollForTx
    <3> QED  BY <2>1, <3>1, Silent
  <2> QED  BY <2>2, <2>3, <2>4
<1> QED  BY <1>1, <1>2, <1>3, <1>4

LEMMA CheckTxMaps ==
  ASSUME IInv, NEW j \in Jobs, CheckTx(j)
  PROVE  [Reports!Next]_Reports!vars
<1> USE DEF IInv, TypeOK, Told, Final
<1>1. executed' = executed /\ \A k \in Jobs \ {j} : Told(k)' = Told(k)
  BY DEF CheckTx, Goto
<1>2. j \in transit /\ executed[j] = "none"
  BY DEF CheckTx, Fate
<1>3. CASE stage[j] # "submitting"
  <2>1. Told(j)' = Told(j)
    BY <1>1, <1>3 DEF CheckTx
  <2> QED  BY <1>1, <2>1, Silent
<1>4. CASE stage[j] = "submitting" /\ stage'[j] \in {"timedOut", "refused"}
  <2>1. Told(j) = "none" /\ Told(j)' \in {"unknown", "refused"}
    BY <1>4
  <2> QED  BY <1>1, <1>2, <2>1, Tells
<1>5. CASE stage[j] = "submitting" /\ stage'[j] = "polling"
  <2>1. Told(j)' = Told(j)
    BY <1>5
  <2> QED  BY <1>1, <2>1, Silent
<1>6. stage[j] = "submitting" => stage'[j] \in {"timedOut", "polling", "refused"}
  BY DEF CheckTx, PollForTx, Goto
<1> QED  BY <1>3, <1>4, <1>5, <1>6

LEMMA ExecuteMaps ==
  ASSUME IInv, Execute
  PROVE  [Reports!Next]_Reports!vars
<1> DEFINE j == Head(mempool)
<1>1. j \in InMempool /\ j \in Jobs
  <2>1. j \in InMempool
    BY TakeFromMempool DEF Execute, IInv, TypeOK, Fate
  <2>2. InMempool \subseteq Jobs
    BY ElementOfSeq, LenProperties DEF InMempool, IInv, TypeOK
  <2> QED  BY <2>1, <2>2
<1>2. executed[j] = "none" /\ stage[j] \in {"polling", "timedOut", "error"}
  BY <1>1 DEF IInv, Fate
<1>3. \E code \in {"ok", "failed"} : executed' = [executed EXCEPT ![j] = code]
  BY DEF Execute
<1>4. stage' = stage
  BY DEF Execute
<1>5. \A k \in Jobs : Told(k)' = Told(k)
  BY <1>1, <1>2, <1>3, <1>4 DEF Told, Final, IInv, TypeOK
<1>6. told' = told /\ told[j] # "refused"
  BY <1>1, <1>2, <1>5 DEF told, Told, Final
<1>7. Reports!Execute(j)
  BY <1>2, <1>3, <1>6 DEF Reports!Execute
<1> QED  BY <1>1, <1>7 DEF Reports!Next

LEMMA StepMaps == IInv /\ [Next]_vars => [Reports!Next]_Reports!vars
<1> SUFFICES ASSUME IInv, [Next]_vars PROVE [Reports!Next]_Reports!vars
  OBVIOUS
<1>1. CASE NodeRestarts \/ UNCHANGED vars
  <2>1. stage' = stage /\ executed' = executed
    BY <1>1 DEF NodeRestarts, vars, nodeVars
  <2> QED  BY <2>1, Silent DEF Told
<1> QED  BY <1>1, ClientStepMaps, CheckTxMaps, ExecuteMaps DEF Next, Client, Node

(* A DeliverTxResponse reports the execution of this very transaction, and a  *)
(* transaction refused with a BroadcastTxError is never executed.             *)
THEOREM Refinement == Spec => ImplementsTxReports
<1>1. Init => Reports!Init
  BY DEF Init, Reports!Init, told, Told, Final
<1> QED  BY <1>1, Invariance, StepMaps, PTL DEF Spec, ImplementsTxReports, Reports!Spec
-----------------------------------------------------------------------------
(* A call that overlaps with no other transaction of its signer signs the     *)
(* sequence that the node expects.                                            *)

\* The call, or its transaction, is not over.
Pending(k) == stage[k] \notin Final \/ k \in transit \cup InMempool

(* Two pending calls of one signer are both crowded, so while a call that is  *)
(* not waits for CheckTx nothing can change the sequence that it has read.    *)
Crowding ==
  /\ \A j \in Jobs : stage[j] = "idle" => signer[j] = NoAccount
  /\ \A j, k \in Jobs :
       j # k /\ signer[j] = signer[k] /\ signer[j] \in Accounts /\ Pending(j) /\ Pending(k)
       => j \in crowded
  /\ \A j \in Jobs :
       (stage[j] = "signing" \/ j \in transit) /\ j \notin crowded
       => sequence[j] = chainSequence[signer[j]]
  /\ AloneIsAccepted

LEMMA MempoolOfJobs == TypeOK => InMempool \subseteq Jobs
BY ElementOfSeq, LenProperties DEF InMempool, TypeOK

\* A step that makes no call pending and changes no sequence.
LEMMA LessPending ==
  ASSUME IInv, Crowding, UNCHANGED <<signer, sequence, chainSequence, crowded>>,
         \A k \in Jobs : Pending(k)' => Pending(k),
         \A k \in Jobs : stage'[k] = "idle" => stage[k] = "idle",
         \A k \in Jobs : (stage'[k] = "signing" \/ k \in transit') => stage[k] = "signing" \/ k \in transit,
         \A k \in Jobs : stage'[k] = "refused" => stage[k] = "refused" \/ k \in crowded
  PROVE  Crowding'
BY DEF Crowding, AloneIsAccepted

LEMMA BeginsKeepsCrowding ==
  ASSUME IInv, Crowding, NEW j \in Jobs, NEW a \in Accounts, SignAndBroadcast(j, a)
  PROVE  Crowding'
<1> USE DEF IInv, TypeOK
<1>1. /\ stage[j] = "idle" /\ stage'[j] = "signing" /\ signer'[j] = a /\ sequence'[j] = chainSequence[a]
      /\ \A k \in Jobs \ {j} : stage'[k] = stage[k] /\ signer'[k] = signer[k] /\ sequence'[k] = sequence[k]
      /\ UNCHANGED <<transit, mempool, chainSequence>> /\ InMempool' = InMempool
      /\ crowded' = crowded \cup (IF Busy(a) = {} THEN {} ELSE Busy(a) \cup {j})
  BY DEF SignAndBroadcast, Begins, Goto, nodeVars, InMempool
<1>2. \A k \in Jobs \ {j} : Pending(k)' <=> Pending(k)
  BY <1>1 DEF Pending
<1>3. \A k \in Jobs : k \in Busy(a) <=> signer[k] = a /\ Pending(k)
  BY DEF Busy, Pending
<1>4. signer[j] = NoAccount /\ j \notin transit
  BY <1>1 DEF Crowding, Fate
<1>5. \A k \in Jobs : stage'[k] = "idle" => signer'[k] = NoAccount
  BY <1>1 DEF Crowding
<1>6. ASSUME NEW k \in Jobs, NEW l \in Jobs, k # l, signer'[k] = signer'[l], signer'[k] \in Accounts,
             Pending(k)', Pending(l)'
      PROVE  k \in crowded'
  <2>1. CASE k = j
    <3>1. l \in Busy(a)
      BY <1>1, <1>2, <1>3, <1>6, <2>1
    <3> QED  BY <1>1, <2>1, <3>1
  <2>2. CASE l = j
    <3>1. k \in Busy(a)
      BY <1>1, <1>2, <1>3, <1>6, <2>2
    <3> QED  BY <1>1, <3>1
  <2>3. CASE k # j /\ l # j
    <3>1. k \in crowded
      BY <1>1, <1>2, <1>6, <2>3 DEF Crowding
    <3> QED  BY <1>1, <3>1
  <2> QED  BY <2>1, <2>2, <2>3
<1>7. ASSUME NEW k \in Jobs, stage'[k] = "signing" \/ k \in transit', k \notin crowded'
      PROVE  sequence'[k] = chainSequence'[signer'[k]]
  BY <1>1, <1>7 DEF Crowding
<1>8. ASSUME NEW k \in Jobs, stage'[k] = "refused" PROVE k \in crowded'
  BY <1>1, <1>8 DEF Crowding, AloneIsAccepted
<1> QED  BY <1>5, <1>6, <1>7, <1>8 DEF Crowding, AloneIsAccepted

LEMMA CheckTxKeepsCrowding ==
  ASSUME IInv, Crowding, NEW j \in Jobs, CheckTx(j)
  PROVE  Crowding'
<1> USE DEF IInv
<1>1. /\ j \in transit /\ transit' = transit \ {j} /\ UNCHANGED <<signer, sequence, chainSequence, crowded>>
      /\ \A k \in Jobs \ {j} : stage'[k] = stage[k]
      /\ stage[j] \in {"submitting", "error"} /\ j \notin InMempool
  BY DEF CheckTx, Goto, TypeOK, Fate
<1>2. \A k \in Jobs \ {j} : k \in InMempool' => k \in InMempool
  <2>1. CASE mempool' = Append(mempool, j)
    BY <1>1, <2>1, AddToMempool DEF TypeOK, Fate
  <2>2. CASE mempool' = mempool
    BY <2>2 DEF InMempool
  <2> QED  BY <2>1, <2>2 DEF CheckTx
<1>3. \A k \in Jobs : Pending(k)' => Pending(k)
  BY <1>1, <1>2 DEF Pending
<1>4. ASSUME sequence[j] # CheckSequence(signer[j]) PROVE j \in crowded
  <2> SUFFICES ASSUME j \notin crowded PROVE FALSE
    OBVIOUS
  <2>1. signer[j] \in Accounts /\ sequence[j] = chainSequence[signer[j]] /\ Pending(j)
    BY <1>1 DEF Crowding, TypeOK, Pending
  <2>2. \A k \in InMempool : signer[k] # signer[j]
    BY <1>1, <2>1, MempoolOfJobs DEF Crowding, Pending
  <2>3. {k \in InMempool : signer[k] = signer[j]} = {}
    BY <2>2
  <2>4. CheckSequence(signer[j]) = chainSequence[signer[j]]
    <3>1. Cardinality({k \in InMempool : signer[k] = signer[j]}) = 0
      BY <2>3, FS_EmptySet
    <3>2. chainSequence[signer[j]] \in Nat
      BY <2>1 DEF TypeOK
    <3> QED  BY <3>1, <3>2 DEF CheckSequence
  <2> QED  BY <1>4, <2>1, <2>4
<1>5. /\ stage'[j] \notin {"idle", "signing"}
      /\ stage'[j] = "refused" => j \in crowded
  BY <1>1, <1>4 DEF CheckTx, PollForTx, Goto, TypeOK
<1> QED  BY <1>1, <1>3, <1>5, LessPending

LEMMA ExecuteKeepsCrowding ==
  ASSUME IInv, Crowding, Execute
  PROVE  Crowding'
<1> USE DEF IInv
<1> DEFINE j == Head(mempool)
<1>1. j \in InMempool /\ InMempool' = InMempool \ {j} /\ j \in Jobs
  BY TakeFromMempool, MempoolOfJobs DEF Execute, TypeOK, Fate
<1>2. /\ UNCHANGED <<stage, signer, sequence, transit, crowded>>
      /\ chainSequence' = [chainSequence EXCEPT ![signer[j]] = @ + 1]
  BY DEF Execute
<1> HIDE DEF j
<1>3. \A k \in Jobs : Pending(k)' => Pending(k)
  BY <1>1, <1>2 DEF Pending
<1>4. ASSUME NEW k \in Jobs, stage[k] = "signing" \/ k \in transit, k \notin crowded
      PROVE  sequence[k] = chainSequence'[signer[k]]
  <2>1. k # j /\ Pending(k) /\ Pending(j) /\ signer[k] \in Accounts
    BY <1>1, <1>4 DEF Fate, TypeOK, Pending, Final
  <2>2. signer[k] # signer[j]
    BY <1>1, <1>4, <2>1 DEF Crowding
  <2>3. chainSequence'[signer[k]] = chainSequence[signer[k]]
    BY <1>2, <2>1, <2>2 DEF TypeOK
  <2> QED  BY <1>4, <2>3 DEF Crowding
<1> QED  BY <1>2, <1>3, <1>4 DEF Crowding, AloneIsAccepted

LEMMA StepCrowding == IInv /\ Crowding /\ [Next]_vars => Crowding'
<1> SUFFICES ASSUME IInv, Crowding, [Next]_vars PROVE Crowding'
  OBVIOUS
<1> USE DEF IInv
<1>1. ASSUME NEW j \in Jobs, Sign(j) PROVE Crowding'
  <2>1. /\ UNCHANGED <<signer, sequence, chainSequence, crowded, mempool>> /\ InMempool' = InMempool
        /\ stage[j] = "signing" /\ stage'[j] = "submitting" /\ transit' = transit \cup {j}
        /\ \A k \in Jobs \ {j} : stage'[k] = stage[k]
    BY <1>1 DEF Sign, Goto, nodeVars, TypeOK, InMempool
  <2>2. \A k \in Jobs : Pending(k)' => Pending(k)
    BY <2>1 DEF Pending, Final
  <2> QED  BY <2>1, <2>2, LessPending
<1>2. ASSUME NEW j \in Jobs, RequestFails(j) PROVE Crowding'
  <2>1. /\ UNCHANGED <<signer, sequence, chainSequence, crowded, transit>> /\ InMempool' = InMempool
        /\ stage'[j] = "error" /\ stage[j] \in {"signing", "submitting", "polling"}
        /\ \A k \in Jobs \ {j} : stage'[k] = stage[k]
    BY <1>2 DEF RequestFails, Goto, nodeVars, TypeOK, InMempool
  <2>2. \A k \in Jobs : Pending(k)' => Pending(k)
    BY <2>1 DEF Pending, Final
  <2> QED  BY <2>1, <2>2, LessPending
<1>3. ASSUME NEW j \in Jobs, Timeout(j) PROVE Crowding'
  <2>1. UNCHANGED <<stage, signer, sequence, chainSequence, crowded, transit>> /\ InMempool' = InMempool
    BY <1>3 DEF Timeout, nodeVars, InMempool
  <2>2. \A k \in Jobs : Pending(k)' => Pending(k)
    BY <2>1 DEF Pending
  <2> QED  BY <2>1, <2>2, LessPending
<1>4. ASSUME NEW j \in Jobs, GetTx(j) PROVE Crowding'
  <2>1. /\ UNCHANGED <<signer, sequence, chainSequence, crowded, transit>> /\ InMempool' = InMempool
        /\ stage'[j] \in {"delivered", "timedOut", "polling"} /\ stage[j] = "polling"
        /\ \A k \in Jobs \ {j} : stage'[k] = stage[k]
    BY <1>4 DEF GetTx, PollForTx, Goto, nodeVars, TypeOK, InMempool
  <2>2. \A k \in Jobs : Pending(k)' => Pending(k)
    BY <2>1 DEF Pending, Final
  <2> QED  BY <2>1, <2>2, LessPending
<1>5. ASSUME NEW j \in Jobs, Lose(j) PROVE Crowding'
  <2>1. /\ UNCHANGED <<signer, sequence, chainSequence, crowded>> /\ InMempool' = InMempool
        /\ j \in transit /\ transit' = transit \ {j}
        /\ stage'[j] = stage[j] \/ stage'[j] = "error"
        /\ \A k \in Jobs \ {j} : stage'[k] = stage[k]
    BY <1>5 DEF Lose, Goto, nodeVars, TypeOK, InMempool
  <2>2. \A k \in Jobs : Pending(k)' => Pending(k)
    BY <2>1 DEF Pending, Final
  <2> QED  BY <2>1, <2>2, LessPending
<1>6. CASE NodeRestarts
  <2>1. UNCHANGED <<stage, signer, sequence, chainSequence, crowded, transit>> /\ InMempool' = {}
    BY <1>6, EmptySeq DEF NodeRestarts, InMempool
  <2>2. \A k \in Jobs : Pending(k)' => Pending(k)
    BY <2>1 DEF Pending
  <2> QED  BY <2>1, <2>2, LessPending
<1>7. CASE UNCHANGED vars
  BY <1>7 DEF vars, nodeVars, Crowding, Pending, InMempool, AloneIsAccepted
<1> QED  BY <1>1, <1>2, <1>3, <1>4, <1>5, <1>6, <1>7, BeginsKeepsCrowding, CheckTxKeepsCrowding,
            ExecuteKeepsCrowding DEF Next, Client, Node

(* A call is refused only if it overlapped with another transaction of its    *)
(* signer, however many calls run and whatever is lost.                       *)
THEOREM AloneAccepted == Spec => []AloneIsAccepted
<1>1. Init => Crowding
  BY JobsAssumption, EmptySeq DEF Init, Crowding, AloneIsAccepted
<1>2. Crowding => AloneIsAccepted
  BY DEF Crowding
<1> QED  BY <1>1, <1>2, StepCrowding, Invariance, PTL DEF Spec
=============================================================================
