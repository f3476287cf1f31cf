--------------------------- MODULE MCParts_proofs ---------------------------
(* Proofs about the parts that share no state, each for any values of its     *)
(* constants, and what they mean for a behaviour of all parts: FaucetRefill,  *)
(* LedgerSigner, StreamConcat, Pagination, Fees, Multisig, HdWallet,          *)
(* AminoSigning and WireFormats.                                              *)
EXTENDS MCParts, Decimals_proofs, FiniteSetTheorems

partsVars == <<part, vars, concat, pages, ledger, amino, fees, multisig, hd, wire>>
-----------------------------------------------------------------------------
(* FaucetRefill.                                                              *)
\* Run q will refill d, or is just doing it.
Has(q, d) == d \in jobs[q] \/ (d \in current[q] /\ tx[q] = "pending")

(* A distributor that was never raced has at most one refill underway, and    *)
(* while it has one its balance is below the threshold: it was found there,   *)
(* and only a refill can raise it.  This makes the bound on the balance       *)
(* inductive, for the refill adds refillAmount to a balance below the         *)
(* threshold.                                                                 *)
Single(d) ==
  /\ late[d] <= 1
  /\ \A q \in Runs :
       /\ Has(q, d) => late[d] = 0
       /\ ~ (d \in jobs[q] /\ d \in current[q] /\ tx[q] = "pending")
  /\ \A p, q \in Runs : Has(p, d) /\ Has(q, d) => p = q
  /\ Underway(d) => balance[d] < refillThreshold
  /\ balance[d] < refillThreshold + refillAmount

Unraced == \A d \in Distributors : d \notin raced => Single(d)

IInv == TypeOK /\ Unraced

LEMMA InitTypeOK == Init => TypeOK
<1> SUFFICES ASSUME Init PROVE TypeOK
  OBVIOUS
<1> QED  BY AmountsAssumption DEF AmountsAssumption, Init, TypeOK

LEMMA NextTypeOK == TypeOK /\ [Next]_vars => TypeOK'
<1> SUFFICES ASSUME TypeOK, [Next]_vars PROVE TypeOK'
  OBVIOUS
<1> USE AmountsAssumption DEF AmountsAssumption, TypeOK, runs, process, chain
<1>1. ASSUME NEW p \in Runs, Refill(p) PROVE TypeOK'
  BY <1>1 DEF Refill, Goto
<1>2. ASSUME NEW p \in Runs, NEW d \in Distributors, LoadAccount(p, d) PROVE TypeOK'
  BY <1>2 DEF LoadAccount
<1>3. ASSUME NEW p \in Runs, LoadTokens(p) PROVE TypeOK'
  BY <1>3 DEF LoadTokens, Goto
<1>4. ASSUME NEW p \in Runs, NEW d \in Distributors, Send(p, d) PROVE TypeOK'
  BY <1>4 DEF Send, Goto, Fault
<1>5. ASSUME NEW p \in Runs, Sent(p) PROVE TypeOK'
  BY <1>5 DEF Sent, Forget, Goto
<1>6. ASSUME NEW p \in Runs, Unknown(p) PROVE TypeOK'
  BY <1>6 DEF Unknown, Forget, Goto, Fault
<1>7. ASSUME NEW p \in Runs, Done(p) PROVE TypeOK'
  BY <1>7 DEF Done, Goto
<1>8. ASSUME NEW p \in Runs, Execute(p) PROVE TypeOK'
  BY <1>8 DEF Execute, Pay
<1>9. ASSUME NEW p \in Runs, QueryFails(p) PROVE TypeOK'
  BY <1>9 DEF QueryFails, Fault
<1>10. ASSUME NEW d \in Distributors, ExecuteLate(d) PROVE TypeOK'
  BY <1>10 DEF ExecuteLate, Pay
<1>11. ASSUME NEW d \in Distributors, Credit(d) PROVE TypeOK'
  BY <1>11 DEF Credit
<1>12. CASE UNCHANGED vars
  BY <1>12 DEF vars
<1> QED
  BY <1>1, <1>2, <1>3, <1>4, <1>5, <1>6, <1>7, <1>8, <1>9, <1>10, <1>11, <1>12 DEF Next, Work

(* Type correctness: balances of the holder and of the distributors never    *)
(* become negative, and every step of overlapping runs keeps its types.      *)
THEOREM TypeCorrect == Spec => []TypeOK
<1> QED  BY InitTypeOK, NextTypeOK, PTL DEF Spec

LEMMA InitUnraced == Init => Unraced
<1> SUFFICES ASSUME Init, NEW d \in Distributors
             PROVE  Single(d)
  BY DEF Unraced
<1> QED  BY AmountsAssumption DEF AmountsAssumption, Init, Single, Has, Underway

LEMMA NextUnraced == IInv /\ [Next]_vars => Unraced'
<1> SUFFICES ASSUME TypeOK, Unraced, [Next]_vars, NEW e \in Distributors, e \notin raced' PROVE Single(e)'
  BY DEF IInv, Unraced
<1> USE AmountsAssumption DEF AmountsAssumption, Single, Has, Underway
<1>0. Single(e) \/ e \in raced
  BY DEF Unraced
<1>1. ASSUME NEW p \in Runs, Refill(p) PROVE Single(e)'
  BY <1>0, <1>1 DEF Refill, chain, Idle, TypeOK
<1>2. ASSUME NEW p \in Runs, NEW d \in Distributors, LoadAccount(p, d) PROVE Single(e)'
  BY <1>0, <1>2 DEF LoadAccount, chain, needsRefill, TypeOK
<1>3. ASSUME NEW p \in Runs, LoadTokens(p) PROVE Single(e)'
  BY <1>0, <1>3 DEF LoadTokens, chain, TypeOK
<1>4. ASSUME NEW p \in Runs, NEW d \in Distributors, Send(p, d) PROVE Single(e)'
  BY <1>0, <1>4 DEF Send, Goto, chain, TypeOK
<1>5. ASSUME NEW p \in Runs, Sent(p) PROVE Single(e)'
  BY <1>0, <1>5 DEF Sent, Forget, chain, TypeOK
<1>6. ASSUME NEW p \in Runs, Unknown(p) PROVE Single(e)'
  BY <1>0, <1>6 DEF Unknown, Forget, TypeOK
<1>7. ASSUME NEW p \in Runs, Done(p) PROVE Single(e)'
  BY <1>0, <1>7 DEF Done, chain, TypeOK
<1>8. ASSUME NEW p \in Runs, Execute(p) PROVE Single(e)'
  BY <1>0, <1>8 DEF Execute, Pay, TypeOK
<1>9. ASSUME NEW p \in Runs, QueryFails(p) PROVE Single(e)'
  BY <1>0, <1>9 DEF QueryFails, runs, chain
<1>10. ASSUME NEW d \in Distributors, ExecuteLate(d) PROVE Single(e)'
  BY <1>0, <1>10 DEF ExecuteLate, Pay, runs, TypeOK
<1>11. ASSUME NEW d \in Distributors, Credit(d) PROVE Single(e)'
  BY <1>0, <1>11 DEF Credit, runs, TypeOK
<1>12. CASE UNCHANGED vars
  BY <1>0, <1>12 DEF vars, runs, chain
<1> QED
  BY <1>1, <1>2, <1>3, <1>4, <1>5, <1>6, <1>7, <1>8, <1>9, <1>10, <1>11, <1>12 DEF Next, Work

(* A distributor gets more than one refill beyond its threshold only if it    *)
(* was found low while another refill for it was on its way.                  *)
THEOREM OverfillNeedsOverlap == Spec => []OverfilledOnlyByOverlap
<1>1. Init => IInv
  BY InitTypeOK, InitUnraced DEF IInv
<1>2. IInv /\ [Next]_vars => IInv'
  BY NextTypeOK, NextUnraced DEF IInv
<1>3. IInv => OverfilledOnlyByOverlap
  BY AmountsAssumption DEF AmountsAssumption, IInv, TypeOK, Unraced, Single, OverfilledOnlyByOverlap
<1> QED  BY <1>1, <1>2, <1>3, PTL DEF Spec
-----------------------------------------------------------------------------
(* LedgerSigner.                                                              *)
AllKeys == [i \in 1..Paths |-> i]

\* What is collected and known: the keys of the first paths, in order.
LedgerKeys ==
  /\ accounts \in {<<>>, AllKeys}
  /\ \A c \in Calls : pubkeys[c] \in Seq(Nat) /\ \A i \in 1..Len(pubkeys[c]) : pubkeys[c][i] = i

Accepted(d) == ~d.outdated /\ (d.test => testModeAllowed)

(* The version that a call has read is that of the device it talks to, unless *)
(* the user has switched since: this carries the check over the two commands  *)
(* that lie between it and the signature.                                     *)
LedgerChecks ==
  \A c \in Calls :
    /\ checkedAt[c] \in Nat /\ checkedAt[c] <= switches
    /\ step[c] \in {"again", "command"} /\ checkedAt[c] = switches => Accepted(device)

LedgerSigned ==
  \A c \in Calls : signature[c] # 0 =>
    /\ step[c] = "done" /\ signature[c] = asked[c] /\ accounts = AllKeys
    /\ checkedAt[c] = signedIn[c].switches => Accepted(signedIn[c].device)

LedgerTypes ==
  /\ asked \in [Calls -> 0..Paths]
  /\ step \in [Calls -> {"idle", "app", "version", "again", "command", "done", "failed"}]
  /\ DOMAIN pubkeys = Calls /\ pubkeys = [c \in Calls |-> pubkeys[c]]
  /\ signature \in [Calls -> Nat]
  /\ checkedAt \in [Calls -> Nat]
  /\ DOMAIN signedIn = Calls /\ signedIn = [c \in Calls |-> signedIn[c]]
  /\ switches \in Nat /\ device \in Ledger!Devices

LedgerInv == LedgerTypes /\ LedgerKeys /\ LedgerChecks /\ LedgerSigned

LEMMA LedgerInit == Ledger!Init => LedgerInv
<1> SUFFICES ASSUME Ledger!Init PROVE LedgerInv
  OBVIOUS
<1>1. LedgerTypes
  BY DEF Ledger!Init, LedgerTypes
<1>2. LedgerKeys /\ LedgerChecks /\ LedgerSigned
  BY EmptySeq DEF Ledger!Init, LedgerKeys, LedgerChecks, LedgerSigned
<1> QED  BY <1>1, <1>2 DEF LedgerInv

NextKeys(c) == Append(pubkeys[c], Len(pubkeys[c]) + 1)

\* One more key.
LEMMA NextKey ==
  ASSUME LedgerKeys, NEW c \in Calls
  PROVE  /\ NextKeys(c) \in Seq(Nat)
         /\ \A i \in 1..Len(NextKeys(c)) : NextKeys(c)[i] = i
         /\ Len(NextKeys(c)) = Paths => NextKeys(c) = AllKeys
<1> DEFINE known == pubkeys[c]
           n     == Len(known)
           keys  == Append(known, n + 1)
<1>0. known \in Seq(Nat) /\ n \in Nat /\ n + 1 \in Nat /\ \A i \in 1..n : known[i] = i
  BY LenProperties DEF LedgerKeys
<1>1. /\ keys \in Seq(Nat) /\ Len(keys) = n + 1
      /\ \A i \in 1..n : keys[i] = known[i]
      /\ keys[n + 1] = n + 1
  BY <1>0, AppendProperties
<1>2. keys = [i \in 1..Len(keys) |-> keys[i]]
  BY <1>1, LenProperties
<1>3. keys = NextKeys(c)
  BY DEF NextKeys
<1> HIDE DEF keys, n, known
<1>4. \A i \in 1..Len(keys) : keys[i] = i
  <2> SUFFICES ASSUME NEW i \in 1..Len(keys) PROVE keys[i] = i
    OBVIOUS
  <2>1. i \in 1..n \/ i = n + 1
    BY <1>0, <1>1
  <2> QED  BY <2>1, <1>0, <1>1
<1>5. Len(keys) = Paths => keys = AllKeys
  BY <1>2, <1>4 DEF AllKeys
<1> QED  BY <1>1, <1>3, <1>4, <1>5

LEMMA LedgerStep == LedgerInv /\ [Ledger!Next]_(Ledger!vars) => LedgerInv'
<1> SUFFICES ASSUME LedgerTypes, LedgerKeys, LedgerChecks, LedgerSigned, [Ledger!Next]_(Ledger!vars) PROVE LedgerInv'
  BY DEF LedgerInv
<1> USE DEF Ledger!calls, Ledger!history, Ledger!Goto, LedgerTypes, Accepted
<1>1. ASSUME NEW c \in Calls, Ledger!Invoke(c) PROVE LedgerInv'
  BY <1>1 DEF Ledger!Invoke, LedgerInv, LedgerKeys, LedgerChecks, LedgerSigned
<1>2. ASSUME NEW c \in Calls, Ledger!CheckApp(c) PROVE LedgerInv'
  BY <1>2 DEF Ledger!CheckApp, LedgerInv, LedgerKeys, LedgerChecks, LedgerSigned
<1>3. ASSUME NEW c \in Calls, Ledger!CheckVersion(c) PROVE LedgerInv'
  BY <1>3 DEF Ledger!CheckVersion, LedgerInv, LedgerKeys, LedgerChecks, LedgerSigned
<1>4. ASSUME NEW c \in Calls, Ledger!GetKey(c) PROVE LedgerInv'
  <2>0. /\ pubkeys' = pubkeys \/ pubkeys' = [pubkeys EXCEPT ![c] = NextKeys(c)]
        /\ accounts' = accounts \/ accounts' = AllKeys
    BY <1>4, NextKey DEF Ledger!GetKey, NextKeys
  <2>1. LedgerKeys'
    BY <2>0, NextKey DEF LedgerKeys
  <2>2. LedgerTypes' /\ LedgerChecks'
    BY <1>4 DEF Ledger!GetKey, LedgerChecks
  <2>3. LedgerSigned'
    <3>1. signature[c] = 0 /\ accounts' \in {accounts, AllKeys}
      BY <1>4, <2>0 DEF Ledger!GetKey, LedgerSigned
    <3> QED  BY <1>4, <3>1 DEF Ledger!GetKey, LedgerSigned
  <2> QED  BY <2>1, <2>2, <2>3 DEF LedgerInv
<1>5. ASSUME NEW c \in Calls, Ledger!Sign(c) PROVE LedgerInv'
  <2>1. LedgerKeys'
    BY <1>5 DEF Ledger!Sign, LedgerKeys
  <2>2. CASE UNCHANGED <<signature, signedIn>>
    BY <1>5, <2>1, <2>2 DEF Ledger!Sign, LedgerInv, LedgerChecks, LedgerSigned
  <2>3. ASSUME NEW i \in DOMAIN accounts, accounts[i] = asked[c],
               signature' = [signature EXCEPT ![c] = i],
               signedIn' = [signedIn EXCEPT ![c] = [device |-> device, switches |-> switches]],
               Ledger!Goto(c, "done")
        PROVE  LedgerInv'
    <3>1. accounts = AllKeys /\ i \in 1..Paths /\ asked[c] = i
      <4>1. accounts # <<>>
        BY <2>3, EmptySeq
      <4> QED  BY <2>3, <4>1 DEF LedgerKeys, AllKeys
    <3>2. LedgerTypes' /\ LedgerChecks'
      BY <1>5, <2>3, <3>1 DEF Ledger!Sign, LedgerChecks
    <3>3. LedgerSigned'
      BY <1>5, <2>3, <3>1 DEF Ledger!Sign, LedgerChecks, LedgerSigned
    <3> QED  BY <2>1, <3>2, <3>3 DEF LedgerInv
  <2> QED  BY <1>5, <2>2, <2>3 DEF Ledger!Sign
<1>6. CASE Ledger!Switch
  BY <1>6 DEF Ledger!Switch, LedgerInv, LedgerKeys, LedgerChecks, LedgerSigned
<1>7. CASE UNCHANGED Ledger!vars
  BY <1>7 DEF Ledger!vars, LedgerInv, LedgerKeys, LedgerChecks, LedgerSigned
<1> QED  BY <1>1, <1>2, <1>3, <1>4, <1>5, <1>6, <1>7 DEF Ledger!Next, Ledger!Handle

(* A signature is made with the key that was asked for, by an app whose       *)
(* version and mode the signer accepts, unless the user switched after the    *)
(* version was read.                                                          *)
THEOREM OnlyCheckedSignatures == Ledger!Spec => []Ledger!SignaturesAreChecked
<1>1. LedgerInv => Ledger!SignaturesAreChecked
  BY DEF LedgerInv, LedgerSigned, Ledger!SignaturesAreChecked, AllKeys, Accepted
<1> QED  BY <1>1, LedgerInit, LedgerStep, PTL DEF Ledger!Spec

\* The same of the behaviours of all parts, of which the run looks at a few.
THEOREM SignaturesOfThePart == PartsSpec => []SignaturesAreChecked
<1> DEFINE Inv == part = "ledger" => LedgerInv
<1>1. PartsInit => Inv
  BY LedgerInit DEF PartsInit
<1>2. Inv /\ [PartsNext]_partsVars => Inv'
  <2> SUFFICES ASSUME Inv, [PartsNext]_partsVars, part' = "ledger" PROVE LedgerInv'
    OBVIOUS
  <2>1. part = "ledger" /\ (Ledger!Next \/ UNCHANGED ledger)
    BY DEF PartsNext, partsVars
  <2>2. [Ledger!Next]_(Ledger!vars)
    BY <2>1 DEF ledger, Ledger!vars, Ledger!calls, Ledger!history
  <2> QED  BY <2>1, <2>2, LedgerStep
<1>3. Inv => SignaturesAreChecked
  BY DEF LedgerInv, LedgerSigned, SignaturesAreChecked, Ledger!SignaturesAreChecked, AllKeys, Accepted
<1> QED  BY <1>1, <1>2, <1>3, PTL DEF PartsSpec, partsVars
-----------------------------------------------------------------------------
(* StreamConcat.                                                              *)
Sources == Concat!Sources
Events == Sources \X Nat

(* The order in which the listener gets events.  One comes twice only when    *)
(* handlers of an earlier start() are left.                                   *)
Precedes(e, f, twice) == e[1] < f[1] \/ (e[1] = f[1] /\ (e[2] < f[2] \/ (e[2] = f[2] /\ twice)))

Ascends(s, twice) == \A j, k \in DOMAIN s : j < k => Precedes(s[j], s[k], twice)

Emitted(e, c) == e[1] \in Sources /\ e[2] \in 1..c[e[1]]

\* The queue of a source holds events of it, which come after all that the
\* listener has got; it is empty before the active source.
Queued(i, queue, o, c, active, twice) ==
  /\ queue \in Seq(Events) /\ Ascends(queue, twice)
  /\ \A k \in DOMAIN queue : queue[k][1] = i /\ Emitted(queue[k], c)
  /\ \A j \in DOMAIN o, k \in DOMAIN queue : Precedes(o[j], queue[k], twice)
  /\ i < active => queue = <<>>

\* No event of source i has been lost.
NoneLost(i, queue, o, c) ==
  \A n \in 1..c[i] :
    \/ \E k \in DOMAIN o : o[k] = <<i, n>>
    \/ \E k \in DOMAIN queue : queue[k] = <<i, n>>

Delivered(o, c, twice) == Ascends(o, twice) /\ \A k \in DOMAIN o : Emitted(o[k], c)

Running ==
  /\ ~crashed /\ Length > 0 /\ queues \in [Sources -> Seq(Events)]
  /\ completedStreams = completed /\ completed \subseteq 1..subscribed
  /\ \A i \in completed : subscriptions[i] = 0
  /\ activeStreamIndex \in Sources /\ \A j \in 1..(activeStreamIndex - 1) : j \in completed
  /\ Delivered(out, count, leftOver) /\ \A k \in DOMAIN out : out[k][1] <= activeStreamIndex
  /\ \A i \in Sources : Queued(i, queues[i], out, count, activeStreamIndex, leftOver)
  /\ \A i \in Sources : NoneLost(i, queues[i], out, count)
  /\ flushing = 0 => activeStreamIndex \notin completed /\ queues[activeStreamIndex] = <<>>
  /\ ~leftOver => /\ flushing <= 1
                  /\ \A i \in Sources : subscriptions[i] <= 1 /\ (i > subscribed => subscriptions[i] = 0)

\* What reset() leaves.
Stopped == queues = <<>> /\ activeStreamIndex = 1 /\ flushing = 0 /\ (~crashed => completedStreams = {})

NoneLive == \A i \in Sources : subscriptions[i] = 0

Ended ==
  /\ Stopped /\ NoneLive /\ subscribed = Length /\ Sources \subseteq completed
  /\ Delivered(out, count, leftOver)
  /\ \A i \in Sources : \A n \in 1..count[i] : \E k \in DOMAIN out : out[k] = <<i, n>>

\* start() goes on to subscribe, but never again to the first source.
Broken ==
  /\ Stopped /\ subscribed > 0 /\ subscriptions[1] = 0
  /\ ~leftOver => subscribed = Length /\ NoneLive

ConcatInv ==
  /\ Concat!TypeOK /\ (crashed => leftOver)
  /\ phase = "idle" => Stopped /\ NoneLive
  /\ phase = "on" => Running
  /\ phase = "done" => Ended
  /\ phase \in {"failed", "cut"} => Broken

ConcatTypes ==
  /\ subscribed \in Nat /\ subscribed <= Length /\ Length \in Nat /\ Sources = 1..Length
  /\ subscriptions \in [Sources -> Nat] /\ flushing \in Nat
  /\ count \in [Sources -> Nat] /\ completed \subseteq Sources
  /\ completedStreams \subseteq Sources /\ out \in Seq(Events)
  /\ crashed \in BOOLEAN /\ leftOver \in BOOLEAN /\ phase \in {"idle", "on", "done", "failed", "cut"}

LEMMA TypesOfConcat == Concat!TypeOK => ConcatTypes
BY LengthAssumption DEF LengthAssumption, Concat!TypeOK, ConcatTypes, Sources, Events, Concat!Sources

\* The sequence t is s with m times the event e at its end.
ExtendedBy(t, s, m, e) ==
  /\ t \in Seq(Events) /\ Len(t) = Len(s) + m
  /\ \A k \in 1..Len(s) : t[k] = s[k]
  /\ \A k \in 1..m : t[Len(s) + k] = e

LEMMA CopiesExtend ==
  ASSUME NEW s \in Seq(Events), NEW m \in Nat, NEW e \in Events, NEW t, t = s \o [n \in 1..m |-> e]
  PROVE  ExtendedBy(t, s, m, e)
<1> DEFINE c == [n \in 1..m |-> e]
<1>1. c \in Seq(Events) /\ Len(c) = m /\ \A k \in 1..m : c[k] = e
  OBVIOUS
<1> HIDE DEF c
<1>2. t = s \o c
  BY DEF c
<1>3. /\ t \in Seq(Events) /\ Len(t) = Len(s) + m
      /\ \A i \in 1..(Len(s) + m) : t[i] = IF i <= Len(s) THEN s[i] ELSE c[i - Len(s)]
  BY <1>1, <1>2, ConcatProperties
<1>4. Len(s) \in Nat
  BY LenProperties
<1> DEFINE l == Len(s)
<1>5. l \in Nat /\ \A i \in 1..(l + m) : t[i] = IF i <= l THEN s[i] ELSE c[i - l]
  BY <1>3, <1>4
<1>6. t \in Seq(Events) /\ Len(t) = l + m
  BY <1>3
<1> HIDE DEF l
<1>7. ASSUME NEW k \in 1..l PROVE t[k] = s[k]
  <2>1. k \in 1..(l + m) /\ k <= l
    BY <1>5
  <2> QED  BY <1>5, <2>1
<1>8. ASSUME NEW k \in 1..m PROVE t[l + k] = e
  <2>1. l + k \in 1..(l + m) /\ ~(l + k <= l) /\ (l + k) - l = k
    BY <1>5
  <2> QED  BY <1>1, <1>5, <2>1
<1> QED  BY <1>6, <1>7, <1>8 DEF l, ExtendedBy

LEMMA CopiesJoin ==
  ASSUME NEW s \in Seq(Events), NEW m \in Nat, NEW e \in Events
  PROVE  s \o [n \in 1..m |-> e] \in Seq(Events)
<1>1. [n \in 1..m |-> e] \in Seq(Events)
  OBVIOUS
<1> QED  BY <1>1, ConcatProperties

LEMMA AppendExtends ==
  ASSUME NEW s \in Seq(Events), NEW e \in Events, NEW t, t = Append(s, e)
  PROVE  ExtendedBy(t, s, 1, e)
<1>1. t \in Seq(Events) /\ Len(t) = Len(s) + 1 /\ (\A k \in 1..Len(s) : t[k] = s[k]) /\ t[Len(s) + 1] = e
  BY AppendProperties
<1>2. \A k \in 1..1 : k = 1
  OBVIOUS
<1> QED  BY <1>1, <1>2 DEF ExtendedBy

\* What an extended sequence holds, and that it still ascends.
LEMMA ExtendedHolds ==
  ASSUME NEW s \in Seq(Events), NEW m \in Nat \ {0}, NEW e \in Events, NEW t, ExtendedBy(t, s, m, e), NEW twice
  PROVE  /\ \A k \in DOMAIN t : t[k] = e \/ \E j \in DOMAIN s : t[k] = s[j]
         /\ \A j \in DOMAIN s : j \in DOMAIN t /\ t[j] = s[j]
         /\ \E k \in DOMAIN t : t[k] = e
         /\ (m > 1 => twice) /\ Ascends(s, twice) /\ (\A k \in DOMAIN s : Precedes(s[k], e, twice)) => Ascends(t, twice)
<1> DEFINE l == Len(s)
<1>1. l \in Nat /\ DOMAIN s = 1..l /\ DOMAIN t = 1..(l + m)
  BY LenProperties DEF ExtendedBy
<1>2. (\A k \in 1..l : t[k] = s[k]) /\ \A k \in 1..m : t[l + k] = e
  BY DEF ExtendedBy
<1> HIDE DEF l
<1>3. ASSUME NEW k \in 1..(l + m) PROVE k \in 1..l \/ (k > l /\ t[k] = e)
  <2>1. CASE k > l
    <3>1. k - l \in 1..m /\ l + (k - l) = k
      BY <1>1, <2>1
    <3> QED  BY <1>2, <2>1, <3>1
  <2> QED  BY <1>1, <2>1
<1>4. \A k \in DOMAIN t : t[k] = e \/ \E j \in DOMAIN s : t[k] = s[j]
  BY <1>1, <1>2, <1>3
<1>5. \A j \in DOMAIN s : j \in DOMAIN t /\ t[j] = s[j]
  BY <1>1, <1>2
<1>6. \E k \in DOMAIN t : t[k] = e
  <2>1. 1 \in 1..m /\ l + 1 \in 1..(l + m)
    BY <1>1
  <2> QED  BY <1>1, <1>2, <2>1
<1>7. ASSUME m > 1 => twice, Ascends(s, twice), \A k \in DOMAIN s : Precedes(s[k], e, twice) PROVE Ascends(t, twice)
  <2> SUFFICES ASSUME NEW j \in DOMAIN t, NEW k \in DOMAIN t, j < k PROVE Precedes(t[j], t[k], twice)
    BY DEF Ascends
  <2>1. CASE k \in 1..l
    <3>1. j \in 1..l
      BY <1>1, <2>1
    <3> QED  BY <1>1, <1>2, <1>7, <2>1, <3>1 DEF Ascends
  <2>2. CASE j \in 1..l /\ t[k] = e
    BY <1>1, <1>2, <1>7, <2>2
  <2>3. CASE j > l /\ t[j] = e /\ k > l /\ t[k] = e
    <3>1. m > 1
      BY <1>1, <2>3
    <3> QED  BY <1>7, <2>3, <3>1 DEF Precedes
  <2> QED  BY <1>1, <1>3, <2>1, <2>2, <2>3
<1> QED  BY <1>4, <1>5, <1>6, <1>7

LEMMA NothingLives ==
  ASSUME Length \in Nat
  PROVE  /\ Concat!Nothing \in [Sources -> Nat] /\ \A i \in Sources : Concat!Nothing[i] = 0
         /\ DOMAIN <<>> = {} /\ <<>> \in Seq(Events)
BY EmptySeq DEF Concat!Nothing, Sources

\* A listener finds empty queues and gets one for each source.
LEMMA QueuesOfStart ==
  ASSUME ConcatTypes, Stopped, queues' = queues \o [i \in Concat!Sources |-> <<>>]
  PROVE  queues' = [i \in Sources |-> <<>>]
<1> DEFINE q == [i \in Concat!Sources |-> <<>>]
<1>1. q \in Seq(Seq(Events))
  <2>1. <<>> \in Seq(Events)
    BY EmptySeq
  <2>2. Concat!Sources = 1..Length /\ Length \in Nat
    BY DEF ConcatTypes, Sources
  <2> QED  BY <2>1, <2>2
<1> HIDE DEF q
<1>2. <<>> \o q = q
  BY <1>1, ConcatEmptySeq
<1>3. queues' = q
  BY <1>2 DEF Stopped, q
<1> QED  BY <1>3 DEF q, Sources

LEMMA ConcatTypesKept == ConcatInv /\ [Concat!Next]_concat => Concat!TypeOK'
<1> SUFFICES ASSUME ConcatInv, [Concat!Next]_concat PROVE Concat!TypeOK'
  OBVIOUS
<1>0. /\ Concat!TypeOK /\ ConcatTypes
      /\ phase \in {"idle", "done", "failed", "cut"} => Stopped
      /\ flushing > 0 => Running
  BY TypesOfConcat DEF ConcatInv, Ended, Broken, Stopped, ConcatTypes
<1> USE <1>0, LengthAssumption DEF LengthAssumption, Concat!TypeOK, Concat!Sources
<1>r. /\ Concat!Nothing \in [Concat!Sources -> Nat] /\ DOMAIN <<>> = {} /\ <<>> \in Seq(Concat!Sources \X Nat)
  BY NothingLives DEF Sources, Events
<1>1. CASE Concat!Start
  <2>1. queues' = [i \in Concat!Sources |-> <<>>]
    BY <1>1, QueuesOfStart DEF Concat!Start, Sources
  <2>2. DOMAIN queues' = Concat!Sources /\ \A i \in DOMAIN queues' : queues'[i] \in Seq(Concat!Sources \X Nat)
    BY <1>r, <2>1
  <2> QED  BY <1>1, <1>r, <2>2 DEF Concat!Start
<1>2. CASE Concat!Subscribe
  <2>1. subscribed' = subscribed + 1 /\ subscribed' \in 0..Length
    BY <1>2 DEF Concat!Subscribe
  <2>2. subscriptions' \in [Concat!Sources -> Nat]
    BY <1>2 DEF Concat!Subscribe
  <2> QED  BY <1>2, <2>1, <2>2 DEF Concat!Subscribe
<1>3. ASSUME NEW i \in Concat!Sources, Concat!Emit(i) PROVE Concat!TypeOK'
  <2> DEFINE event == <<i, count[i] + 1>>
             events == [n \in 1..subscriptions[i] |-> event]
  <2>1. event \in Events /\ subscriptions[i] \in Nat
    BY DEF Events, Sources
  <2> HIDE DEF event
  <2>2. out' \in Seq(Concat!Sources \X Nat)
    <3>1. out' = out \/ out' = out \o events
      BY <1>3 DEF Concat!Emit, event
    <3>2. out \o events \in Seq(Events)
      <4>1. out \in Seq(Events)
        BY DEF ConcatTypes
      <4> QED  BY <2>1, <4>1, CopiesJoin, Zenon
    <3> QED  BY <3>1, <3>2 DEF Events, Sources
  <2>3. DOMAIN queues' = DOMAIN queues /\ \A j \in DOMAIN queues : queues'[j] \in Seq(Concat!Sources \X Nat)
    <3>1. CASE queues' = queues
      BY <3>1
    <3>2. CASE i \in DOMAIN queues /\ queues' = [queues EXCEPT ![i] = queues[i] \o events]
      <4>1. queues[i] \in Seq(Events)
        BY <3>2 DEF Events, Sources
      <4>2. queues[i] \o events \in Seq(Events)
        BY <2>1, <4>1, CopiesJoin, Zenon
      <4> HIDE DEF events
      <4> QED  BY <3>2, <4>2 DEF Events, Sources
    <3> QED  BY <1>3, <3>1, <3>2 DEF Concat!Emit, event
  <2>4. UNCHANGED <<phase, subscribed, subscriptions, completedStreams, activeStreamIndex, flushing, leftOver, completed>>
    BY <1>3 DEF Concat!Emit
  <2>5. count' \in [Concat!Sources -> Nat]
    <3>1. count' = [count EXCEPT ![i] = count[i] + 1]
      BY <1>3 DEF Concat!Emit
    <3> QED  BY <3>1
  <2>6. crashed' \in BOOLEAN
    <3>1. crashed' = crashed \/ crashed' = TRUE
      BY <1>3 DEF Concat!Emit
    <3> QED  BY <3>1
  <2> QED  BY <2>2, <2>3, <2>4, <2>5, <2>6
<1>4. ASSUME NEW i \in Concat!Sources, Concat!Complete(i) PROVE Concat!TypeOK'
  <2>1. subscriptions' \in [Concat!Sources -> Nat] /\ flushing' \in Nat
    BY <1>4 DEF Concat!Complete
  <2> QED  BY <1>4, <2>1 DEF Concat!Complete
<1>5. ASSUME NEW i \in Concat!Sources, Concat!Fail(i) PROVE Concat!TypeOK'
  <2>1. phase' \in {"failed", "cut"} /\ crashed' \in BOOLEAN /\ leftOver' \in BOOLEAN
    BY <1>5 DEF Concat!Fail
  <2> QED  BY <1>5, <1>r, <2>1 DEF Concat!Fail, Concat!reset
<1>6. CASE Concat!Leave
  BY <1>6, <1>r DEF Concat!Leave, Concat!reset
<1>7. CASE Concat!Flush
  <2> DEFINE a == activeStreamIndex
  <2>0. flushing > 0 /\ Running
    BY <1>7 DEF Concat!Flush
  <2>1. UNCHANGED <<subscribed, leftOver, count, completed>>
    BY <1>7 DEF Concat!Flush
  <2>2. CASE /\ queues[a] # <<>> /\ out' = Append(out, Head(queues[a])) /\ queues' = [queues EXCEPT ![a] = Tail(@)]
             /\ UNCHANGED <<phase, subscriptions, completedStreams, activeStreamIndex, flushing, crashed>>
    <3>1. queues \in [Concat!Sources -> Seq(Concat!Sources \X Nat)] /\ a \in Concat!Sources
      BY <2>0 DEF Running, Sources, Events
    <3>2. Tail(queues[a]) \in Seq(Concat!Sources \X Nat) /\ Head(queues[a]) \in Concat!Sources \X Nat
      BY <2>2, <3>1, HeadTailProperties
    <3>3. out' \in Seq(Concat!Sources \X Nat)
      BY <2>2, <3>2, AppendProperties
    <3>4. queues' \in [Concat!Sources -> Seq(Concat!Sources \X Nat)]
      BY <2>2, <3>1, <3>2
    <3> QED  BY <2>1, <2>2, <3>3, <3>4
  <2>3. CASE /\ a < Length /\ activeStreamIndex' = a + 1
             /\ UNCHANGED <<phase, subscriptions, queues, completedStreams, flushing, crashed, out>>
    <3>1. a + 1 \in 1..Length
      BY <2>3
    <3> QED  BY <2>1, <2>3, <3>1
  <2>4. CASE phase' = "done" /\ flushing' = 0 /\ Concat!reset /\ crashed' = (flushing > 1) /\ UNCHANGED out
    <3>1. /\ subscriptions' = Concat!Nothing /\ queues' = <<>> /\ completedStreams' = {} /\ activeStreamIndex' = 1
          /\ crashed' \in BOOLEAN
      BY <2>4 DEF Concat!reset
    <3> QED  BY <1>r, <2>1, <2>4, <3>1
  <2>5. CASE flushing' = flushing - 1
             /\ UNCHANGED <<phase, subscriptions, queues, completedStreams, activeStreamIndex, crashed, out>>
    BY <2>0, <2>1, <2>5
  <2> QED  BY <1>7, <2>2, <2>3, <2>4, <2>5 DEF Concat!Flush
<1>8. CASE UNCHANGED concat
  BY <1>8 DEF concat
<1> QED  BY <1>1, <1>2, <1>3, <1>4, <1>5, <1>6, <1>7, <1>8 DEF Concat!Next

\* What the proofs use of a producer that runs.
LEMMA WhileRunning ==
  ASSUME ConcatTypes, Running
  PROVE  /\ Length \in Nat /\ Sources = 1..Length /\ activeStreamIndex \in 1..Length
         /\ \A j \in 1..(activeStreamIndex - 1) : j \in completed
         /\ queues \in [Sources -> Seq(Events)] /\ count \in [Sources -> Nat] /\ out \in Seq(Events)
         /\ \A j \in Sources : Queued(j, queues[j], out, count, activeStreamIndex, leftOver)
         /\ \A j \in Sources : NoneLost(j, queues[j], out, count)
         /\ Ascends(out, leftOver)
         /\ \A k \in DOMAIN out : Emitted(out[k], count) /\ out[k][1] <= activeStreamIndex
<1>1. Length \in Nat /\ Sources = 1..Length /\ count \in [Sources -> Nat] /\ out \in Seq(Events)
  BY DEF ConcatTypes
<1>2. activeStreamIndex \in Sources /\ queues \in [Sources -> Seq(Events)]
  BY DEF Running
<1>3. /\ \A j \in 1..(activeStreamIndex - 1) : j \in completed
      /\ \A j \in Sources : Queued(j, queues[j], out, count, activeStreamIndex, leftOver)
      /\ \A j \in Sources : NoneLost(j, queues[j], out, count)
  BY DEF Running
<1>4. Ascends(out, leftOver) /\ \A k \in DOMAIN out : Emitted(out[k], count) /\ out[k][1] <= activeStreamIndex
  BY DEF Running, Delivered
<1>5. activeStreamIndex \in 1..Length
  BY <1>1, <1>2
<1> QED  BY <1>1, <1>2, <1>3, <1>4, <1>5

\* A listener comes.
LEMMA StartsRight ==
  ASSUME ConcatInv, Concat!Start
  PROVE  (phase' = "on" /\ Running') \/ (phase' = "done" /\ Ended' /\ (crashed' => leftOver'))
<1>1. /\ ConcatTypes /\ Stopped /\ ~crashed /\ subscribed = Length
      /\ phase' = (IF Length = 0 THEN "done" ELSE "on") /\ subscribed' = 0
      /\ count' = Concat!Nothing /\ completed' = {} /\ out' = <<>>
      /\ leftOver' = (leftOver /\ phase = "failed")
      /\ UNCHANGED <<subscriptions, completedStreams, activeStreamIndex, flushing, crashed>>
      /\ queues' = [i \in Sources |-> <<>>]
  <2>1. Stopped /\ ConcatTypes
    BY TypesOfConcat DEF ConcatInv, Concat!Start, Ended, Broken
  <2> QED  BY <2>1, QueuesOfStart DEF Concat!Start
<1>2. NoneLive \/ leftOver'
  <2>1. phase \in {"idle", "done"} => NoneLive
    BY DEF ConcatInv, Ended
  <2>2. phase = "failed" => NoneLive \/ leftOver
    BY DEF ConcatInv, Broken
  <2> QED  BY <1>1, <2>1, <2>2 DEF Concat!Start
<1>3. /\ count' \in [Sources -> Nat] /\ \A i \in Sources : count'[i] = 0
      /\ DOMAIN <<>> = {} /\ <<>> \in Seq(Events) /\ 1..0 = {}
  BY <1>1, NothingLives DEF ConcatTypes
<1>4. CASE Length = 0
  <2>1. Sources = {}
    BY <1>1, <1>4 DEF ConcatTypes
  <2>2. Delivered(out', count', leftOver')
    BY <1>1, <1>3 DEF Delivered, Ascends
  <2> QED  BY <1>1, <1>3, <1>4, <2>1, <2>2 DEF Ended, Stopped, NoneLive
<1>5. CASE Length # 0
  <2>1. /\ Length > 0 /\ 1 \in Sources /\ activeStreamIndex' = 1 /\ flushing' = 0 /\ completedStreams' = {}
        /\ 1..(1 - 1) = {}
    BY <1>1, <1>5 DEF ConcatTypes, Stopped
  <2>2. queues' \in [Sources -> Seq(Events)] /\ queues'[1] = <<>>
    BY <1>1, <1>3, <2>1
  <2>3. ASSUME NEW i \in Sources
        PROVE  /\ Queued(i, queues'[i], out', count', activeStreamIndex', leftOver')
               /\ NoneLost(i, queues'[i], out', count')
    <3>1. queues'[i] = <<>> /\ count'[i] = 0
      BY <1>1, <1>3
    <3> QED  BY <1>1, <1>3, <3>1 DEF Queued, NoneLost, Ascends
  <2>4. Delivered(out', count', leftOver') /\ \A k \in DOMAIN out' : out'[k][1] <= 1
    BY <1>1, <1>3 DEF Delivered, Ascends
  <2>5. ~leftOver' => \A i \in Sources : subscriptions'[i] = 0
    BY <1>1, <1>2 DEF NoneLive
  <2> QED  BY <1>1, <1>5, <2>1, <2>2, <2>3, <2>4, <2>5 DEF Running
<1> QED  BY <1>4, <1>5

LEMMA SubscribeRuns ==
  ASSUME ConcatTypes, Running, Concat!Subscribe
  PROVE  Running'
<1>1. /\ subscribed' = subscribed + 1 /\ subscribed < Length /\ subscribed \in Nat /\ flushing = 0
      /\ subscriptions' = [subscriptions EXCEPT ![subscribed + 1] = subscriptions[subscribed + 1] + 1]
      /\ UNCHANGED <<queues, completedStreams, activeStreamIndex, flushing, crashed, leftOver, count, completed, out>>
  BY DEF Concat!Subscribe, ConcatTypes
<1>2. completed \subseteq 1..subscribed /\ completed \subseteq Sources /\ Sources = 1..Length
      /\ subscriptions \in [Sources -> Nat]
  BY DEF Running, ConcatTypes
<1>3. completed \subseteq 1..(subscribed + 1) /\ subscribed + 1 \notin completed
  BY <1>1, <1>2
<1>4. \A i \in Sources : subscriptions'[i] = IF i = subscribed + 1 THEN subscriptions[i] + 1 ELSE subscriptions[i]
  BY <1>1, <1>2
<1>5. \A i \in completed : subscriptions'[i] = 0
  <2>1. \A i \in completed : subscriptions[i] = 0 /\ i \in Sources /\ i # subscribed + 1
    BY <1>2, <1>3 DEF Running
  <2> QED  BY <1>4, <2>1
<1>6. ASSUME ~leftOver, NEW i \in Sources
      PROVE  subscriptions'[i] <= 1 /\ (i > subscribed + 1 => subscriptions'[i] = 0)
  <2>1. subscriptions[i] <= 1 /\ (i > subscribed => subscriptions[i] = 0) /\ subscriptions[i] \in Nat /\ i \in Int
    BY <1>2, <1>6 DEF Running
  <2>2. CASE i = subscribed + 1
    <3>1. subscriptions[i] = 0
      BY <1>1, <2>1, <2>2
    <3> QED  BY <1>1, <1>4, <2>2, <3>1
  <2>3. CASE i # subscribed + 1
    <3>1. subscriptions'[i] = subscriptions[i] /\ (i > subscribed + 1 => i > subscribed)
      BY <1>1, <1>4, <2>1, <2>3
    <3> QED  BY <2>1, <3>1
  <2> QED  BY <2>2, <2>3
<1>7. ~leftOver' => /\ flushing' <= 1
                    /\ \A i \in Sources : subscriptions'[i] <= 1 /\ (i > subscribed' => subscriptions'[i] = 0)
  BY <1>1, <1>6
<1>8. completed' \subseteq 1..subscribed' /\ \A i \in completed' : subscriptions'[i] = 0
  BY <1>1, <1>3, <1>5
<1> QED  BY <1>1, <1>7, <1>8 DEF Running

\* The next event of source i, and so many copies of it as it has handlers.
LEMMA NextEvent ==
  ASSUME ConcatTypes, Running, NEW i \in Sources, Concat!Emit(i), NEW e, e = <<i, count[i] + 1>>,
         NEW m, m = subscriptions[i]
  PROVE  /\ m \in Nat \ {0} /\ e \in Events /\ e[1] = i /\ e[2] = count[i] + 1 /\ count[i] \in Nat
         /\ flushing = 0 /\ i \notin completed /\ ~(i < activeStreamIndex) /\ (m > 1 => leftOver)
         /\ \A j \in Sources : count'[j] = IF j = i THEN count[i] + 1 ELSE count[j]
         /\ \A f : Emitted(f, count) => Emitted(f, count') /\ (f[1] <= i => Precedes(f, e, leftOver))
         /\ Emitted(e, count')
         /\ UNCHANGED <<subscribed, subscriptions, completedStreams, activeStreamIndex, flushing, leftOver, completed>>
<1>1. /\ m \in Nat \ {0} /\ flushing = 0 /\ i \notin completed
      /\ count' = [count EXCEPT ![i] = count[i] + 1]
      /\ UNCHANGED <<subscribed, subscriptions, completedStreams, activeStreamIndex, flushing, leftOver, completed>>
  <2>1. subscriptions[i] \in Nat
    BY DEF ConcatTypes
  <2>2. /\ subscriptions[i] > 0 /\ flushing = 0
        /\ count' = [count EXCEPT ![i] = count[i] + 1]
        /\ UNCHANGED <<subscribed, subscriptions, completedStreams, activeStreamIndex, flushing, leftOver, completed>>
    BY DEF Concat!Emit, Concat!MayCall
  <2>3. \A j \in completed : subscriptions[j] = 0
    BY DEF Running
  <2>4. i \notin completed
    BY <2>1, <2>2, <2>3
  <2> QED  BY <2>1, <2>2, <2>4
<1>2. Sources = 1..Length /\ Length \in Nat /\ count \in [Sources -> Nat] /\ count[i] \in Nat
  BY DEF ConcatTypes
<1>3. ~(i < activeStreamIndex)
  <2>1. activeStreamIndex \in 1..Length /\ \A j \in 1..(activeStreamIndex - 1) : j \in completed
    BY WhileRunning
  <2> QED  BY <1>1, <1>2, <2>1
<1>4. m > 1 => leftOver
  <2>1. ~leftOver => subscriptions[i] <= 1
    BY DEF Running
  <2> QED  BY <1>1, <2>1
<1>5. e \in Events /\ e[1] = i /\ e[2] = count[i] + 1
  BY <1>2 DEF Events
<1>6. \A j \in Sources : count'[j] = IF j = i THEN count[i] + 1 ELSE count[j]
  BY <1>1, <1>2
<1>7. ASSUME NEW f, Emitted(f, count) PROVE Emitted(f, count') /\ (f[1] <= i => Precedes(f, e, leftOver))
  <2>1. f[1] \in Sources /\ f[1] \in Int /\ i \in Int /\ f[2] \in 1..count[f[1]] /\ count[f[1]] \in Nat
    BY <1>2, <1>7 DEF Emitted
  <2>2. count'[f[1]] \in {count[f[1]], count[f[1]] + 1}
    BY <1>6, <2>1
  <2>3. Emitted(f, count')
    BY <2>1, <2>2 DEF Emitted
  <2>4. ASSUME f[1] <= i PROVE Precedes(f, e, leftOver)
    <3>1. CASE f[1] < i
      BY <1>5, <3>1 DEF Precedes
    <3>2. CASE f[1] = i
      <4>1. f[2] < count[i] + 1
        BY <2>1, <3>2
      <4> QED  BY <1>5, <3>2, <4>1 DEF Precedes
    <3> QED  BY <2>1, <2>4, <3>1, <3>2
  <2> QED  BY <2>3, <2>4
<1>8. Emitted(e, count')
  <2>1. count'[i] = count[i] + 1 /\ count[i] + 1 \in 1..(count[i] + 1)
    BY <1>2, <1>6
  <2> QED  BY <1>5, <2>1 DEF Emitted
<1> QED  BY <1>1, <1>2, <1>3, <1>4, <1>5, <1>6, <1>7, <1>8

\* Events move while the state of the loop rests.
LEMMA StillRuns ==
  ASSUME Running,
         UNCHANGED <<subscribed, subscriptions, completedStreams, activeStreamIndex, flushing, crashed, leftOver, completed>>,
         queues' \in [Sources -> Seq(Events)],
         flushing # 0 \/ queues'[activeStreamIndex] = queues[activeStreamIndex],
         Delivered(out', count', leftOver), \A k \in DOMAIN out' : out'[k][1] <= activeStreamIndex,
         \A j \in Sources : Queued(j, queues'[j], out', count', activeStreamIndex, leftOver),
         \A j \in Sources : NoneLost(j, queues'[j], out', count')
  PROVE  Running'
<1>1. activeStreamIndex' = activeStreamIndex /\ leftOver' = leftOver
  OBVIOUS
<1>2. Delivered(out', count', leftOver') /\ \A k \in DOMAIN out' : out'[k][1] <= activeStreamIndex'
  BY <1>1
<1>3. /\ \A j \in Sources : Queued(j, queues'[j], out', count', activeStreamIndex', leftOver')
      /\ \A j \in Sources : NoneLost(j, queues'[j], out', count')
  BY <1>1
<1>4. flushing' = 0 => activeStreamIndex' \notin completed' /\ queues'[activeStreamIndex'] = <<>>
  BY DEF Running
<1>5. ~leftOver' => /\ flushing' <= 1
                    /\ \A i \in Sources : subscriptions'[i] <= 1 /\ (i > subscribed' => subscriptions'[i] = 0)
  BY DEF Running
<1>6. /\ ~crashed' /\ Length > 0 /\ completedStreams' = completed' /\ completed' \subseteq 1..subscribed'
      /\ \A i \in completed' : subscriptions'[i] = 0
      /\ activeStreamIndex' \in Sources /\ \A j \in 1..(activeStreamIndex' - 1) : j \in completed'
  BY DEF Running
<1> QED  BY <1>2, <1>3, <1>4, <1>5, <1>6 DEF Running

LEMMA EmitRuns ==
  ASSUME ConcatTypes, Running, NEW i \in Sources, Concat!Emit(i)
  PROVE  Running'
<1> DEFINE e == <<i, count[i] + 1>>
           m == subscriptions[i]
           a == activeStreamIndex
           l == leftOver
<1>0. /\ Length \in Nat /\ Sources = 1..Length /\ a \in 1..Length
      /\ queues \in [Sources -> Seq(Events)] /\ count \in [Sources -> Nat] /\ out \in Seq(Events)
      /\ \A j \in Sources : Queued(j, queues[j], out, count, a, l)
      /\ \A j \in Sources : NoneLost(j, queues[j], out, count)
      /\ Ascends(out, l) /\ \A k \in DOMAIN out : Emitted(out[k], count) /\ out[k][1] <= a
  BY WhileRunning
<1>1. /\ m \in Nat \ {0} /\ e \in Events /\ e[1] = i /\ e[2] = count[i] + 1 /\ count[i] \in Nat
      /\ flushing = 0 /\ i \notin completed /\ ~(i < a) /\ (m > 1 => l)
      /\ \A j \in Sources : count'[j] = IF j = i THEN count[i] + 1 ELSE count[j]
      /\ \A f : Emitted(f, count) => Emitted(f, count') /\ (f[1] <= i => Precedes(f, e, l))
      /\ Emitted(e, count')
      /\ UNCHANGED <<subscribed, subscriptions, completedStreams, activeStreamIndex, flushing, leftOver, completed>>
  BY NextEvent
<1>2. DOMAIN queues = Sources /\ ~crashed
  BY DEF Running
<1>3. \/ i = a /\ out' = out \o [n \in 1..m |-> e] /\ UNCHANGED <<queues, crashed>>
      \/ i # a /\ queues' = [queues EXCEPT ![i] = queues[i] \o [n \in 1..m |-> e]] /\ UNCHANGED <<out, crashed>>
  BY <1>2 DEF Concat!Emit
<1> HIDE DEF e, m
<1>5. ASSUME NEW j \in Sources, NEW n \in 1..count'[j] PROVE n \in 1..count[j] \/ <<j, n>> = e
  <2>1. CASE j = i
    <3>1. count'[j] = count[i] + 1
      BY <1>1, <2>1
    <3>2. n \in 1..count[i] \/ n = count[i] + 1
      BY <1>1, <3>1
    <3>3. n = count[i] + 1 => <<j, n>> = e
      BY <2>1 DEF e
    <3> QED  BY <2>1, <3>2, <3>3
  <2>2. CASE j # i
    BY <1>1, <2>2
  <2> QED  BY <2>1, <2>2
<1>6. CASE i = a /\ out' = out \o [n \in 1..m |-> e] /\ UNCHANGED <<queues, crashed>>
  <2>1. ExtendedBy(out', out, m, e)
    BY <1>0, <1>1, <1>6, CopiesExtend
  <2>2. /\ \A k \in DOMAIN out' : out'[k] = e \/ \E j \in DOMAIN out : out'[k] = out[j]
        /\ \A j \in DOMAIN out : j \in DOMAIN out' /\ out'[j] = out[j]
        /\ \E k \in DOMAIN out' : out'[k] = e
        /\ Ascends(out', l)
    <3>1. \A k \in DOMAIN out : Precedes(out[k], e, l)
      BY <1>0, <1>1, <1>6
    <3> QED  BY <1>0, <1>1, <2>1, <3>1, ExtendedHolds
  <2>3. queues[a] = <<>> /\ DOMAIN <<>> = {}
    BY <1>1 DEF Running
  <2>4. Delivered(out', count', l) /\ \A k \in DOMAIN out' : out'[k][1] <= a
    <3>1. ASSUME NEW k \in DOMAIN out' PROVE Emitted(out'[k], count') /\ out'[k][1] <= a
      <4>1. CASE out'[k] = e
        <5>1. Emitted(e, count') /\ e[1] = a /\ a <= a
          BY <1>0, <1>1, <1>6
        <5> QED  BY <4>1, <5>1
      <4>2. CASE \E j \in DOMAIN out : out'[k] = out[j]
        <5>1. PICK j \in DOMAIN out : out'[k] = out[j]
          BY <4>2
        <5>2. Emitted(out[j], count) /\ out[j][1] <= a
          BY <1>0
        <5>3. Emitted(out[j], count')
          BY <1>1, <5>2
        <5> QED  BY <5>1, <5>2, <5>3
      <4> QED  BY <2>2, <4>1, <4>2
    <3> QED  BY <2>2, <3>1 DEF Delivered
  <2>5. ASSUME NEW j \in Sources PROVE Queued(j, queues[j], out', count', a, l)
    <3>1. Queued(j, queues[j], out, count, a, l)
      BY <1>0
    <3>2. ASSUME NEW h \in DOMAIN out', NEW k \in DOMAIN queues[j] PROVE Precedes(out'[h], queues[j][k], l)
      <4>1. queues[j][k][1] = j
        BY <3>1 DEF Queued
      <4>2. CASE out'[h] = e
        <5>1. j # a /\ ~(j < a)
          BY <2>3, <3>1 DEF Queued
        <5>2. i < j
          BY <1>0, <1>6, <5>1
        <5> QED  BY <1>1, <4>1, <4>2, <5>2 DEF Precedes
      <4>3. CASE \E g \in DOMAIN out : out'[h] = out[g]
        BY <3>1, <4>3 DEF Queued
      <4> QED  BY <2>2, <4>2, <4>3
    <3>3. \A k \in DOMAIN queues[j] : queues[j][k][1] = j /\ Emitted(queues[j][k], count')
      BY <1>1, <3>1 DEF Queued
    <3> QED  BY <3>1, <3>2, <3>3 DEF Queued
  <2>6. ASSUME NEW j \in Sources PROVE NoneLost(j, queues[j], out', count')
    <3> SUFFICES ASSUME NEW n \in 1..count'[j]
                 PROVE  (\E k \in DOMAIN out' : out'[k] = <<j, n>>) \/ \E k \in DOMAIN queues[j] : queues[j][k] = <<j, n>>
      BY DEF NoneLost
    <3>1. CASE n \in 1..count[j]
      <4>1. (\E k \in DOMAIN out : out[k] = <<j, n>>) \/ \E k \in DOMAIN queues[j] : queues[j][k] = <<j, n>>
        BY <1>0, <3>1 DEF NoneLost
      <4> QED  BY <2>2, <4>1
    <3>2. CASE <<j, n>> = e
      BY <2>2, <3>2
    <3> QED  BY <1>5, <3>1, <3>2
  <2>7. queues' = queues /\ UNCHANGED crashed
    BY <1>6
  <2> QED  BY <1>0, <1>1, <2>4, <2>5, <2>6, <2>7, StillRuns
<1>7. CASE i # a /\ queues' = [queues EXCEPT ![i] = queues[i] \o [n \in 1..m |-> e]] /\ UNCHANGED <<out, crashed>>
  <2> DEFINE q == queues'[i]
             p == queues[i]
  <2>1. /\ q = p \o [n \in 1..m |-> e] /\ p \in Seq(Events) /\ Queued(i, p, out, count, a, l)
        /\ \A j \in Sources : j # i => queues'[j] = queues[j]
    BY <1>0, <1>7
  <2>0. queues'[i] = q /\ queues[i] = p
    OBVIOUS
  <2> HIDE DEF q, p
  <2>2. ExtendedBy(q, p, m, e)
    BY <1>1, <2>1, CopiesExtend
  <2>p. Ascends(p, l) /\ \A k \in DOMAIN p : p[k][1] = i /\ Emitted(p[k], count)
    BY <2>1 DEF Queued
  <2>3. /\ \A k \in DOMAIN q : q[k] = e \/ \E j \in DOMAIN p : q[k] = p[j]
        /\ \A j \in DOMAIN p : j \in DOMAIN q /\ q[j] = p[j]
        /\ \E k \in DOMAIN q : q[k] = e
        /\ Ascends(q, l) /\ q \in Seq(Events)
    <3>1. \A k \in DOMAIN p : Precedes(p[k], e, l)
      <4>1. i <= i
        BY <1>0
      <4> QED  BY <1>1, <2>p, <4>1
    <3>2. q \in Seq(Events)
      BY <2>2 DEF ExtendedBy
    <3>3. /\ \A k \in DOMAIN q : q[k] = e \/ \E j \in DOMAIN p : q[k] = p[j]
          /\ \A j \in DOMAIN p : j \in DOMAIN q /\ q[j] = p[j]
          /\ \E k \in DOMAIN q : q[k] = e
          /\ Ascends(q, l)
      <4>1. m \in Nat \ {0} /\ e \in Events /\ p \in Seq(Events) /\ (m > 1 => l) /\ Ascends(p, l)
        BY <1>1, <2>1, <2>p
      <4> QED  BY <2>2, <3>1, <4>1, ExtendedHolds
    <3> QED  BY <3>2, <3>3
  <2>4. queues' \in [Sources -> Seq(Events)]
    <3>1. queues' = [queues EXCEPT ![i] = q]
      BY <1>0, <1>7, <2>0
    <3> QED  BY <1>0, <2>3, <3>1
  <2>5. a < i
    BY <1>0, <1>1, <1>7
  <2>6. Delivered(out, count', l) /\ \A k \in DOMAIN out : out[k][1] <= a
    BY <1>0, <1>1 DEF Delivered
  <2>7. Queued(i, q, out, count', a, l)
    <3>1. \A k \in DOMAIN q : q[k][1] = i /\ Emitted(q[k], count')
      BY <1>1, <2>3, <2>p
    <3>2. ASSUME NEW h \in DOMAIN out, NEW k \in DOMAIN q PROVE Precedes(out[h], q[k], l)
      <4>1. out[h][1] \in Int /\ out[h][1] <= a /\ a \in Int /\ i \in Int
        BY <1>0 DEF Emitted
      <4>2. q[k][1] = i
        BY <3>1
      <4>3. out[h][1] < i
        BY <2>5, <4>1
      <4> QED  BY <4>2, <4>3 DEF Precedes
    <3> QED  BY <1>1, <2>3, <3>1, <3>2 DEF Queued
  <2>8. ASSUME NEW j \in Sources PROVE Queued(j, queues'[j], out, count', a, l)
    <3>1. CASE j = i
      BY <2>0, <2>7, <3>1
    <3>2. CASE j # i
      <4>1. Queued(j, queues[j], out, count, a, l) /\ queues'[j] = queues[j]
        BY <1>0, <2>1, <3>2
      <4>2. Queued(j, queues[j], out, count', a, l)
        BY <1>1, <4>1 DEF Queued
      <4> QED  BY <4>1, <4>2
    <3> QED  BY <3>1, <3>2
  <2>9. ASSUME NEW j \in Sources PROVE NoneLost(j, queues'[j], out, count')
    <3> SUFFICES ASSUME NEW n \in 1..count'[j]
                 PROVE  (\E k \in DOMAIN out : out[k] = <<j, n>>) \/ \E k \in DOMAIN queues'[j] : queues'[j][k] = <<j, n>>
      BY DEF NoneLost
    <3>1. CASE n \in 1..count[j]
      <4>1. (\E k \in DOMAIN out : out[k] = <<j, n>>) \/ \E k \in DOMAIN queues[j] : queues[j][k] = <<j, n>>
        BY <1>0, <3>1 DEF NoneLost
      <4>2. CASE j = i
        BY <2>0, <2>3, <4>1, <4>2
      <4>3. CASE j # i
        BY <2>1, <4>1, <4>3
      <4> QED  BY <4>2, <4>3
    <3>2. CASE <<j, n>> = e
      <4>1. j = i
        BY <1>1, <3>2
      <4> QED  BY <2>0, <2>3, <3>2, <4>1
    <3> QED  BY <1>5, <3>1, <3>2
  <2>a. queues'[a] = queues[a] /\ UNCHANGED <<out, crashed>>
    BY <1>0, <1>7, <2>1
  <2> QED  BY <1>1, <2>4, <2>6, <2>8, <2>9, <2>a, StillRuns
<1> QED  BY <1>3, <1>6, <1>7

LEMMA CompleteRuns ==
  ASSUME ConcatTypes, Running, NEW i \in Sources, Concat!Complete(i)
  PROVE  Running'
<1> DEFINE m == subscriptions[i]
<1>1. /\ m \in Nat /\ m > 0 /\ flushing = 0 /\ (subscribed < Length => i = subscribed)
      /\ completed' = completed \cup {i} /\ completedStreams' = completedStreams \cup {i}
      /\ subscriptions' = [subscriptions EXCEPT ![i] = 0]
      /\ flushing' = (IF queues = <<>> THEN 0 ELSE m) /\ crashed' = (queues = <<>>)
      /\ UNCHANGED <<subscribed, queues, activeStreamIndex, leftOver, count, out>>
  BY DEF Concat!Complete, Concat!MayCall, ConcatTypes
<1>2. /\ subscribed \in Nat /\ subscribed <= Length /\ Length \in Nat /\ Sources = 1..Length /\ Length > 0
      /\ subscriptions \in [Sources -> Nat] /\ queues \in [Sources -> Seq(Events)]
  BY DEF ConcatTypes, Running
<1>3. queues # <<>>
  <2>1. DOMAIN queues = Sources /\ i \in Sources /\ DOMAIN <<>> = {}
    BY <1>2, NothingLives
  <2> QED  BY <2>1
<1>4. flushing' = m /\ flushing' # 0 /\ ~crashed'
  <2>1. flushing' = m /\ ~crashed'
    BY <1>1, <1>3, Zenon
  <2>2. m # 0
    BY <1>1
  <2> QED  BY <2>1, <2>2
<1> HIDE DEF m
<1>5. i \in 1..subscribed
  BY <1>1, <1>2
<1>6. completed' \subseteq 1..subscribed /\ completedStreams' = completed'
  BY <1>1, <1>5 DEF Running
<1>7. \A j \in Sources : subscriptions'[j] = IF j = i THEN 0 ELSE subscriptions[j]
  BY <1>1, <1>2
<1>8. \A j \in completed' : subscriptions'[j] = 0
  <2>1. \A j \in completed : subscriptions[j] = 0 /\ j \in Sources
    BY DEF Running, ConcatTypes
  <2> QED  BY <1>1, <1>7, <2>1
<1>9. ~leftOver => m <= 1 /\ \A j \in Sources : subscriptions'[j] <= 1 /\ (j > subscribed => subscriptions'[j] = 0)
  <2>1. ~leftOver => \A j \in Sources : subscriptions[j] <= 1 /\ (j > subscribed => subscriptions[j] = 0)
    BY DEF Running
  <2> QED  BY <1>7, <2>1 DEF m
<1>10. activeStreamIndex \in Sources /\ \A j \in 1..(activeStreamIndex - 1) : j \in completed'
  BY <1>1 DEF Running
<1>11. /\ Delivered(out, count, leftOver) /\ \A k \in DOMAIN out : out[k][1] <= activeStreamIndex
       /\ \A j \in Sources : Queued(j, queues[j], out, count, activeStreamIndex, leftOver)
       /\ \A j \in Sources : NoneLost(j, queues[j], out, count)
  BY DEF Running
<1>12. ~leftOver' => /\ flushing' <= 1
                     /\ \A j \in Sources : subscriptions'[j] <= 1 /\ (j > subscribed' => subscriptions'[j] = 0)
  BY <1>1, <1>4, <1>9
<1> QED  BY <1>1, <1>2, <1>4, <1>6, <1>8, <1>10, <1>11, <1>12 DEF Running

\* The first event in the queue of the active source goes to the listener.
LEMMA PassRuns ==
  ASSUME ConcatTypes, Running, flushing > 0, queues[activeStreamIndex] # <<>>,
         out' = Append(out, Head(queues[activeStreamIndex])),
         queues' = [queues EXCEPT ![activeStreamIndex] = Tail(queues[activeStreamIndex])],
         UNCHANGED <<subscribed, subscriptions, completedStreams, activeStreamIndex, flushing, crashed, leftOver,
                     count, completed>>
  PROVE  Running'
<1> DEFINE a == activeStreamIndex
           l == leftOver
           q == queues[a]
           e == Head(q)
           r == Tail(q)
<1>0. /\ Length \in Nat /\ Sources = 1..Length /\ a \in 1..Length
      /\ queues \in [Sources -> Seq(Events)] /\ count \in [Sources -> Nat] /\ out \in Seq(Events)
      /\ \A j \in Sources : Queued(j, queues[j], out, count, a, l)
      /\ \A j \in Sources : NoneLost(j, queues[j], out, count)
      /\ Ascends(out, l) /\ \A k \in DOMAIN out : Emitted(out[k], count) /\ out[k][1] <= a
  BY WhileRunning
<1>1. queues[a] = q /\ q \in Seq(Events) /\ q # <<>> /\ out' = Append(out, e) /\ queues' = [queues EXCEPT ![a] = r]
  BY <1>0
<1>2. /\ e \in Events /\ r \in Seq(Events) /\ Len(q) \in Nat /\ Len(r) = Len(q) - 1 /\ 1 \in DOMAIN q /\ e = q[1]
      /\ \A k \in DOMAIN r : r[k] = q[k + 1] /\ k + 1 \in DOMAIN q /\ 1 < k + 1
      /\ \A k \in DOMAIN q : k = 1 \/ (k - 1 \in DOMAIN r /\ r[k - 1] = q[k])
  <2>1. /\ e \in Events /\ r \in Seq(Events) /\ Len(q) \in Nat /\ Len(r) = Len(q) - 1 /\ Len(q) > 0
        /\ \A k \in 1..Len(r) : r[k] = q[k + 1]
        /\ e = q[1]
    BY <1>1
  <2>2. DOMAIN q = 1..Len(q) /\ DOMAIN r = 1..Len(r)
    BY <1>1, <2>1
  <2> DEFINE n == Len(q)
             o == Len(r)
  <2>3. n \in Nat /\ n > 0 /\ o = n - 1 /\ DOMAIN q = 1..n /\ DOMAIN r = 1..o /\ \A k \in 1..o : r[k] = q[k + 1]
    BY <2>1, <2>2
  <2> HIDE DEF n, o, q, r, e
  <2>4. 1 \in DOMAIN q /\ \A k \in DOMAIN r : r[k] = q[k + 1] /\ k + 1 \in DOMAIN q /\ 1 < k + 1
    BY <2>3
  <2>5. ASSUME NEW k \in DOMAIN q, k # 1 PROVE k - 1 \in DOMAIN r /\ r[k - 1] = q[k]
    <3>1. k - 1 \in 1..o /\ (k - 1) + 1 = k
      BY <2>3, <2>5
    <3> QED  BY <2>3, <3>1
  <2> QED  BY <2>1, <2>4, <2>5
<1> HIDE DEF q, e, r
<1>3. /\ Queued(a, q, out, count, a, l) /\ e[1] = a /\ Emitted(e, count)
      /\ \A k \in DOMAIN out : Precedes(out[k], e, l)
      /\ \A k \in DOMAIN r : Precedes(e, r[k], l)
  <2>1. Queued(a, q, out, count, a, l)
    BY <1>0, <1>1
  <2> QED  BY <1>2, <2>1 DEF Queued, Ascends
<1>4. ExtendedBy(out', out, 1, e)
  BY <1>0, <1>1, <1>2, AppendExtends
<1>5. /\ \A k \in DOMAIN out' : out'[k] = e \/ \E j \in DOMAIN out : out'[k] = out[j]
      /\ \A j \in DOMAIN out : j \in DOMAIN out' /\ out'[j] = out[j]
      /\ \E k \in DOMAIN out' : out'[k] = e
      /\ Ascends(out', l)
  <2> DEFINE m == 1
             o == out
             p == out'
             twice == leftOver
  <2>1. m \in Nat \ {0} /\ (m > 1 => twice) /\ ExtendedBy(p, o, m, e)
    BY <1>4
  <2>2. o \in Seq(Events) /\ e \in Events /\ Ascends(o, twice) /\ \A k \in DOMAIN o : Precedes(o[k], e, twice)
    BY <1>0, <1>2, <1>3
  <2> HIDE DEF m, o, p, twice
  <2>3. /\ \A k \in DOMAIN p : p[k] = e \/ \E j \in DOMAIN o : p[k] = o[j]
        /\ \A j \in DOMAIN o : j \in DOMAIN p /\ p[j] = o[j]
        /\ \E k \in DOMAIN p : p[k] = e
        /\ Ascends(p, twice)
    BY <2>1, <2>2, ExtendedHolds
  <2> QED  BY <2>3 DEF o, p, twice
<1>6. Delivered(out', count, l) /\ \A k \in DOMAIN out' : out'[k][1] <= a
  <2>1. \A k \in DOMAIN out' : Emitted(out'[k], count) /\ out'[k][1] <= a
    <3>1. a <= a
      BY <1>0
    <3> QED  BY <1>0, <1>3, <1>5, <3>1
  <2> QED  BY <1>5, <2>1 DEF Delivered
<1>7. /\ queues' \in [Sources -> Seq(Events)] /\ queues'[a] = r
      /\ \A j \in Sources : j # a => queues'[j] = queues[j]
  BY <1>0, <1>1, <1>2
<1>8. Queued(a, r, out', count, a, l)
  <2>1. Ascends(r, l)
    <3> SUFFICES ASSUME NEW j \in DOMAIN r, NEW k \in DOMAIN r, j < k PROVE Precedes(r[j], r[k], l)
      BY DEF Ascends
    <3>1. j + 1 \in DOMAIN q /\ k + 1 \in DOMAIN q /\ r[j] = q[j + 1] /\ r[k] = q[k + 1]
      BY <1>2
    <3>2. j + 1 < k + 1
      <4>1. j \in Int /\ k \in Int
        <5>1. DOMAIN r = 1..Len(r)
          BY <1>2
        <5> QED  BY <5>1
      <4> QED  BY <4>1
    <3> QED  BY <1>3, <3>1, <3>2 DEF Queued, Ascends
  <2>2. \A k \in DOMAIN r : r[k][1] = a /\ Emitted(r[k], count)
    BY <1>2, <1>3 DEF Queued
  <2>3. \A j \in DOMAIN out', k \in DOMAIN r : Precedes(out'[j], r[k], l)
    <3> SUFFICES ASSUME NEW j \in DOMAIN out', NEW k \in DOMAIN r PROVE Precedes(out'[j], r[k], l)
      OBVIOUS
    <3>1. CASE out'[j] = e
      BY <1>3, <3>1
    <3>2. CASE \E h \in DOMAIN out : out'[j] = out[h]
      <4>1. k + 1 \in DOMAIN q /\ r[k] = q[k + 1]
        BY <1>2
      <4> QED  BY <1>3, <3>2, <4>1 DEF Queued
    <3> QED  BY <1>5, <3>1, <3>2
  <2>4. ~(a < a)
    BY <1>0
  <2> QED  BY <1>2, <2>1, <2>2, <2>3, <2>4 DEF Queued
<1>9. ASSUME NEW j \in Sources PROVE Queued(j, queues'[j], out', count, a, l)
  <2>1. CASE j = a
    BY <1>7, <1>8, <2>1
  <2>2. CASE j # a
    <3>1. Queued(j, queues[j], out, count, a, l) /\ queues'[j] = queues[j]
      BY <1>0, <1>7, <2>2
    <3>2. ASSUME NEW h \in DOMAIN out', NEW k \in DOMAIN queues[j] PROVE Precedes(out'[h], queues[j][k], l)
      <4>1. queues[j][k][1] = j
        BY <3>1 DEF Queued
      <4>2. ~(j < a)
        <5>1. DOMAIN <<>> = {}
          BY NothingLives, <1>0
        <5> QED  BY <3>1, <5>1 DEF Queued
      <4>3. a < j
        BY <1>0, <2>2, <4>2
      <4>4. CASE out'[h] = e
        BY <1>3, <4>1, <4>3, <4>4 DEF Precedes
      <4>5. CASE \E g \in DOMAIN out : out'[h] = out[g]
        BY <3>1, <4>5 DEF Queued
      <4> QED  BY <1>5, <4>4, <4>5
    <3> QED  BY <3>1, <3>2 DEF Queued
  <2> QED  BY <2>1, <2>2
<1>10. ASSUME NEW j \in Sources PROVE NoneLost(j, queues'[j], out', count)
  <2> SUFFICES ASSUME NEW n \in 1..count[j]
               PROVE  (\E k \in DOMAIN out' : out'[k] = <<j, n>>) \/ \E k \in DOMAIN queues'[j] : queues'[j][k] = <<j, n>>
    BY DEF NoneLost
  <2>1. (\E k \in DOMAIN out : out[k] = <<j, n>>) \/ \E k \in DOMAIN queues[j] : queues[j][k] = <<j, n>>
    BY <1>0 DEF NoneLost
  <2>2. CASE \E k \in DOMAIN out : out[k] = <<j, n>>
    BY <1>5, <2>2
  <2>3. CASE j # a
    BY <1>5, <1>7, <2>1, <2>3
  <2>4. CASE j = a /\ \E k \in DOMAIN q : q[k] = <<j, n>>
    <3>1. PICK k \in DOMAIN q : q[k] = <<j, n>>
      BY <2>4
    <3>2. CASE k = 1
      BY <1>2, <1>5, <3>1, <3>2
    <3>3. CASE k - 1 \in DOMAIN r /\ r[k - 1] = q[k]
      BY <1>7, <2>4, <3>1, <3>3
    <3> QED  BY <1>2, <3>2, <3>3
  <2> QED  BY <1>1, <2>1, <2>2, <2>3, <2>4
<1>11. flushing # 0 /\ count' = count
  BY DEF ConcatTypes
<1>12. /\ Delivered(out', count', l)
       /\ \A j \in Sources : Queued(j, queues'[j], out', count', a, l)
       /\ \A j \in Sources : NoneLost(j, queues'[j], out', count')
  BY <1>6, <1>9, <1>10, <1>11
<1> QED  BY <1>6, <1>7, <1>11, <1>12, StillRuns

\* The active source has completed, and the next one becomes active.
LEMMA AdvanceRuns ==
  ASSUME ConcatTypes, Running, flushing > 0, queues[activeStreamIndex] = <<>>,
         activeStreamIndex \in completedStreams, activeStreamIndex < Length,
         activeStreamIndex' = activeStreamIndex + 1,
         UNCHANGED <<subscribed, subscriptions, queues, completedStreams, flushing, crashed, leftOver,
                     count, completed, out>>
  PROVE  Running'
<1> DEFINE a == activeStreamIndex
           b == a + 1
<1>1. /\ Length \in Nat /\ Sources = 1..Length /\ a \in 1..Length /\ b \in Sources
      /\ \A j \in Sources : Queued(j, queues[j], out, count, a, leftOver)
      /\ \A k \in DOMAIN out : Emitted(out[k], count) /\ out[k][1] <= a
      /\ \A j \in 1..(a - 1) : j \in completed
  <2>1. a < Length
    OBVIOUS
  <2> QED  BY <2>1, WhileRunning
<1>2. a \in completed /\ flushing # 0
  BY DEF Running, ConcatTypes
<1>3. ASSUME NEW j \in Sources PROVE Queued(j, queues[j], out, count, b, leftOver)
  <2>1. Queued(j, queues[j], out, count, a, leftOver)
    BY <1>1
  <2>2. j < b => j < a \/ j = a
    BY <1>1
  <2>3. j < b => queues[j] = <<>>
    BY <2>1, <2>2 DEF Queued
  <2> QED  BY <2>1, <2>3 DEF Queued
<1>4. \A k \in DOMAIN out : out[k][1] <= b
  BY <1>1 DEF Emitted
<1>5. \A j \in 1..(b - 1) : j \in completed
  BY <1>1, <1>2
<1>6. activeStreamIndex' = b
  OBVIOUS
<1> HIDE DEF b
<1>7. /\ ~crashed' /\ Length > 0 /\ queues' \in [Sources -> Seq(Events)]
      /\ completedStreams' = completed' /\ completed' \subseteq 1..subscribed'
      /\ \A i \in completed' : subscriptions'[i] = 0
      /\ Delivered(out', count', leftOver')
      /\ \A i \in Sources : NoneLost(i, queues'[i], out', count')
      /\ flushing' # 0
      /\ ~leftOver' => /\ flushing' <= 1
                       /\ \A i \in Sources : subscriptions'[i] <= 1 /\ (i > subscribed' => subscriptions'[i] = 0)
  BY <1>2 DEF Running
<1>8. /\ activeStreamIndex' \in Sources /\ \A j \in 1..(activeStreamIndex' - 1) : j \in completed'
      /\ \A k \in DOMAIN out' : out'[k][1] <= activeStreamIndex'
      /\ \A i \in Sources : Queued(i, queues'[i], out', count', activeStreamIndex', leftOver')
  BY <1>1, <1>3, <1>4, <1>5, <1>6
<1> QED  BY <1>7, <1>8 DEF Running

\* The last source has completed.
LEMMA FinishEnds ==
  ASSUME ConcatTypes, Running, flushing > 0, queues[activeStreamIndex] = <<>>,
         activeStreamIndex \in completedStreams, activeStreamIndex = Length,
         flushing' = 0, Concat!reset, crashed' = (flushing > 1),
         UNCHANGED <<subscribed, leftOver, count, completed, out>>
  PROVE  Ended' /\ (crashed' => leftOver')
<1>1. /\ Length \in Nat /\ Length > 0 /\ Sources = 1..Length
      /\ \A j \in Sources : Queued(j, queues[j], out, count, Length, leftOver)
      /\ \A j \in Sources : NoneLost(j, queues[j], out, count)
      /\ \A j \in 1..(Length - 1) : j \in completed
  BY WhileRunning DEF Running
<1>2. Length \in completed /\ completed \subseteq 1..subscribed /\ Delivered(out, count, leftOver)
  BY DEF Running
<1>3. Sources \subseteq completed
  <2>1. \A j \in 1..Length : j \in 1..(Length - 1) \/ j = Length
    BY <1>1
  <2> QED  BY <1>1, <1>2, <2>1
<1>4. subscribed = Length
  BY <1>1, <1>2 DEF ConcatTypes
<1>5. \A i \in Sources : \A n \in 1..count[i] : \E k \in DOMAIN out : out[k] = <<i, n>>
  <2> SUFFICES ASSUME NEW i \in Sources, NEW n \in 1..count[i] PROVE \E k \in DOMAIN out : out[k] = <<i, n>>
    OBVIOUS
  <2>1. i < Length \/ i = Length
    BY <1>1
  <2>2. queues[i] = <<>>
    BY <1>1, <2>1 DEF Queued
  <2>3. DOMAIN <<>> = {}
    BY <1>1, NothingLives
  <2> QED  BY <1>1, <2>2, <2>3 DEF NoneLost
<1>6. crashed' => leftOver'
  <2>1. ~leftOver => flushing <= 1
    BY DEF Running
  <2> QED  BY <2>1 DEF ConcatTypes
<1>7. Stopped' /\ NoneLive'
  BY <1>1, NothingLives DEF Stopped, NoneLive, Concat!reset
<1> QED  BY <1>2, <1>3, <1>4, <1>5, <1>6, <1>7 DEF Ended

\* A handler of the source that has completed is through.
LEMMA FlushKeeps ==
  ASSUME ConcatTypes, Running, flushing > 0, queues[activeStreamIndex] = <<>>,
         activeStreamIndex \notin completedStreams, flushing' = flushing - 1,
         UNCHANGED <<subscribed, subscriptions, queues, completedStreams, activeStreamIndex, crashed, leftOver,
                     count, completed, out>>
  PROVE  Running'
<1>1. flushing \in Nat
  BY DEF ConcatTypes
<1>2. ~leftOver' => /\ flushing' <= 1
                    /\ \A i \in Sources : subscriptions'[i] <= 1 /\ (i > subscribed' => subscriptions'[i] = 0)
  BY <1>1 DEF Running
<1>3. activeStreamIndex' \notin completed' /\ queues'[activeStreamIndex'] = <<>>
  BY DEF Running
<1>4. /\ ~crashed' /\ Length > 0 /\ queues' \in [Sources -> Seq(Events)]
      /\ completedStreams' = completed' /\ completed' \subseteq 1..subscribed'
      /\ \A i \in completed' : subscriptions'[i] = 0
      /\ activeStreamIndex' \in Sources /\ \A j \in 1..(activeStreamIndex' - 1) : j \in completed'
  BY DEF Running
<1>5. /\ Delivered(out', count', leftOver') /\ \A k \in DOMAIN out' : out'[k][1] <= activeStreamIndex'
      /\ \A i \in Sources : Queued(i, queues'[i], out', count', activeStreamIndex', leftOver')
      /\ \A i \in Sources : NoneLost(i, queues'[i], out', count')
  BY DEF Running
<1> QED  BY <1>2, <1>3, <1>4, <1>5 DEF Running

LEMMA FailBreaks ==
  ASSUME ConcatTypes, NEW i \in Sources, Concat!Fail(i)
  PROVE  phase' \in {"failed", "cut"} /\ Broken' /\ (crashed' => leftOver')
<1>1. /\ subscriptions[i] > 0 /\ flushing' = 0 /\ (subscribed < Length => i = subscribed)
      /\ subscribed' = subscribed /\ Concat!reset /\ phase' \in {"failed", "cut"}
      /\ leftOver' = (subscribed < Length \/ crashed')
  BY DEF Concat!Fail, Concat!MayCall
<1>2. /\ Sources = 1..Length /\ Length \in Nat /\ subscribed \in Nat /\ subscribed <= Length /\ i \in 1..Length
  BY DEF ConcatTypes
<1>3. subscribed > 0 /\ 1 \in Sources /\ (~leftOver' => subscribed = Length)
  <2>1. ~leftOver' => ~(subscribed < Length)
    BY <1>1, Zenon
  <2>2. (subscribed < Length => i = subscribed) /\ i >= 1
    BY <1>1, <1>2
  <2>3. subscribed > 0 /\ 1 \in Sources
    BY <1>2, <2>2
  <2> QED  BY <1>2, <2>1, <2>3
<1>4. /\ Concat!Nothing \in [Sources -> Nat] /\ \A j \in Sources : Concat!Nothing[j] = 0
      /\ subscriptions' = Concat!Nothing /\ queues' = <<>> /\ completedStreams' = {} /\ activeStreamIndex' = 1
  BY <1>1, <1>2, NothingLives DEF Concat!reset
<1> QED  BY <1>1, <1>3, <1>4 DEF Broken, Stopped, NoneLive

\* After a failure start() may go on to subscribe; whoever is subscribed then
\* finds neither its queue nor itself active.
LEMMA BrokenStays ==
  ASSUME ConcatTypes, Broken, NEW i \in Sources,
         Concat!Subscribe \/ Concat!Emit(i) \/ Concat!Complete(i)
  PROVE  Broken' /\ leftOver' /\ phase' = phase
<1>1. /\ queues = <<>> /\ activeStreamIndex = 1 /\ flushing = 0 /\ (~crashed => completedStreams = {})
      /\ subscribed > 0 /\ subscriptions[1] = 0
      /\ ~leftOver => subscribed = Length /\ NoneLive
  BY DEF Broken, Stopped
<1>2. /\ Sources = 1..Length /\ Length \in Nat /\ subscribed \in Nat /\ subscriptions \in [Sources -> Nat]
      /\ 1 \in Sources /\ DOMAIN <<>> = {}
  BY NothingLives DEF ConcatTypes
<1>3. CASE Concat!Subscribe
  <2>1. /\ subscribed < Length /\ subscribed' = subscribed + 1 /\ ~crashed
        /\ subscriptions' = [subscriptions EXCEPT ![subscribed + 1] = subscriptions[subscribed + 1] + 1]
        /\ UNCHANGED <<phase, queues, completedStreams, activeStreamIndex, flushing, crashed, leftOver>>
    BY <1>3 DEF Concat!Subscribe
  <2>2. leftOver /\ subscribed + 1 # 1 /\ subscribed' > 0
    BY <1>1, <1>2, <2>1
  <2>3. subscriptions'[1] = 0
    BY <1>1, <1>2, <2>1, <2>2
  <2> QED  BY <1>1, <2>1, <2>2, <2>3 DEF Broken, Stopped
<1>4. CASE Concat!Emit(i)
  <2>1. subscriptions[i] > 0 /\ UNCHANGED <<phase, subscribed, subscriptions, completedStreams, activeStreamIndex, flushing, leftOver>>
    BY <1>4 DEF Concat!Emit, Concat!MayCall
  <2>2. i # 1 /\ leftOver
    BY <1>1, <1>2, <2>1 DEF NoneLive
  <2>3. crashed' = TRUE /\ queues' = queues
    BY <1>1, <1>2, <1>4, <2>2 DEF Concat!Emit
  <2> QED  BY <1>1, <2>1, <2>2, <2>3 DEF Broken, Stopped
<1>5. CASE Concat!Complete(i)
  <2>1. /\ subscriptions[i] > 0 /\ subscriptions' = [subscriptions EXCEPT ![i] = 0] /\ flushing' = 0 /\ crashed' = TRUE
        /\ UNCHANGED <<phase, subscribed, queues, activeStreamIndex, leftOver>>
    BY <1>1, <1>5 DEF Concat!Complete, Concat!MayCall
  <2>2. leftOver /\ subscriptions'[1] = 0
    BY <1>1, <1>2, <2>1 DEF NoneLive
  <2> QED  BY <1>1, <2>1, <2>2 DEF Broken, Stopped
<1> QED  BY <1>3, <1>4, <1>5

LEMMA ConcatBegins == Concat!Init => ConcatInv
<1> SUFFICES ASSUME Concat!Init PROVE ConcatInv
  OBVIOUS
<1>1. /\ Length \in Nat /\ Sources = 1..Length /\ Concat!Sources = 1..Length
      /\ Concat!Nothing \in [Sources -> Nat] /\ \A i \in Sources : Concat!Nothing[i] = 0
      /\ DOMAIN <<>> = {} /\ <<>> \in Seq(Events)
  BY LengthAssumption, NothingLives DEF LengthAssumption, Sources, Concat!Sources
<1>2. Concat!TypeOK
  <2>1. crashed \in BOOLEAN /\ leftOver \in BOOLEAN /\ count \in [Sources -> Nat] /\ subscriptions \in [Sources -> Nat]
    BY <1>1 DEF Concat!Init
  <2>2. /\ phase = "idle" /\ subscribed \in 0..Length /\ queues = <<>> /\ completedStreams = {}
        /\ activeStreamIndex = 1 /\ flushing = 0 /\ completed = {} /\ out = <<>>
    BY <1>1 DEF Concat!Init
  <2> QED  BY <1>1, <2>1, <2>2 DEF Concat!TypeOK, Events
<1> QED  BY <1>1, <1>2 DEF Concat!Init, ConcatInv, Stopped, NoneLive

LEMMA ConcatStep == ConcatInv /\ [Concat!Next]_concat => ConcatInv'
<1> SUFFICES ASSUME ConcatInv, [Concat!Next]_concat PROVE ConcatInv'
  OBVIOUS
<1>0. /\ ConcatTypes /\ Concat!TypeOK' /\ (crashed => leftOver)
      /\ phase = "idle" => Stopped /\ NoneLive
      /\ phase = "on" => Running
      /\ phase = "done" => Ended
      /\ phase \in {"failed", "cut"} => Broken
      /\ phase \in {"idle", "on", "done", "failed", "cut"}
  BY TypesOfConcat, ConcatTypesKept DEF ConcatInv, ConcatTypes
<1>r. Running => ~crashed
  BY DEF Running
<1>t. flushing > 0 => Running
  BY <1>0 DEF Ended, Broken, Stopped, ConcatTypes
<1>1. CASE Concat!Start
  <2>1. (phase' = "on" /\ Running') \/ (phase' = "done" /\ Ended' /\ (crashed' => leftOver'))
    BY <1>1, StartsRight
  <2>2. Running' => ~crashed'
    BY DEF Running
  <2> QED  BY <1>0, <2>1, <2>2 DEF ConcatInv
<1>2. ASSUME NEW i \in Sources, Concat!Subscribe \/ Concat!Emit(i) \/ Concat!Complete(i) PROVE ConcatInv'
  <2>1. CASE phase = "on"
    <3>1. phase' = "on"
      BY <1>2, <2>1 DEF Concat!Subscribe, Concat!Emit, Concat!Complete
    <3>2. Running'
      BY <1>0, <1>2, <2>1, SubscribeRuns, EmitRuns, CompleteRuns
    <3>3. ~crashed'
      BY <3>2 DEF Running
    <3> QED  BY <1>0, <3>1, <3>2, <3>3 DEF ConcatInv
  <2>2. CASE phase \in {"failed", "cut"}
    <3>1. Broken' /\ leftOver' /\ phase' = phase
      BY <1>0, <1>2, <2>2, BrokenStays
    <3> QED  BY <1>0, <2>2, <3>1 DEF ConcatInv
  <2>3. CASE phase \in {"idle", "done"}
    <3>1. subscriptions[i] = 0
      BY <1>0, <2>3 DEF Ended, NoneLive
    <3> QED  BY <1>2, <2>3, <3>1 DEF Concat!Subscribe, Concat!Emit, Concat!Complete, Concat!MayCall
  <2> QED  BY <1>0, <2>1, <2>2, <2>3
<1>3. ASSUME NEW i \in Sources, Concat!Fail(i) PROVE ConcatInv'
  <2>1. phase' \in {"failed", "cut"} /\ Broken' /\ (crashed' => leftOver')
    BY <1>0, <1>3, FailBreaks
  <2> QED  BY <1>0, <2>1 DEF ConcatInv
<1>4. CASE Concat!Leave
  <2>1. /\ phase' = "idle" /\ flushing' = 0 /\ ~crashed' /\ Concat!reset
    BY <1>4 DEF Concat!Leave
  <2>2. Stopped' /\ NoneLive'
    <3>1. \A j \in Sources : Concat!Nothing[j] = 0
      BY <1>0, NothingLives DEF ConcatTypes
    <3> QED  BY <2>1, <3>1 DEF Stopped, NoneLive, Concat!reset
  <2> QED  BY <1>0, <2>1, <2>2 DEF ConcatInv
<1>5. CASE Concat!Flush
  <2> DEFINE a == activeStreamIndex
  <2>0. flushing > 0 /\ Running /\ ConcatTypes /\ phase = "on" /\ UNCHANGED <<subscribed, leftOver, count, completed>>
    <3>1. flushing > 0 /\ UNCHANGED <<subscribed, leftOver, count, completed>>
      BY <1>5 DEF Concat!Flush
    <3>2. phase = "on"
      BY <1>0, <3>1 DEF Ended, Broken, Stopped, ConcatTypes
    <3> QED  BY <1>0, <3>1, <3>2
  <2>1. Running' /\ phase' = "on" => ConcatInv'
    <3>1. Running' => ~crashed'
      BY DEF Running
    <3> QED  BY <1>0, <3>1 DEF ConcatInv
  <2>2. CASE /\ queues[a] # <<>> /\ out' = Append(out, Head(queues[a])) /\ queues' = [queues EXCEPT ![a] = Tail(queues[a])]
             /\ UNCHANGED <<phase, subscriptions, completedStreams, activeStreamIndex, flushing, crashed>>
    BY <2>0, <2>1, <2>2, PassRuns
  <2>3. CASE /\ queues[a] = <<>> /\ a \in completedStreams /\ a < Length /\ activeStreamIndex' = a + 1
             /\ UNCHANGED <<phase, subscriptions, queues, completedStreams, flushing, crashed, out>>
    BY <2>0, <2>1, <2>3, AdvanceRuns
  <2>4. CASE /\ queues[a] = <<>> /\ a \in completedStreams /\ a = Length
             /\ phase' = "done" /\ flushing' = 0 /\ Concat!reset /\ crashed' = (flushing > 1) /\ UNCHANGED out
    <3>1. Ended' /\ (crashed' => leftOver')
      BY <2>0, <2>4, FinishEnds
    <3> QED  BY <1>0, <2>4, <3>1 DEF ConcatInv
  <2>5. CASE /\ queues[a] = <<>> /\ a \notin completedStreams /\ flushing' = flushing - 1
             /\ UNCHANGED <<phase, subscriptions, queues, completedStreams, activeStreamIndex, crashed, out>>
    BY <2>0, <2>1, <2>5, FlushKeeps
  <2> QED  BY <1>5, <2>2, <2>3, <2>4, <2>5 DEF Concat!Flush
<1>6. CASE UNCHANGED concat
  <2>1. /\ Running => Running'
        /\ Ended => Ended'
        /\ Broken => Broken'
        /\ Stopped /\ NoneLive => Stopped' /\ NoneLive'
    BY <1>6 DEF concat, Running, Ended, Broken, Stopped, NoneLive
  <2> QED  BY <1>0, <1>6, <2>1 DEF concat, ConcatInv
<1>7. CASE Concat!Subscribe
  <2>1. subscribed < Length /\ subscribed \in Nat /\ Length \in Nat /\ Sources = 1..Length
    BY <1>0, <1>7 DEF Concat!Subscribe, ConcatTypes
  <2>2. 1 \in Sources
    BY <2>1
  <2> QED  BY <1>2, <1>7, <2>2
<1> QED  BY <1>1, <1>2, <1>3, <1>4, <1>5, <1>6, <1>7 DEF Concat!Next, Sources

\* With the queue of the active source empty, what came from sources up to it
\* has all reached the listener.
LEMMA ConcatShown == ConcatInv => Concat!ConcatIsFaithful
<1> SUFFICES ASSUME ConcatInv PROVE Concat!ConcatIsFaithful
  OBVIOUS
<1>0. /\ ConcatTypes /\ (crashed => leftOver)
      /\ phase = "idle" => Stopped /\ NoneLive
      /\ phase = "on" => Running
      /\ phase = "done" => Ended
      /\ phase \in {"failed", "cut"} => Broken
      /\ phase \in {"idle", "on", "done", "failed", "cut"}
  BY TypesOfConcat DEF ConcatInv, ConcatTypes
<1>1. Sources = 1..Length /\ Length \in Nat /\ count \in [Sources -> Nat] /\ Sources = Concat!Sources /\ out \in Seq(Events)
  BY <1>0 DEF ConcatTypes, Sources
<1>2. Concat!Listened => Ascends(out, leftOver) /\ \A k \in DOMAIN out : Emitted(out[k], count)
  BY <1>0 DEF Concat!Listened, Running, Ended, Delivered
<1>3. Concat!ConcatInOrder
  <2> SUFFICES ASSUME Concat!Listened PROVE
        /\ \A j, k \in DOMAIN out : j < k =>
             \/ out[j][1] < out[k][1]
             \/ out[j][1] = out[k][1] /\ out[j][2] <= out[k][2]
        /\ \A k \in DOMAIN out : out[k][2] \in 1..count[out[k][1]]
    BY DEF Concat!ConcatInOrder
  <2>1. \A k \in DOMAIN out : out[k][2] \in 1..count[out[k][1]] /\ out[k][2] \in Int
    BY <1>1, <1>2 DEF Emitted
  <2>2. ASSUME NEW j \in DOMAIN out, NEW k \in DOMAIN out, j < k
        PROVE  out[j][1] < out[k][1] \/ (out[j][1] = out[k][1] /\ out[j][2] <= out[k][2])
    <3>1. Precedes(out[j], out[k], leftOver)
      BY <1>2, <2>2 DEF Ascends
    <3> QED  BY <2>1, <3>1 DEF Precedes
  <2> QED  BY <2>1, <2>2
<1>4. ASSUME phase = "on", flushing = 0
      PROVE  /\ \A i \in Sources : (\A j \in 1..(i - 1) : j \in completed) =>
                  \A n \in 1..count[i] : \E k \in DOMAIN out : out[k] = <<i, n>>
             /\ ~(Sources \subseteq completed)
  <2>1. /\ Length \in Nat /\ Sources = 1..Length /\ activeStreamIndex \in 1..Length
        /\ activeStreamIndex \notin completed /\ queues[activeStreamIndex] = <<>>
        /\ \A j \in Sources : Queued(j, queues[j], out, count, activeStreamIndex, leftOver)
        /\ \A j \in Sources : NoneLost(j, queues[j], out, count)
    <3>1. Running
      BY <1>0, <1>4
    <3>2. activeStreamIndex \notin completed /\ queues[activeStreamIndex] = <<>>
      BY <1>4, <3>1 DEF Running
    <3> QED  BY <1>0, <3>1, <3>2, WhileRunning
  <2>2. ASSUME NEW i \in Sources, \A j \in 1..(i - 1) : j \in completed, NEW n \in 1..count[i]
        PROVE  \E k \in DOMAIN out : out[k] = <<i, n>>
    <3>1. ~(activeStreamIndex < i)
      BY <2>1, <2>2
    <3>2. i < activeStreamIndex \/ i = activeStreamIndex
      BY <2>1, <3>1
    <3>3. queues[i] = <<>>
      BY <2>1, <3>2 DEF Queued
    <3>4. DOMAIN <<>> = {}
      BY <2>1, NothingLives
    <3> QED  BY <2>1, <3>3, <3>4 DEF NoneLost
  <2> QED  BY <2>1, <2>2
<1>5. Concat!ConcatForwards
  BY <1>0, <1>1, <1>4 DEF Concat!ConcatForwards, Concat!Listened, Concat!Ready, Ended
<1>6. Concat!ConcatEnds
  BY <1>0, <1>1, <1>4 DEF Concat!ConcatEnds, Concat!Listened, Ended
<1>7. ASSUME ~leftOver PROVE Concat!ConcatOnce
  <2> SUFFICES ASSUME Concat!Listened, NEW j \in DOMAIN out, NEW k \in DOMAIN out, j < k PROVE out[j] # out[k]
    BY DEF Concat!ConcatOnce
  <2>1. Precedes(out[j], out[k], leftOver) /\ out[k][1] \in Int /\ out[k][2] \in Int
    BY <1>1, <1>2 DEF Ascends, Emitted
  <2> QED  BY <1>7, <2>1 DEF Precedes
<1>8. ASSUME ~leftOver PROVE Concat!ConcatStops
  BY <1>0, <1>1, <1>8 DEF Concat!ConcatStops, Ended, Broken, NoneLive
<1> QED  BY <1>3, <1>5, <1>6, <1>7, <1>8 DEF Concat!ConcatIsFaithful
-----------------------------------------------------------------------------
(* Pagination.                                                                *)
UpTo(n) == [i \in 1..n |-> i]
DownFrom(n, top) == [i \in 1..n |-> top + 1 - i]
FirstOf(n, h) == [i \in 1..n |-> <<h, i>>]
First(n, w) == [i \in 1..n |-> w[i]]

\* Entries on the pages before this one.
Seen == (page - 1) * PageSize

PagesTypes ==
  /\ call.kind \in {"txs", "blocks", "validators", "codes", "contracts"}
  /\ call.kind \in Pages!Searches => call.order \in {"asc", "desc"} /\ call.page \in 0..2
  /\ call.kind = "validators" => call.height \in Nat
  /\ call.kind \in {"codes", "contracts"} => call.paginates \in BOOLEAN
  /\ status \in {"idle", "pending", "done", "failed"}
  /\ page \in Nat \ {0} /\ startAtKey \in Nat /\ blockHeight \in Nat
  /\ items \in Nat /\ height \in Nat \ {0}
  /\ before.items \in Nat /\ before.items <= items /\ before.height \in Nat /\ before.height <= height

Unasked == status = "idle" => acc = <<>> /\ startAtKey = Pages!Missing

\* A search from the first page has seen what is on the chain, or was when the
\* call was made if the order is descending.
Counted == call.kind \in Pages!Searches /\ call.page < 2 /\ (call.order = "asc" \/ ~Pages!Grew)
Listed(n) == IF call.order = "asc" THEN UpTo(n) ELSE DownFrom(n, items)
Searching == status = "pending" /\ Counted => Seen <= items /\ acc = Listed(Seen)

\* The block is chosen on the first page.
Validating ==
  (status = "pending" /\ call.kind = "validators") =>
    /\ Seen <= Validators /\ acc = FirstOf(Seen, blockHeight)
    /\ blockHeight = 0 => page = 1 /\ call.height = 0
    /\ call.height # 0 => blockHeight = call.height
    /\ blockHeight # 0 /\ call.height = 0 => blockHeight >= before.height

Keying ==
  (status = "pending" /\ call.kind \in {"codes", "contracts"}) =>
    /\ call.paginates => startAtKey > 0 /\ startAtKey - 1 <= items /\ acc = UpTo(startAtKey - 1)
    /\ ~call.paginates => startAtKey = Pages!Missing
    /\ ~call.paginates /\ call.kind = "contracts" => acc = <<>>

PagesInv ==
  PagesTypes /\ Unasked /\ Searching /\ Validating /\ Keying
    /\ Pages!SearchIsComplete /\ Pages!ValidatorsOfOneBlock /\ Pages!KeysAreComplete

\* The last entry of the page that comes after k entries of n.
PageEnd(k, n) == IF k + PageSize <= n THEN k + PageSize ELSE n

LEMMA NextPage ==
  ASSUME NEW S, NEW n \in Nat, NEW w \in Seq(S), Len(w) = n, NEW k \in 0..n
  PROVE  /\ PageEnd(k, n) \in 0..n
         /\ First(k, w) \o Pages!Slice(w, k + 1) = First(PageEnd(k, n), w)
         /\ Len(First(PageEnd(k, n), w)) = PageEnd(k, n)
<1> DEFINE a == First(k, w)
           m == PageEnd(k, n)
<1>0. PageSize \in Nat \ {0}
  BY PaginationAssumption DEF PaginationAssumption
<1>1. w \in Seq(S) /\ Len(w) = n /\ \A i \in 1..n : w[i] \in S
  BY LenProperties
<1>2. a \in Seq(S) /\ Len(a) = k /\ \A i \in 1..k : a[i] = w[i]
  <2>1. a \in [1..k -> S] /\ \A i \in 1..k : a[i] = w[i]
    BY <1>1 DEF First
  <2> HIDE DEF a
  <2> QED  BY <2>1
<1> HIDE DEF a, m
<1>3. m \in Nat /\ m <= n /\ k <= m
  BY <1>0 DEF PageEnd, m
<1> DEFINE b == SubSeq(w, k + 1, m)
<1>4. Pages!Slice(w, k + 1) = b
  <2>1. (IF (k + 1) + PageSize > n THEN n ELSE (k + 1) + PageSize - 1) = m
    BY <1>0 DEF PageEnd, m
  <2> QED  BY <1>1, <2>1 DEF Pages!Slice
<1>5. b \in Seq(S) /\ Len(b) = m - k /\ \A i \in 1..(m - k) : b[i] = w[k + i]
  <2>1. \A i \in (k + 1)..m : w[i] \in S
    BY <1>1, <1>3
  <2>2. /\ b \in Seq(S) /\ Len(b) = (IF k + 1 <= m THEN m - (k + 1) + 1 ELSE 0)
        /\ \A i \in 1..(m - (k + 1) + 1) : b[i] = w[(k + 1) + i - 1]
    <3>1. k + 1 \in Int /\ m \in Int
      BY <1>3
    <3> QED  BY <2>1, <3>1, SubSeqProperties
  <2> HIDE DEF b
  <2>3. m - (k + 1) + 1 = m - k /\ \A i \in 1..(m - k) : (k + 1) + i - 1 = k + i
    BY <1>3
  <2>4. Len(b) = m - k
    BY <1>3, <2>2
  <2> QED  BY <2>2, <2>3, <2>4
<1> HIDE DEF b
<1>6. /\ a \o b \in Seq(S) /\ Len(a \o b) = m
      /\ \A i \in 1..m : (a \o b)[i] = IF i <= k THEN a[i] ELSE b[i - k]
  <2>1. /\ a \o b \in Seq(S) /\ Len(a \o b) = Len(a) + Len(b)
        /\ \A i \in 1..(Len(a) + Len(b)) : (a \o b)[i] = IF i <= Len(a) THEN a[i] ELSE b[i - Len(a)]
    <3>1. a \in Seq(S) /\ b \in Seq(S)
      BY <1>2, <1>5
    <3> QED  BY <3>1, ConcatProperties
  <2>2. Len(a) = k /\ Len(a) + Len(b) = m
    BY <1>2, <1>3, <1>5
  <2> QED  BY <2>1, <2>2
<1>7. ASSUME NEW i \in 1..m PROVE (a \o b)[i] = w[i]
  <2>1. CASE i <= k
    BY <1>2, <1>3, <1>6, <2>1
  <2>2. CASE ~(i <= k)
    <3>1. i - k \in 1..(m - k) /\ k + (i - k) = i
      BY <1>3, <2>2
    <3> QED  BY <1>5, <1>6, <2>2, <3>1
  <2> QED  BY <2>1, <2>2
<1>8. a \o b = [i \in 1..m |-> w[i]]
  <2>1. a \o b = [i \in 1..m |-> (a \o b)[i]]
    BY <1>3, <1>6, LenProperties
  <2> QED  BY <1>7, <2>1
<1>9. First(m, w) = a \o b
  BY <1>8 DEF First
<1> QED  BY <1>3, <1>4, <1>6, <1>9 DEF a, m

\* Sorting what a search for blocks has got.
LEMMA SortsUp ==
  ASSUME NEW n \in Nat
  PROVE  Pages!Ascending(UpTo(n)) = UpTo(n)
<1> DEFINE s == UpTo(n)
           smaller(i) == {j \in DOMAIN s : s[j] < s[i] \/ (s[j] = s[i] /\ j < i)}
<1>1. DOMAIN s = 1..n /\ \A i \in 1..n : s[i] = i
  BY DEF UpTo
<1>2. ASSUME NEW i \in 1..n PROVE Cardinality(smaller(i)) = i - 1
  <2>1. smaller(i) = 1..(i - 1)
    BY <1>1
  <2> HIDE DEF smaller
  <2>2. Cardinality(1..(i - 1)) = i - 1
    BY FS_Interval
  <2> QED  BY <2>1, <2>2
<1> HIDE DEF s, smaller
<1>3. ASSUME NEW k \in 1..n
      PROVE  s[CHOOSE i \in DOMAIN s : Cardinality(smaller(i)) = k - 1] = k
  <2> DEFINE c == CHOOSE i \in DOMAIN s : Cardinality(smaller(i)) = k - 1
  <2>1. k \in DOMAIN s /\ Cardinality(smaller(k)) = k - 1
    BY <1>1, <1>2
  <2>2. c \in 1..n /\ Cardinality(smaller(c)) = k - 1
    BY <1>1, <2>1
  <2> HIDE DEF c
  <2>3. c - 1 = k - 1
    BY <1>2, <2>2
  <2>4. c = k
    BY <2>2, <2>3
  <2>5. s[c] = k
    BY <1>1, <2>4
  <2> QED  BY <2>5 DEF c
<1>4. Pages!Ascending(s) = [k \in DOMAIN s |-> s[CHOOSE i \in DOMAIN s : Cardinality(smaller(i)) = k - 1]]
  BY Zenon DEF Pages!Ascending, smaller, Pages!Cardinality, Cardinality
<1>5. Pages!Ascending(s) = [k \in 1..n |-> k]
  BY <1>1, <1>3, <1>4
<1> QED  BY <1>5 DEF s, UpTo

LEMMA SortsDown ==
  ASSUME NEW n \in Nat
  PROVE  Pages!Ascending(DownFrom(n, n)) = UpTo(n)
<1> DEFINE s == DownFrom(n, n)
           smaller(i) == {j \in DOMAIN s : s[j] < s[i] \/ (s[j] = s[i] /\ j < i)}
<1>1. DOMAIN s = 1..n /\ \A i \in 1..n : s[i] = n + 1 - i
  BY DEF DownFrom
<1>2. ASSUME NEW i \in 1..n PROVE Cardinality(smaller(i)) = n - i
  <2>1. smaller(i) = (i + 1)..n
    BY <1>1
  <2> HIDE DEF smaller
  <2>2. Cardinality((i + 1)..n) = n - i
    BY FS_Interval
  <2> QED  BY <2>1, <2>2
<1> HIDE DEF s, smaller
<1>3. ASSUME NEW k \in 1..n
      PROVE  s[CHOOSE i \in DOMAIN s : Cardinality(smaller(i)) = k - 1] = k
  <2> DEFINE c == CHOOSE i \in DOMAIN s : Cardinality(smaller(i)) = k - 1
  <2>1. (n + 1 - k) \in DOMAIN s /\ Cardinality(smaller(n + 1 - k)) = k - 1
    <3>1. (n + 1 - k) \in 1..n /\ n - (n + 1 - k) = k - 1
      OBVIOUS
    <3> QED  BY <1>1, <1>2, <3>1
  <2>2. c \in 1..n /\ Cardinality(smaller(c)) = k - 1
    BY <1>1, <2>1
  <2> HIDE DEF c
  <2>3. n - c = k - 1
    BY <1>2, <2>2
  <2>4. c = n + 1 - k
    BY <2>2, <2>3
  <2>5. s[c] = k
    BY <1>1, <2>2, <2>4
  <2> QED  BY <2>5 DEF c
<1>4. Pages!Ascending(s) = [k \in DOMAIN s |-> s[CHOOSE i \in DOMAIN s : Cardinality(smaller(i)) = k - 1]]
  BY Zenon DEF Pages!Ascending, smaller, Pages!Cardinality, Cardinality
<1>5. Pages!Ascending(s) = [k \in 1..n |-> k]
  BY <1>1, <1>3, <1>4
<1> QED  BY <1>5 DEF s, UpTo

LEMMA PagesBegin == Pages!Init => PagesInv
<1> SUFFICES ASSUME Pages!Init PROVE PagesInv
  OBVIOUS
<1>1. /\ call \in Pages!Questions /\ status = "idle" /\ page = 1 /\ startAtKey = 1 /\ blockHeight = 0 /\ acc = <<>>
      /\ items \in 0..MaxItems /\ height = 1 /\ before = [items |-> 0, height |-> 0]
  BY DEF Pages!Init, Pages!Missing
<1>2. PagesTypes
  <2>1. /\ call.kind \in {"txs", "blocks", "validators", "codes", "contracts"}
        /\ call.kind \in Pages!Searches => call.order \in {"asc", "desc"} /\ call.page \in 0..2
        /\ call.kind = "validators" => call.height \in Nat
        /\ call.kind \in {"codes", "contracts"} => call.paginates \in BOOLEAN
    BY <1>1 DEF Pages!Questions, Pages!Searches
  <2>2. items \in Nat
    BY <1>1, PaginationAssumption DEF PaginationAssumption
  <2> QED  BY <1>1, <2>1, <2>2 DEF PagesTypes
<1> QED  BY <1>1, <1>2 DEF PagesInv, Unasked, Searching, Validating, Keying, Counted, Pages!Missing,
           Pages!SearchIsComplete, Pages!ValidatorsOfOneBlock, Pages!KeysAreComplete

\* What one page adds to a search.
LEMMA SearchStep ==
  ASSUME PagesInv, Pages!Search
  PROVE  PagesInv'
<1>1. /\ PagesTypes /\ Searching /\ status = "pending" /\ call.kind \in Pages!Searches
      /\ UNCHANGED <<call, startAtKey, blockHeight, items, height, outage, before>>
  BY DEF PagesInv, Pages!Search, Pages!chain, Pages!history
<1>2. /\ PageSize \in Nat \ {0} /\ page \in Nat \ {0} /\ items \in Nat /\ status' \in {"pending", "done", "failed"}
      /\ page' \in {page, page + 1} /\ call.order \in {"asc", "desc"} /\ before.items <= items /\ before.items \in Nat
  BY <1>1, PaginationAssumption DEF PaginationAssumption, PagesTypes, Pages!Search
<1>3. PagesTypes' /\ Unasked' /\ Validating' /\ Keying' /\ Pages!ValidatorsOfOneBlock' /\ Pages!KeysAreComplete'
  BY <1>1, <1>2 DEF PagesTypes, Unasked, Validating, Keying, Pages!Searches,
     Pages!ValidatorsOfOneBlock, Pages!KeysAreComplete
<1>4. Seen \in Nat /\ page * PageSize = Seen + PageSize
  BY <1>2 DEF Seen
<1> DEFINE got == acc \o Pages!PageOf(Pages!Results(call.order), page)
           m == PageEnd(Seen, items)
<1>5. ASSUME Counted
      PROVE  m \in Nat /\ m <= items /\ Len(got) = m /\ got = Listed(m)
  <2> DEFINE w == Pages!Results(call.order)
  <2>1. w \in [1..items -> Nat] /\ \A i \in 1..items : w[i] = IF call.order = "asc" THEN i ELSE items + 1 - i
    BY <1>2 DEF Pages!Results
  <2> HIDE DEF w
  <2>2. ASSUME NEW n \in 0..items PROVE Listed(n) = First(n, w)
    <3>1. \A i \in 1..n : i \in 1..items
      BY <1>2
    <3> QED  BY <2>1, <3>1 DEF Listed, First, UpTo, DownFrom
  <2>3. Seen \in 0..items /\ acc = First(Seen, w)
    BY <1>1, <1>2, <1>4, <1>5, <2>2 DEF Searching
  <2>4. Pages!PageOf(w, page) = Pages!Slice(w, Seen + 1)
    BY DEF Pages!PageOf, Seen
  <2>5. m \in Nat /\ m <= items /\ acc \o Pages!Slice(w, Seen + 1) = First(m, w) /\ Len(acc \o Pages!Slice(w, Seen + 1)) = m
    <3>1. w \in Seq(Nat) /\ Len(w) = items
      BY <1>2, <2>1
    <3>2. /\ m \in 0..items /\ First(Seen, w) \o Pages!Slice(w, Seen + 1) = First(m, w)
          /\ Len(First(m, w)) = m
      BY <1>2, <2>3, <3>1, NextPage
    <3> HIDE DEF m
    <3> QED  BY <1>2, <2>3, <3>2
  <2>6. m \in 0..items
    BY <1>2, <2>5
  <2>7. got = acc \o Pages!Slice(w, Seen + 1)
    BY <2>4 DEF w
  <2> QED  BY <2>2, <2>5, <2>6, <2>7
<1>6. Counted' = Counted /\ \A n : Listed(n)' = Listed(n)
  BY <1>1 DEF Counted, Listed, DownFrom, UpTo, Pages!Grew
<1> HIDE DEF m
<1>7. Searching'
  <2> SUFFICES ASSUME status' = "pending", Counted PROVE Seen' <= items /\ acc' = Listed(Seen')
    BY <1>1, <1>6 DEF Searching, Listed, DownFrom, UpTo
  <2>1. acc' = got /\ page' = page + 1 /\ Len(got) < items
    BY <1>1 DEF Pages!Search
  <2>2. Seen' = Seen + PageSize
    BY <1>2, <1>4, <2>1 DEF Seen
  <2> HIDE DEF got
  <2>3. m < items
    BY <1>5, <2>1
  <2>4. m = Seen + PageSize
    BY <1>2, <1>4, <2>3 DEF m, PageEnd
  <2> QED  BY <1>5, <2>1, <2>2, <2>4
<1>8. Pages!SearchIsComplete'
  <2> SUFFICES ASSUME status' = "done", Counted
               PROVE  /\ Len(acc') >= before.items
                      /\ acc' = IF call.kind = "blocks" \/ call.order = "asc" THEN [i \in DOMAIN acc' |-> i]
                                 ELSE Pages!Results("desc")
    BY <1>1, <1>6 DEF Pages!SearchIsComplete, Counted, Pages!Results
  <2>1. acc' = Pages!Sorted(got) /\ Len(got) >= items
    BY <1>1 DEF Pages!Search
  <2> HIDE DEF got
  <2>2. m = items /\ got = Listed(items)
    BY <1>2, <1>4, <1>5, <2>1 DEF m, PageEnd
  <2>3. acc' = IF call.kind = "blocks" \/ call.order = "asc" THEN UpTo(items) ELSE DownFrom(items, items)
    BY <1>2, <2>1, <2>2, SortsUp, SortsDown DEF Pages!Sorted, Listed
  <2>4. /\ Len(UpTo(items)) = items /\ UpTo(items) = [i \in DOMAIN UpTo(items) |-> i]
        /\ Len(DownFrom(items, items)) = items /\ DownFrom(items, items) = Pages!Results("desc")
    BY <1>2 DEF UpTo, DownFrom, Pages!Results
  <2> QED  BY <1>2, <2>3, <2>4
<1> QED  BY <1>3, <1>7, <1>8 DEF PagesInv

\* What one page adds to the validators.
LEMMA ValidatorsStep ==
  ASSUME PagesInv, Pages!ValidatorsAll
  PROVE  PagesInv'
<1> DEFINE h == Pages!OrElse(blockHeight, height)
           got == acc \o Pages!PageOf(Pages!ValidatorsOf(h), page)
           m == PageEnd(Seen, Validators)
<1>1. /\ PagesTypes /\ Validating /\ status = "pending" /\ call.kind = "validators"
      /\ acc' = got /\ blockHeight' = h
      /\ UNCHANGED <<call, startAtKey, items, height, outage, before>>
  BY DEF PagesInv, Pages!ValidatorsAll, Pages!chain, Pages!history
<1>2. /\ PageSize \in Nat \ {0} /\ page \in Nat \ {0} /\ status' \in {"pending", "done"}
      /\ page' \in {page, page + 1} /\ height \in Nat \ {0} /\ blockHeight \in Nat /\ Validators \in Nat
      /\ call.height \in Nat /\ before.height \in Nat /\ before.height <= height
  BY <1>1, PaginationAssumption DEF PaginationAssumption, PagesTypes, Pages!ValidatorsAll
<1>3. h \in Nat \ {0} /\ (blockHeight # 0 => h = blockHeight) /\ (blockHeight = 0 => h = height)
  BY <1>2 DEF Pages!OrElse
<1> HIDE DEF h
<1>4. Seen \in Nat /\ page * PageSize = Seen + PageSize /\ Seen <= Validators /\ (page = 1 => Seen = 0)
  BY <1>1, <1>2 DEF Seen, Validating
<1>5. PagesTypes' /\ Unasked' /\ Searching' /\ Keying' /\ Pages!SearchIsComplete' /\ Pages!KeysAreComplete'
  BY SMTT(30), <1>1, <1>2, <1>3 DEF PagesTypes, Unasked, Searching, Keying, Counted, Pages!Searches,
     Pages!SearchIsComplete, Pages!KeysAreComplete
<1>6. /\ call.height # 0 => h = call.height
      /\ call.height = 0 => h >= before.height
  BY <1>1, <1>2, <1>3 DEF Validating
<1>7. acc = FirstOf(Seen, h)
  <2>1. acc = FirstOf(Seen, blockHeight)
    BY <1>1 DEF Validating
  <2>2. CASE blockHeight = 0
    <3>1. Seen = 0 /\ 1..0 = {}
      BY <1>1, <1>4, <2>2 DEF Validating
    <3> QED  BY <2>1, <3>1 DEF FirstOf
  <2> QED  BY <1>3, <2>1, <2>2
<1>8. m \in Nat /\ Len(got) = m /\ got = FirstOf(m, h)
  <2> DEFINE w == Pages!ValidatorsOf(h)
  <2>1. w \in [1..Validators -> {h} \X Nat] /\ \A i \in 1..Validators : w[i] = <<h, i>>
    BY <1>2 DEF Pages!ValidatorsOf
  <2> HIDE DEF w
  <2>2. ASSUME NEW n \in 0..Validators PROVE FirstOf(n, h) = First(n, w)
    <3>1. \A i \in 1..n : i \in 1..Validators
      BY <1>2
    <3> QED  BY <2>1, <3>1 DEF First, FirstOf
  <2>3. Seen \in 0..Validators /\ acc = First(Seen, w)
    BY <1>2, <1>4, <1>7, <2>2
  <2>4. Pages!PageOf(w, page) = Pages!Slice(w, Seen + 1)
    BY DEF Pages!PageOf, Seen
  <2>5. /\ m \in Nat /\ m <= Validators /\ acc \o Pages!Slice(w, Seen + 1) = First(m, w)
        /\ Len(acc \o Pages!Slice(w, Seen + 1)) = m
    <3>1. w \in Seq({h} \X Nat) /\ Len(w) = Validators
      BY <1>2, <2>1
    <3>2. /\ m \in 0..Validators /\ First(Seen, w) \o Pages!Slice(w, Seen + 1) = First(m, w)
          /\ Len(First(m, w)) = m
      BY <1>2, <2>3, <3>1, NextPage
    <3> HIDE DEF m
    <3> QED  BY <1>2, <2>3, <3>2
  <2>6. m \in 0..Validators
    BY <1>2, <2>5
  <2>7. got = acc \o Pages!Slice(w, Seen + 1)
    BY <2>4 DEF w
  <2> QED  BY <2>2, <2>5, <2>6, <2>7
<1>9. Validating'
  <2> SUFFICES ASSUME status' = "pending"
               PROVE  Seen' <= Validators /\ acc' = FirstOf(Seen', h)
    BY <1>1, <1>3, <1>6 DEF Validating, FirstOf
  <2>1. page' = page + 1 /\ Len(got) < Validators
    BY <1>1 DEF Pages!ValidatorsAll, h
  <2>2. Seen' = Seen + PageSize
    BY <1>2, <1>4, <2>1 DEF Seen
  <2> HIDE DEF got
  <2>3. m = Seen + PageSize
    BY <1>2, <1>4, <1>8, <2>1 DEF PageEnd
  <2> QED  BY <1>1, <1>2, <1>4, <1>8, <2>1, <2>2, <2>3
<1>10. Pages!ValidatorsOfOneBlock'
  <2> SUFFICES ASSUME status' = "done" PROVE acc' = Pages!ValidatorsOf(h)
    <3>1. blockHeight' = h /\ UNCHANGED <<call, before>>
      BY <1>1
    <3> HIDE DEF got
    <3> QED  BY <1>1, <1>2, <1>3, <1>6, <3>1 DEF Pages!ValidatorsOfOneBlock, Pages!ValidatorsOf
  <2>1. Len(got) >= Validators
    BY <1>1 DEF Pages!ValidatorsAll, h
  <2> HIDE DEF got
  <2>2. m = Validators
    BY <1>2, <1>4, <1>8, <2>1 DEF PageEnd
  <2> QED  BY <1>1, <1>8, <2>2 DEF FirstOf, Pages!ValidatorsOf
<1> QED  BY <1>5, <1>9, <1>10 DEF PagesInv

\* What one page adds to the codes or contracts.
LEMMA KeysStep ==
  ASSUME PagesInv, Pages!Keys
  PROVE  PagesInv'
<1> DEFINE next == IF call.paginates THEN Pages!NextKey(startAtKey) ELSE Pages!Missing
           entries == IF call.paginates THEN Pages!Slice(Pages!Results("asc"), startAtKey) ELSE Pages!Results("asc")
<1>1. /\ PagesTypes /\ Keying /\ status = "pending" /\ call.kind \in {"codes", "contracts"}
      /\ acc' = acc \o entries /\ startAtKey' = next
      /\ status' = IF next = Pages!NoKey \/ (next = Pages!Missing /\ call.kind # "codes") THEN "done" ELSE "pending"
      /\ UNCHANGED <<call, page, blockHeight, items, height, outage, before>>
  BY DEF PagesInv, Pages!Keys, Pages!chain, Pages!history
<1>2. /\ PageSize \in Nat \ {0} /\ items \in Nat /\ startAtKey \in Nat /\ call.paginates \in BOOLEAN
      /\ before.items \in Nat /\ before.items <= items
  BY <1>1, PaginationAssumption DEF PaginationAssumption, PagesTypes
<1> DEFINE w == Pages!Results("asc")
           k == startAtKey - 1
           m == PageEnd(k, items)
<1>3. w = UpTo(items) /\ w \in [1..items -> Nat] /\ w \in Seq(Nat) /\ Len(w) = items /\ \A i \in 1..items : w[i] = i
  BY <1>2 DEF Pages!Results, UpTo
<1> HIDE DEF w
<1>5. ASSUME startAtKey' \in Nat, status' \in {"pending", "done"}, Keying', Pages!KeysAreComplete'
      PROVE  PagesInv'
  <2> HIDE DEF next, entries
  <2>1. PagesTypes' /\ Unasked' /\ Searching' /\ Validating'
    BY <1>1, <1>5 DEF PagesTypes, Unasked, Searching, Validating, Counted, Pages!Searches
  <2>2. Pages!SearchIsComplete' /\ Pages!ValidatorsOfOneBlock'
    BY <1>1 DEF Pages!SearchIsComplete, Pages!ValidatorsOfOneBlock, Pages!Searches
  <2> QED  BY <1>5, <2>1, <2>2 DEF PagesInv
<1>4. CASE call.paginates
  <2>1. k \in 0..items /\ acc = UpTo(k) /\ k + 1 = startAtKey
    BY <1>1, <1>2, <1>4 DEF Keying
  <2>2. ASSUME NEW n \in 0..items PROVE UpTo(n) = First(n, w)
    <3>1. \A i \in 1..n : i \in 1..items
      BY <1>2
    <3> QED  BY <1>3, <3>1 DEF First, UpTo
  <2> HIDE DEF k
  <2>4. m \in Nat /\ m <= items /\ acc \o Pages!Slice(w, k + 1) = First(m, w)
    <3>1. acc = First(k, w)
      BY <2>1, <2>2
    <3>3. m \in 0..items /\ First(k, w) \o Pages!Slice(w, k + 1) = First(m, w)
      BY <1>2, <1>3, <2>1, NextPage
    <3> HIDE DEF m
    <3> QED  BY <1>2, <3>1, <3>3
  <2>5. acc' = UpTo(m)
    <3>1. entries = Pages!Slice(w, k + 1)
      BY <1>4, <2>1 DEF w
    <3>2. acc' = acc \o entries /\ m \in 0..items
      BY <1>1, <1>2, <2>4
    <3> HIDE DEF entries, m
    <3> QED  BY <2>2, <2>4, <3>1, <3>2
  <2>6. next = IF k + 1 + PageSize > items THEN 0 ELSE k + 1 + PageSize
    BY <1>4, <2>1 DEF Pages!NextKey, Pages!NoKey
  <2> HIDE DEF next, entries
  <2>7. next \in Nat /\ next # 1 /\ (next = 0 => m = items) /\ (next # 0 => m = next - 1)
    BY <1>2, <2>1, <2>6 DEF PageEnd
  <2>8. status' = IF next = 0 THEN "done" ELSE "pending"
    BY <1>1, <2>7 DEF Pages!NoKey, Pages!Missing
  <2>9. Keying'
    BY <1>1, <1>4, <2>4, <2>5, <2>7, <2>8 DEF Keying, UpTo
  <2>10. Pages!KeysAreComplete'
    <3> SUFFICES ASSUME status' = "done" PROVE Len(acc') >= before.items /\ acc' = [i \in DOMAIN acc' |-> i]
      BY <1>1 DEF Pages!KeysAreComplete
    <3>1. acc' = UpTo(items)
      BY <2>5, <2>7, <2>8
    <3> QED  BY <1>2, <3>1 DEF UpTo
  <2>11. startAtKey' \in Nat /\ status' \in {"pending", "done"}
    BY <1>1, <2>7, <2>8
  <2> QED  BY <1>5, <2>9, <2>10, <2>11
<1>6. CASE ~call.paginates
  <2>1. next = 1 /\ entries = w /\ startAtKey' = 1
    BY <1>1, <1>6 DEF Pages!Missing, w
  <2> HIDE DEF next, entries
  <2>2. CASE call.kind = "codes"
    <3>1. status' = "pending"
      BY <1>1, <2>1, <2>2 DEF Pages!NoKey
    <3> QED  BY <1>1, <1>5, <1>6, <2>1, <2>2, <3>1 DEF Keying, Pages!KeysAreComplete, Pages!Missing
  <2>3. CASE call.kind # "codes"
    <3>1. status' = "done" /\ acc = <<>>
      BY <1>1, <1>6, <2>1, <2>3 DEF Keying, Pages!Missing
    <3>2. acc' = UpTo(items)
      BY <1>1, <1>3, <2>1, <3>1, ConcatEmptySeq
    <3>3. Len(acc') >= before.items /\ acc' = [i \in DOMAIN acc' |-> i]
      BY <1>2, <3>2 DEF UpTo
    <3> QED  BY <1>1, <1>5, <2>1, <3>1, <3>3 DEF Keying, Pages!KeysAreComplete
  <2> QED  BY <2>2, <2>3
<1> QED  BY <1>4, <1>6

LEMMA PagesStep == PagesInv /\ [Pages!Next]_pages => PagesInv'
<1> SUFFICES ASSUME PagesInv, [Pages!Next]_pages PROVE PagesInv'
  OBVIOUS
<1> USE DEF PagesInv
<1>1. CASE Pages!Invoke
  <2>1. /\ status = "idle" /\ status' = "pending" /\ acc = <<>> /\ startAtKey = 1
        /\ UNCHANGED <<call, startAtKey, acc, items, height>>
        /\ before' = [items |-> items, height |-> height]
        /\ page' = IF call.kind \in Pages!Searches THEN Pages!OrElse(call.page, 1) ELSE 1
        /\ blockHeight' = IF call.kind = "validators" THEN call.height ELSE 0
    BY <1>1 DEF Pages!Invoke, Pages!chain, Unasked, Pages!Missing
  <2>2. PagesTypes'
    BY <2>1 DEF PagesTypes, Pages!OrElse
  <2>3. page' = 1 => Seen' = 0
    BY PaginationAssumption DEF PaginationAssumption, Seen
  <2>4. UpTo(0) = <<>> /\ (\A h : FirstOf(0, h) = <<>>) /\ (\A h : DownFrom(0, h) = <<>>)
    BY DEF UpTo, FirstOf, DownFrom
  <2>5. Searching'
    <3> SUFFICES ASSUME Counted' PROVE Seen' <= items' /\ acc' = Listed(Seen)'
      BY DEF Searching
    <3>1. page' = 1
      BY <2>1, <2>2 DEF Counted, PagesTypes, Pages!OrElse
    <3> QED  BY <2>1, <2>2, <2>3, <2>4, <3>1 DEF Listed, PagesTypes
  <2>6. Validating'
    <3> SUFFICES ASSUME call.kind = "validators" PROVE Validating'
      BY <2>1 DEF Validating
    <3>1. page' = 1 /\ blockHeight' = call.height /\ Validators \in Nat
      BY <2>1, PaginationAssumption DEF PaginationAssumption, Pages!Searches
    <3> QED  BY <2>1, <2>3, <2>4, <3>1 DEF Validating
  <2>7. Keying'
    BY <2>1, <2>2, <2>4 DEF Keying, PagesTypes, Pages!Missing
  <2> QED  BY <2>1, <2>2, <2>5, <2>6, <2>7 DEF Unasked, Pages!SearchIsComplete, Pages!ValidatorsOfOneBlock,
             Pages!KeysAreComplete
<1>2. CASE Pages!Turn
  BY <1>2, SearchStep, ValidatorsStep, KeysStep DEF Pages!Turn
<1>3. CASE Pages!RequestFails
  BY <1>3 DEF Pages!RequestFails, Pages!chain, PagesTypes, Unasked, Searching, Validating, Keying,
              Pages!SearchIsComplete, Pages!ValidatorsOfOneBlock, Pages!KeysAreComplete
<1>4. CASE Pages!Block
  <2>1. /\ items' \in {items, items + 1} /\ height' = height + 1
        /\ UNCHANGED <<call, status, page, startAtKey, blockHeight, acc, outage, before>>
    BY <1>4 DEF Pages!Block, Pages!loop, Pages!history
  <2>2. items \in Nat /\ items' \in Nat /\ items <= items' /\ before.items \in Nat /\ before.items <= items
    BY <2>1 DEF PagesTypes
  <2>3. PagesTypes'
    BY <2>1, <2>2 DEF PagesTypes
  <2>4. Counted' => Counted /\ (call.order = "asc" \/ items' = items) /\ Seen' = Seen
    BY <2>1, <2>2 DEF Counted, Pages!Grew, Seen
  <2>5. ASSUME Counted' PROVE Pages!Results("desc")' = Pages!Results("desc") \/ call.order = "asc"
    BY <2>1, <2>4, <2>5 DEF Pages!Results
  <2>6. Searching'
    <3> SUFFICES ASSUME status = "pending", Counted' PROVE Seen' <= items' /\ acc' = Listed(Seen)'
      BY <2>1 DEF Searching
    <3>1. Seen <= items /\ acc = Listed(Seen) /\ Seen' = Seen
      BY <2>4 DEF Searching
    <3>2. Seen \in Nat
      BY PaginationAssumption DEF PaginationAssumption, Seen, PagesTypes
    <3> QED  BY <2>1, <2>2, <2>4, <3>1, <3>2 DEF Listed, DownFrom, UpTo
  <2>7. Validating'
    BY <2>1 DEF Validating, Seen
  <2>8. Keying'
    BY <2>1, <2>2, <2>3 DEF Keying, PagesTypes
  <2>9. Pages!SearchIsComplete'
    <3> SUFFICES ASSUME status = "done", Counted'
                 PROVE  /\ Len(acc) >= before.items
                        /\ acc = IF call.kind = "blocks" \/ call.order = "asc" THEN [i \in DOMAIN acc |-> i]
                                 ELSE Pages!Results("desc")'
      BY <2>1 DEF Pages!SearchIsComplete, Counted
    <3>1. /\ Len(acc) >= before.items
          /\ acc = IF call.kind = "blocks" \/ call.order = "asc" THEN [i \in DOMAIN acc |-> i]
                   ELSE Pages!Results("desc")
      BY <2>4 DEF Pages!SearchIsComplete, Counted
    <3> QED  BY <2>5, <3>1
  <2>10. Unasked' /\ Pages!ValidatorsOfOneBlock' /\ Pages!KeysAreComplete'
    BY <2>1 DEF Unasked, Pages!ValidatorsOfOneBlock, Pages!KeysAreComplete, Pages!ValidatorsOf
  <2> QED  BY <2>3, <2>6, <2>7, <2>8, <2>9, <2>10
<1>5. CASE UNCHANGED pages
  BY <1>5 DEF pages, PagesTypes, Unasked, Searching, Counted, Listed, UpTo, DownFrom, Seen, Validating, Keying, Pages!Grew,
              Pages!SearchIsComplete, Pages!ValidatorsOfOneBlock, Pages!KeysAreComplete,
              Pages!Results, Pages!ValidatorsOf
<1> QED  BY <1>1, <1>2, <1>3, <1>4, <1>5 DEF Pages!Next

(* The loops over pages return every entry once, and the validators of one    *)
(* block, however large the pages and however the chain grows meanwhile.      *)
THEOREM PagesCollectAll == Pages!Spec => []Pages!PagesAreComplete
<1>1. PagesInv /\ [Pages!Next]_(Pages!vars) => PagesInv'
  BY PagesStep DEF Pages!vars, Pages!loop, Pages!chain, Pages!history, pages
<1>2. PagesInv => Pages!PagesAreComplete
  BY DEF PagesInv, Pages!PagesAreComplete
<1> QED  BY <1>1, <1>2, PagesBegin, PTL DEF Pages!Spec

\* The same of the behaviours of all parts, of which the run looks at a few.
THEOREM PagesOfThePart == PartsSpec => []PagesAreComplete
<1> DEFINE Inv == part = "pages" => PagesInv
<1>1. PartsInit => Inv
  BY PagesBegin DEF PartsInit
<1>2. Inv /\ [PartsNext]_partsVars => Inv'
  <2> SUFFICES ASSUME Inv, [PartsNext]_partsVars, part' = "pages" PROVE PagesInv'
    OBVIOUS
  <2>1. part = "pages" /\ [Pages!Next]_pages
    BY DEF PartsNext, partsVars
  <2> QED  BY <2>1, PagesStep
<1>3. Inv => PagesAreComplete
  BY DEF PagesInv, PagesAreComplete, Pages!PagesAreComplete
<1> QED  BY <1>1, <1>2, <1>3, PTL DEF PartsSpec, partsVars

(* Every listener of concat() gets the events in order, nothing withheld, and *)
(* the end exactly when all sources have completed, whatever their number and *)
(* however their events interleave, but one that comes back while it is told  *)
(* of a failure.  No event comes twice and no handler throws or outlives its  *)
(* listener, unless a source failed while start() had others to subscribe.    *)
THEOREM ConcatDelivers == Concat!Spec => []Concat!ConcatIsFaithful
<1>1. ConcatInv /\ [Concat!Next]_(Concat!vars) => ConcatInv'
  BY ConcatStep DEF Concat!vars, Concat!internal, concat
<1> QED  BY <1>1, ConcatBegins, ConcatShown, PTL DEF Concat!Spec

\* The same of the behaviours of all parts, of which the run looks at a few.
THEOREM ConcatOfThePart == PartsSpec => []ConcatIsFaithful
<1>1. PartsInit => ConcatInv
  BY ConcatBegins DEF PartsInit
<1>2. ConcatInv /\ [PartsNext]_partsVars => ConcatInv'
  <2>1. [PartsNext]_partsVars => [Concat!Next]_concat
    BY DEF PartsNext, partsVars
  <2> QED  BY <2>1, ConcatStep
<1>3. ConcatInv => ConcatIsFaithful
  BY ConcatShown DEF ConcatIsFaithful
<1> QED  BY <1>1, <1>2, <1>3, PTL DEF PartsSpec, partsVars

(* A distributor gets more than a refill only when two jobs overlapped, in    *)
(* the behaviours of all parts.                                               *)
THEOREM OverfillOfThePart == PartsSpec => []OverfilledOnlyByOverlap
<1>1. PartsInit => IInv
  BY InitTypeOK, InitUnraced DEF PartsInit, IInv
<1>2. IInv /\ [PartsNext]_partsVars => IInv'
  <2>1. [PartsNext]_partsVars => [Next]_vars
    BY DEF PartsNext, partsVars
  <2> QED  BY <2>1, NextTypeOK, NextUnraced DEF IInv
<1>3. IInv => OverfilledOnlyByOverlap
  BY AmountsAssumption DEF AmountsAssumption, IInv, TypeOK, Unraced, Single, OverfilledOnlyByOverlap
<1> QED  BY <1>1, <1>2, <1>3, PTL DEF PartsSpec, partsVars
-----------------------------------------------------------------------------
(* Fees.                                                                      *)
LEMMA FeeOperators ==
  /\ \A base, n : Fee!Power(base, n) = Power(base, n)
  /\ \A d : Fee!ValueOf(d) = ValueOf(d)
  /\ \A t, n : Fee!fromUserInput(t, n) = fromUserInput(t, n)
  /\ \A d : Fee!toString(d) = toString(d)
<1>1. \A base, n : Fee!Power(base, n) = Power(base, n)
  BY Zenon DEF Power, Fee!Power
<1>2. \A d : Fee!ValueOf(d) = ValueOf(d)
  BY Zenon DEF ValueOf, Number, Fee!ValueOf, Fee!Number
<1>3. \A t, n : Fee!fromUserInput(t, n) = fromUserInput(t, n)
  BY ZenonT(30) DEF ValueOf, Number, Fee!ValueOf, Fee!Number, PadEnd, Fee!PadEnd, Zeros, Fee!Zeros, Trim, Fee!Trim,
               fromUserInput, Fee!fromUserInput
<1>4. \A d : Fee!toString(d) = toString(d)
  BY Zenon DEF DigitsOf, Numeral, Fee!DigitsOf, Fee!Numeral, PadStart, Fee!PadStart, Zeros, Fee!Zeros,
               Trim, Fee!Trim, Text, Fee!Text, Power, Fee!Power, toString, Fee!toString
<1> QED  BY <1>1, <1>2, <1>3, <1>4

\* Numbers in the proof: what was typed, and its scale.
TypedNumber == ValueOf(price.whole \o price.fraction)
TypedScale == Power(10, Len(price.fraction))

(* The price in memory is what was typed, to the last digit, also after it    *)
(* was printed and parsed again.                                              *)
ExactPrice ==
  \E a \in Nat : gasPrice = {[atomics |-> a, fractionalDigits |-> Digits]}
                   /\ a * TypedScale = TypedNumber * Power(10, Digits)

FeesInv ==
  /\ price \in Texts /\ estimate \in Nat /\ percent \in {100, 140} /\ gas \in Nat
  /\ paying \in {"typed", "priced", "simulated", "done", "failed"}
  /\ paying \in {"priced", "simulated"} => ExactPrice
  /\ paying = "simulated" => gas >= estimate
  /\ Fee!FeeIsExact

LEMMA TypedNumbers ==
  ASSUME price \in Texts
  PROVE  TypedNumber \in Nat /\ TypedScale \in Nat \ {0} /\ Power(10, Digits) \in Nat \ {0}
<1>1. price.whole \in Seq(Digit) /\ price.fraction \in Seq(Digit)
  BY DEF Texts
<1>2. price.whole \o price.fraction \in Seq(Digit) /\ Len(price.fraction) \in Nat
  BY <1>1, ConcatProperties, DigitsAreNumbers
<1>3. TypedNumber \in Nat
  BY <1>2, NumberType, DigitsAreNumbers DEF TypedNumber, ValueOf
<1>4. 10 \in Nat \ {0} /\ Digits \in Nat
  BY FeesAssumption DEF FeesAssumption
<1> QED  BY <1>2, <1>3, <1>4, PowerPositive, Zenon DEF TypedScale

LEMMA FeesBegin == Fee!Init => FeesInv
<1> SUFFICES ASSUME Fee!Init PROVE FeesInv
  OBVIOUS
<1> QED  BY FeesAssumption DEF FeesAssumption, Fee!Init, FeesInv, Fee!FeeIsExact, Texts, Digit

LEMMA FeesStep == FeesInv /\ [Fee!Next]_fees => FeesInv'
<1> SUFFICES ASSUME FeesInv, [Fee!Next]_fees PROVE FeesInv'
  OBVIOUS
<1>0. price \in Texts /\ estimate \in Nat /\ percent \in {100, 140} /\ gas \in Nat /\ Digits \in Nat
  BY FeesAssumption DEF FeesAssumption, FeesInv
<1>1. CASE Fee!ParsePrice
  <2>1. price' = price /\ estimate' = estimate /\ percent' = percent /\ gas' = gas
        /\ paying' = (IF gasPrice' = {} THEN "failed" ELSE "priced")
        /\ (gasPrice' = {} \/ gasPrice' = fromUserInput(price, Digits))
    BY <1>1, FeeOperators DEF Fee!ParsePrice
  <2>2. gasPrice' # {} => ExactPrice'
    <3> SUFFICES ASSUME gasPrice' # {} PROVE ExactPrice'
      OBVIOUS
    <3>1. PICK x \in fromUserInput(price, Digits) : gasPrice' = fromUserInput(price, Digits)
      BY <2>1
    <3>2. /\ gasPrice' = {[atomics |-> x.atomics, fractionalDigits |-> Digits]} /\ x.atomics \in Nat
          /\ x.atomics * TypedScale = TypedNumber * Power(10, Digits)
      BY <1>0, <3>1, ParsedValue DEF TypedScale, TypedNumber
    <3> QED  BY <2>1, <3>2 DEF ExactPrice, TypedScale, TypedNumber
  <2> QED  BY <1>0, <2>1, <2>2 DEF FeesInv, Fee!FeeIsExact
<1>2. CASE Fee!CopyPrice
  <2>1. paying = "priced" /\ UNCHANGED <<price, estimate, percent, paying, gas, amount>>
    BY <1>2 DEF Fee!CopyPrice
  <2>2. PICK a \in Nat : gasPrice = {[atomics |-> a, fractionalDigits |-> Digits]}
                           /\ a * TypedScale = TypedNumber * Power(10, Digits)
    BY <2>1 DEF FeesInv, ExactPrice
  <2>3. gasPrice' = fromUserInput(toString([atomics |-> a, fractionalDigits |-> Digits]), Digits)
    <3>1. gasPrice' = UNION {fromUserInput(toString(d), Digits) : d \in gasPrice}
      BY <1>2, FeeOperators DEF Fee!CopyPrice
    <3> QED  BY <2>2, <3>1
  <2>4. gasPrice' = gasPrice
    BY <1>0, <2>2, <2>3, PrintedParses
  <2> QED  BY <2>1, <2>4 DEF FeesInv, Fee!FeeIsExact, ExactPrice, TypedScale, TypedNumber
<1>3. CASE Fee!Simulated
  <2>1. paying = "priced" /\ paying' = "simulated" /\ gas' = (estimate * percent + 50) \div 100
        /\ UNCHANGED <<price, estimate, percent, gasPrice, amount>>
    BY <1>3 DEF Fee!Simulated
  <2>2. gas' \in Nat /\ gas' >= estimate
    BY <1>0, <2>1
  <2> QED  BY <2>1, <2>2 DEF FeesInv, Fee!FeeIsExact, ExactPrice, TypedScale, TypedNumber
<1>4. CASE Fee!calculateFee
  <2>1. paying = "simulated" /\ paying' = "done" /\ UNCHANGED <<price, estimate, percent, gasPrice, gas>>
    BY <1>4 DEF Fee!calculateFee
  <2>2. PICK a \in Nat : gasPrice = {[atomics |-> a, fractionalDigits |-> Digits]}
                           /\ a * TypedScale = TypedNumber * Power(10, Digits)
    BY <2>1 DEF FeesInv, ExactPrice
  <2>3. amount' = toString(ceil([atomics |-> a * gas, fractionalDigits |-> Digits]))
    <3>1. PICK d \in gasPrice : amount' = toString(Fee!ceil(Fee!multiply(d, gas)))
      BY <1>4, FeeOperators DEF Fee!calculateFee
    <3>2. d = [atomics |-> a, fractionalDigits |-> Digits]
      BY <2>2, <3>1
    <3>3. Fee!multiply(d, gas) = [atomics |-> a * gas, fractionalDigits |-> Digits]
      BY <3>2 DEF Fee!multiply
    <3>4. \A x : Fee!ceil(x) = ceil(x)
      BY Zenon DEF ceil, Fee!ceil, Power, Fee!Power
    <3> QED  BY <3>1, <3>3, <3>4
  <2> DEFINE k == ValueOf(amount'.whole)
             F == Power(10, Digits)
  <2>4. a * gas \in Nat
    BY <1>0, <2>2
  <2>5. amount'.fraction = <<>> /\ k \in Nat /\ a * gas <= k * F /\ k * F < a * gas + F
    BY <1>0, <2>3, <2>4, CeilPrinted
  <2>6. TypedNumber \in Nat /\ TypedScale \in Nat \ {0} /\ F \in Nat \ {0}
    BY <1>0, TypedNumbers
  <2> HIDE DEF k, F
  <2>7. k * TypedScale >= TypedNumber * gas /\ k * TypedScale < TypedNumber * gas + TypedScale
    <3>1. a * TypedScale = TypedNumber * F
      BY <2>2 DEF F
    <3>2. a * gas <= k * F /\ k * F < a * gas + F
      BY <2>5
    <3> QED  BY <1>0, <2>2, <2>5, <2>6, <3>1, <3>2, SameFee, Zenon
  <2>8. gas >= estimate
    BY <2>1 DEF FeesInv
  <2>9. Fee!FeeIsExact'
    BY <1>0, <2>1, <2>5, <2>7, <2>8, FeeOperators DEF Fee!FeeIsExact, Fee!Scale, Fee!Typed, TypedScale, TypedNumber, k
  <2> QED  BY <1>0, <2>1, <2>9 DEF FeesInv
<1>5. CASE UNCHANGED fees
  BY <1>5 DEF fees, FeesInv, Fee!FeeIsExact, Fee!Scale, Fee!Typed, ExactPrice, TypedScale, TypedNumber
<1> QED  BY <1>1, <1>2, <1>3, <1>4, <1>5 DEF Fee!Next

(* The fee is the least whole amount that pays for the gas at the price that  *)
(* was typed, for any price, gas and number of fractional digits, and however *)
(* often the price was printed and parsed.                                    *)
THEOREM FeesAreExact == Fee!Spec => []Fee!FeeIsExact
<1>1. FeesInv /\ [Fee!Next]_(Fee!vars) => FeesInv'
  BY FeesStep DEF Fee!vars, fees
<1>2. FeesInv => Fee!FeeIsExact
  BY DEF FeesInv
<1> QED  BY <1>1, <1>2, FeesBegin, PTL DEF Fee!Spec

\* The same of the behaviours of all parts, of which the run looks at a few.
THEOREM FeesOfThePart == PartsSpec => []FeeIsExact
<1> DEFINE Inv == part = "fees" => FeesInv
<1>1. PartsInit => Inv
  BY FeesBegin DEF PartsInit
<1>2. Inv /\ [PartsNext]_partsVars => Inv'
  <2> SUFFICES ASSUME Inv, [PartsNext]_partsVars, part' = "fees" PROVE FeesInv'
    OBVIOUS
  <2>1. part = "fees" /\ [Fee!Next]_fees
    BY DEF PartsNext, partsVars
  <2> QED  BY <2>1, FeesStep
<1>3. Inv => FeeIsExact
  BY DEF FeesInv, FeeIsExact
<1> QED  BY <1>1, <1>2, <1>3, PTL DEF PartsSpec, partsVars
-----------------------------------------------------------------------------
(* Multisig.                                                                  *)
KeysOf(keys) ==
  keys \in Seq(Nat) /\ {keys[i] : i \in DOMAIN keys} = 1..Len(keys)

LEMMA KeysAreDistinct ==
  ASSUME NEW keys, KeysOf(keys)
  PROVE  LET n == Len(keys) IN
         /\ n \in Nat /\ DOMAIN keys = 1..n /\ keys \in [1..n -> 1..n]
         /\ \A i \in 1..n : \E j \in 1..n : keys[j] = i
         /\ \A i, j \in 1..n : keys[i] = keys[j] => i = j
<1> DEFINE n == Len(keys)
<1>1. n \in Nat /\ DOMAIN keys = 1..n /\ keys \in [1..n -> Nat]
  BY LenProperties DEF KeysOf
<1>2. {keys[i] : i \in 1..n} = 1..n
  BY <1>1 DEF KeysOf
<1> HIDE DEF n
<1>3. keys \in [1..n -> 1..n] /\ \A i \in 1..n : \E j \in 1..n : keys[j] = i
  BY <1>1, <1>2
<1>4. keys \in Surjection(1..n, 1..n)
  BY <1>3 DEF Surjection
<1>5. IsFiniteSet(1..n) /\ Cardinality(1..n) = Cardinality(1..n)
  BY <1>1, FS_Interval
<1>6. keys \in Injection(1..n, 1..n)
  BY <1>4, <1>5, FS_Surjection
<1>7. \A i, j \in 1..n : keys[i] = keys[j] => i = j
  BY <1>6 DEF Injection, IsInjective
<1> QED  BY <1>1, <1>3, <1>7 DEF n

LEMMA AscendingKeys ==
  ASSUME NEW keys, KeysOf(keys)
  PROVE  KeysOf(Multi!Ascending(keys)) /\ Len(Multi!Ascending(keys)) = Len(keys)
<1> DEFINE n == Len(keys)
           below(i) == {j \in DOMAIN keys : keys[j] < keys[i]}
           sorted == Multi!Ascending(keys)
<1>1. /\ n \in Nat /\ DOMAIN keys = 1..n /\ keys \in [1..n -> 1..n]
      /\ \A i \in 1..n : \E j \in 1..n : keys[j] = i
      /\ \A i, j \in 1..n : keys[i] = keys[j] => i = j
  BY KeysAreDistinct
<1>2. \A i \in 1..n : Cardinality(below(i)) = keys[i] - 1
  <2> SUFFICES ASSUME NEW i \in 1..n PROVE Cardinality(below(i)) = keys[i] - 1
    OBVIOUS
  <2> DEFINE b == below(i)
             t == 1..(keys[i] - 1)
             f == [j \in b |-> keys[j]]
  <2>0. \A j \in b : keys[j] \in t /\ j \in 1..n
    <3> SUFFICES ASSUME NEW j \in b PROVE keys[j] \in t /\ j \in 1..n
      OBVIOUS
    <3>1. j \in 1..n /\ keys[j] < keys[i] /\ keys[j] \in 1..n /\ keys[i] \in 1..n
      BY <1>1
    <3> HIDE DEF n
    <3> QED  BY <1>1, <3>1
  <2>1. f \in Surjection(b, t)
    <3>1. \A x \in t : \E j \in b : f[j] = x
      <4> SUFFICES ASSUME NEW x \in t PROVE \E j \in b : f[j] = x
        OBVIOUS
      <4>1. x \in 1..n /\ keys[i] \in 1..n /\ x < keys[i]
        BY <1>1
      <4>2. PICK j \in 1..n : keys[j] = x
        BY <1>1, <4>1
      <4>3. j \in b
        BY <1>1, <4>1, <4>2
      <4> HIDE DEF b
      <4> QED  BY <4>2, <4>3
    <3>2. f \in [b -> t]
      <4> HIDE DEF b, t
      <4> QED  BY <2>0
    <3> HIDE DEF b, t, f
    <3> QED  BY <3>1, <3>2 DEF Surjection
  <2>2. f \in Injection(b, t)
    <3> HIDE DEF b, t, n
    <3>1. f \in [b -> t]
      BY <2>0
    <3>2. \A x, y \in b : f[x] = f[y] => x = y
      BY <1>1, <2>0
    <3> HIDE DEF f
    <3> QED  BY <3>1, <3>2 DEF Injection, IsInjective
  <2>3. IsFiniteSet(b)
    <3>1. IsFiniteSet(1..n) /\ b \subseteq 1..n
      BY <1>1, FS_Interval
    <3> HIDE DEF b
    <3> QED  BY <3>1, FS_Subset
  <2>4. keys[i] - 1 \in Nat
    BY SMTT(30), <1>1
  <2> HIDE DEF b, f
  <2>5. Cardinality(t) = Cardinality(b)
    BY <2>1, <2>2, <2>3, FS_Surjection
  <2>6. Cardinality(t) = keys[i] - 1
    <3> HIDE DEF n
    <3>1. 1 \in Int /\ keys[i] - 1 \in Int
      BY <2>4
    <3>2. Cardinality(1..(keys[i] - 1)) = IF 1 > keys[i] - 1 THEN 0 ELSE keys[i] - 1 - 1 + 1
      BY <3>1, FS_Interval
    <3> QED  BY <2>4, <3>2
  <2> QED  BY <2>5, <2>6 DEF b
<1> HIDE DEF n
<1>4. sorted = [k \in DOMAIN keys |-> keys[CHOOSE i \in DOMAIN keys : Cardinality(below(i)) = k - 1]]
  BY Zenon DEF Multi!Ascending, Multi!Cardinality, Cardinality
<1> HIDE DEF below, sorted
<1>3. ASSUME NEW k \in DOMAIN keys
      PROVE  keys[CHOOSE i \in DOMAIN keys : Cardinality(below(i)) = k - 1] = k
  <2> DEFINE c == CHOOSE i \in DOMAIN keys : Cardinality(below(i)) = k - 1
  <2>1. PICK i \in 1..n : keys[i] = k
    BY <1>1
  <2>2. Cardinality(below(i)) = k - 1
    BY <1>2, <2>1
  <2>3. c \in 1..n /\ Cardinality(below(c)) = k - 1
    <3>1. DOMAIN keys = 1..n
      BY <1>1
    <3>2. c \in DOMAIN keys /\ Cardinality(below(c)) = k - 1
      BY <2>2, <3>1
    <3> HIDE DEF c
    <3> QED  BY <3>1, <3>2
  <2> HIDE DEF c
  <2>4. keys[c] = k
    BY SMTT(30), <1>1, <1>2, <2>3
  <2> QED  BY <2>4 DEF c
<1>5. sorted = [k \in 1..n |-> k]
  <2>1. DOMAIN keys = 1..n
    BY <1>1
  <2>2. sorted = [k \in DOMAIN keys |-> k]
    BY <1>3, <1>4, Zenon
  <2> QED  BY <2>1, <2>2
<1>6. sorted \in Seq(Nat) /\ Len(sorted) = n /\ DOMAIN sorted = 1..n
  BY <1>1, <1>5
<1>7. {sorted[k] : k \in 1..n} = 1..n
  BY <1>5
<1> QED  BY <1>6, <1>7 DEF KeysOf, sorted, n

LEMMA ListFollows ==
  ASSUME KeysOf(members)
  PROVE  \E f \in [0..Len(members) -> Seq(Nat)] :
           /\ f[0] = <<>>
           /\ \A k \in 1..Len(members) :
                f[k] = IF Multi!Found(members[k]) THEN Append(f[k - 1], members[k]) ELSE f[k - 1]
           /\ Multi!signaturesList = f[Len(members)]
<1> DEFINE n == Len(members)
           Extended(x, i) == IF Multi!Found(members[i]) THEN Append(x, members[i]) ELSE x
           F == [k \in Nat |-> [x \in Seq(Nat) |-> IF k \in 1..n THEN Extended(x, k) ELSE x]]
           G(f) == [i \in 0..n |-> IF i = 0 THEN <<>> ELSE Extended(f[i - 1], i)]
           list == CHOOSE f : f = [i \in 0..n |-> IF i = 0 THEN <<>> ELSE Extended(f[i - 1], i)]
<1>7. Multi!signaturesList = list[n]
  BY DEF Multi!signaturesList
<1>1. n \in Nat /\ n \in 0..n /\ \A k \in 1..n : members[k] \in Nat
  BY LenProperties DEF KeysOf
<1> HIDE DEF n
<1>2. F \in [Nat -> [Seq(Nat) -> Seq(Nat)]] /\ <<>> \in Seq(Nat)
  <2>1. ASSUME NEW x \in Seq(Nat), NEW k \in 1..n PROVE Extended(x, k) \in Seq(Nat)
    BY <1>1, AppendProperties
  <2> HIDE DEF Extended
  <2> QED  BY <2>1, EmptySeq
<1> HIDE DEF Extended
<1>3. PICK f \in [0..n -> Seq(Nat)] : Follows(f, n, <<>>, F)
  <2> HIDE DEF F
  <2> QED  BY <1>1, <1>2, Recursion
<1>4. \A k \in 1..n : f[k] = Extended(f[k - 1], k)
  <2> SUFFICES ASSUME NEW k \in 1..n PROVE f[k] = Extended(f[k - 1], k)
    OBVIOUS
  <2>1. k \in Nat /\ k - 1 \in 0..n
    BY <1>1
  <2>2. f[k] = F[k][f[k - 1]] /\ f[k - 1] \in Seq(Nat)
    BY <1>3, <2>1 DEF Follows
  <2> QED  BY <2>1, <2>2
<1> HIDE DEF F
<1>5. f = G(f)
  <2>1. f[0] = <<>> /\ 0 \in 0..n
    BY <1>1, <1>3 DEF Follows
  <2> QED  BY <1>4, <2>1
<1>6. list = G(list)
  BY <1>5
<1> HIDE DEF list
<1>8. list[0] = <<>> /\ \A k \in 1..n : list[k] = Extended(list[k - 1], k)
  BY <1>1, <1>6
<1>9. Alike(list, f, n)
  BY <1>3, <1>4, <1>8 DEF Follows, Alike
<1>10. \A k \in 0..n : list[k] = f[k]
  BY <1>1, <1>9, Agreement
<1>11. f[0] = <<>>
  BY <1>3 DEF Follows
<1> QED  BY <1>1, <1>4, <1>7, <1>10, <1>11 DEF n, Extended

LEMMA NextSelected ==
  ASSUME NEW S \in SUBSET Nat, NEW k \in Nat, IsFiniteSet(S), \A i \in S : i <= k
  PROVE  IsFiniteSet(S \cup {k + 1}) /\ Cardinality(S \cup {k + 1}) = Cardinality(S) + 1
<1>1. k + 1 \notin S
  OBVIOUS
<1> QED  BY <1>1, FS_AddElement

Selected(k) == {i \in 1..k : Multi!Found(members[i])}

\* After k keys: the bits that are set are those of the first k members who
\* signed, and their signatures are listed in the order of the bits.
SignersCounted(f, o, k) ==
  /\ f[k] \in Seq(Nat) /\ Len(f[k]) = o[k] /\ o[k] \in Nat
  /\ IsFiniteSet(Selected(k)) /\ o[k] = Cardinality(Selected(k))
  /\ \A i \in Selected(k) : o[i] \in 1..o[k] /\ f[k][o[i]] = members[i]

LEMMA SelectedNext ==
  ASSUME KeysOf(members), NEW f, NEW o, NEW k \in Nat, k + 1 \in 1..Len(members), SignersCounted(f, o, k),
         f[k + 1] = (IF Multi!Found(members[k + 1]) THEN Append(f[k], members[k + 1]) ELSE f[k]),
         o[k + 1] = o[k] + (IF Multi!Found(members[k + 1]) THEN 1 ELSE 0)
  PROVE  SignersCounted(f, o, k + 1)
<1> USE DEF SignersCounted
<1>1. members[k + 1] \in Nat
  BY LenProperties DEF KeysOf
<1>2. CASE Multi!Found(members[k + 1])
  <2>1. Selected(k + 1) = Selected(k) \cup {k + 1}
    BY <1>2 DEF Selected
  <2>2. IsFiniteSet(Selected(k + 1)) /\ Cardinality(Selected(k + 1)) = o[k + 1]
    <3>1. Selected(k) \in SUBSET Nat /\ \A i \in Selected(k) : i <= k
      BY DEF Selected
    <3> QED  BY <1>2, <2>1, <3>1, NextSelected
  <2>3. o[k + 1] = o[k] + 1 /\ o[k] \in Nat
    BY <1>2
  <2>4. /\ f[k + 1] \in Seq(Nat) /\ Len(f[k + 1]) = o[k] + 1 /\ f[k + 1][o[k] + 1] = members[k + 1]
        /\ \A j \in 1..o[k] : f[k + 1][j] = f[k][j]
    BY <1>1, <1>2, AppendProperties
  <2>5. ASSUME NEW i \in Selected(k + 1) PROVE o[i] \in 1..o[k + 1] /\ f[k + 1][o[i]] = members[i]
    <3>1. CASE i \in Selected(k)
      <4>1. o[i] \in 1..o[k] /\ f[k][o[i]] = members[i]
        BY <3>1
      <4> QED  BY SMTT(30), <2>3, <2>4, <4>1
    <3>2. CASE i = k + 1
      BY <2>3, <2>4, <3>2
    <3> QED  BY <2>1, <3>1, <3>2
  <2> QED  BY <2>2, <2>3, <2>4, <2>5
<1>3. CASE ~Multi!Found(members[k + 1])
  <2>1. Selected(k + 1) = Selected(k)
    BY <1>3 DEF Selected
  <2>2. o[k + 1] = o[k] /\ f[k + 1] = f[k]
    BY <1>3
  <2> QED  BY <2>1, <2>2
<1> QED  BY <1>2, <1>3

\* The chain accepts what was assembled if enough members are selected.
LEMMA AssembledIsValid ==
  ASSUME KeysOf(members), threshold \in Nat, Multi!Size = Len(members),
         \A i \in 1..Len(members) : Multi!Bit(i) <=> Multi!Found(members[i]),
         multiTx.signatures = Multi!signaturesList
  PROVE  Multi!Valid <=> Cardinality(Selected(Len(members))) >= threshold
<1> DEFINE n == Len(members)
           bit(i) == IF Multi!Bit(i) THEN 1 ELSE 0
           F == [k \in Nat |-> [x \in Nat |-> x + bit(k)]]
           G(g) == [i \in 0..n |-> IF i = 0 THEN 0 ELSE g[i - 1] + bit(i)]
           ones == CHOOSE g : g = [i \in 0..Multi!Size |-> IF i = 0 THEN 0 ELSE g[i - 1] + bit(i)]
<1>1. Multi!Valid <=>
        /\ Multi!Size = n
        /\ ones[Multi!Size] = Len(multiTx.signatures) /\ ones[Multi!Size] >= threshold
        /\ \A i \in 1..Multi!Size : Multi!Bit(i) => multiTx.signatures[ones[i]] = members[i]
  BY DEF Multi!Valid
<1> DEFINE counts == CHOOSE g : g = G(g)
<1>2. ones = counts /\ Multi!Size = n
  BY Zenon
<1> HIDE DEF ones, bit
<1>3. n \in Nat /\ n \in 0..n
  BY LenProperties DEF KeysOf
<1>4. \A i : bit(i) \in Nat
  BY DEF bit
<1> HIDE DEF n
<1>5. PICK g \in [0..n -> Nat] : Follows(g, n, 0, F)
  <2>1. F \in [Nat -> [Nat -> Nat]] /\ 0 \in Nat
    BY <1>4
  <2> HIDE DEF F
  <2> QED  BY <1>3, <2>1, Recursion
<1>6. g = G(g)
  <2>1. g[0] = 0 /\ 0 \in 0..n
    BY <1>3, <1>5 DEF Follows
  <2>2. ASSUME NEW k \in 1..n PROVE g[k] = g[k - 1] + bit(k)
    <3>1. k \in Nat /\ k - 1 \in 0..n /\ g[k - 1] \in Nat
      BY <1>3
    <3>2. g[k] = F[k][g[k - 1]]
      BY <1>5 DEF Follows
    <3> QED  BY <3>1, <3>2
  <2> QED  BY <2>1, <2>2
<1>7. counts = G(counts)
  BY <1>6
<1> HIDE DEF counts
<1>8. counts[0] = 0 /\ \A k \in 1..n : counts[k] = counts[k - 1] + bit(k)
  BY <1>3, <1>7
<1>9. PICK f \in [0..n -> Seq(Nat)] :
         /\ f[0] = <<>>
         /\ \A k \in 1..n : f[k] = IF Multi!Found(members[k]) THEN Append(f[k - 1], members[k]) ELSE f[k - 1]
         /\ Multi!signaturesList = f[n]
  BY ListFollows DEF n
<1> DEFINE P == {k \in 0..n : SignersCounted(f, counts, k)}
<1>10. 0 \in P
  <2>1. Selected(0) = {}
    BY DEF Selected
  <2>2. 0 \in 0..n
    BY <1>3
  <2>3. f[0] \in Seq(Nat) /\ Len(f[0]) = 0 /\ counts[0] = 0
    BY <1>8, <1>9, EmptySeq
  <2>4. SignersCounted(f, counts, 0)
    <3>1. IsFiniteSet(Selected(0)) /\ Cardinality(Selected(0)) = 0
      BY <2>1, FS_EmptySet
    <3>2. 0 \in Nat
      OBVIOUS
    <3> QED  BY <2>1, <2>3, <3>1, <3>2, Zenon DEF SignersCounted
  <2> HIDE DEF SignersCounted
  <2> QED  BY <2>2, <2>4
<1>11. ASSUME NEW k \in 0..(n - 1), k \in P PROVE k + 1 \in P
  <2>1. k \in Nat /\ k + 1 \in 1..n /\ k + 1 \in 0..n /\ (k + 1) - 1 = k
    BY <1>3
  <2>2. f[k + 1] = (IF Multi!Found(members[k + 1]) THEN Append(f[k], members[k + 1]) ELSE f[k])
    BY <1>9, <2>1
  <2>3. counts[k + 1] = counts[k] + (IF Multi!Found(members[k + 1]) THEN 1 ELSE 0)
    <3>1. bit(k + 1) = IF Multi!Found(members[k + 1]) THEN 1 ELSE 0
      BY <2>1 DEF bit, n
    <3> QED  BY <1>8, <2>1, <3>1
  <2>4. SignersCounted(f, counts, k)
    BY <1>11
  <2>5. SignersCounted(f, counts, k + 1)
    BY <2>1, <2>2, <2>3, <2>4, SelectedNext DEF n
  <2> QED  BY <2>1, <2>5
<1>12. SignersCounted(f, counts, n)
  <2> HIDE DEF P
  <2>1. 0..n \subseteq P
    BY <1>3, <1>10, <1>11, InductionTo
  <2> QED  BY <1>3, <2>1 DEF P
<1>13. counts[n] = Len(multiTx.signatures) /\ counts[n] = Cardinality(Selected(n))
  BY <1>9, <1>12 DEF SignersCounted
<1>14. \A i \in 1..n : Multi!Bit(i) => multiTx.signatures[counts[i]] = members[i]
  <2> SUFFICES ASSUME NEW i \in 1..n, Multi!Bit(i) PROVE multiTx.signatures[counts[i]] = members[i]
    OBVIOUS
  <2>1. i \in Selected(n)
    BY DEF Selected, n
  <2> QED  BY <1>9, <1>12, <2>1 DEF SignersCounted
<1> QED  BY <1>1, <1>2, <1>13, <1>14 DEF n

Marks == [i \in DOMAIN members |-> Multi!Found(members[i])]

\* What was assembled of the signatures that came in.
Assembled ==
  /\ multiTx.elems = Multi!makeCompactBitArray(Marks).elems
  /\ multiTx.extraBitsStored = Multi!makeCompactBitArray(Marks).extraBitsStored
  /\ multiTx.signatures = Multi!signaturesList

LEMMA PlaceOfBit ==
  ASSUME NEW n \in Nat, NEW i \in 1..n
  PROVE  LET k == (i - 1) \div 8 + 1
             j == ((i - 1) % 8) + 1
         IN k \in 1..((n + 7) \div 8) /\ j \in 1..8 /\ i = 8 * (k - 1) + j /\ 7 - ((i - 1) % 8) = 8 - j
OBVIOUS

LEMMA BitsAreMarks ==
  ASSUME KeysOf(members), Assembled, NEW i \in 1..Len(members)
  PROVE  Multi!Bit(i) <=> Multi!Found(members[i])
<1> DEFINE n == Len(members)
           bit(h) == IF h <= Len(Marks) /\ Marks[h] THEN 1 ELSE 0
           k == (i - 1) \div 8 + 1
           j == ((i - 1) % 8) + 1
           byte == [h \in 1..8 |-> bit(8 * (k - 1) + h)]
<1>1. n \in Nat /\ DOMAIN members = 1..n
  BY LenProperties DEF KeysOf
<1>2. Len(Marks) = n /\ Marks[i] = Multi!Found(members[i])
  <2>1. Marks = [h \in 1..n |-> Multi!Found(members[h])]
    BY <1>1 DEF Marks
  <2> HIDE DEF n
  <2> QED  BY <1>1, <2>1 DEF n
<1>3. k \in 1..((n + 7) \div 8) /\ j \in 1..8 /\ i = 8 * (k - 1) + j /\ 7 - ((i - 1) % 8) = 8 - j
  <2> HIDE DEF n
  <2>1. i \in 1..n
    BY DEF n
  <2> QED  BY <1>1, <2>1, PlaceOfBit
<1>4. multiTx.elems[k] = Multi!Number(2, byte)
  <2>1. multiTx.elems = [m \in 1..((Len(Marks) + 7) \div 8) |-> Multi!Number(2, [h \in 1..8 |-> bit(8 * (m - 1) + h)])]
    BY DEF Assembled, Multi!makeCompactBitArray
  <2> HIDE DEF bit, k, n
  <2>2. k \in 1..((Len(Marks) + 7) \div 8)
    BY <1>2, <1>3
  <2> QED  BY <2>1, <2>2
<1>5. Multi!Number(2, byte) = Number(2, byte) /\ Multi!Power(2, 8 - j) = Power(2, 8 - j)
  BY Zenon DEF Number, Multi!Number, Power, Multi!Power
<1>6. byte \in Seq(0..(2 - 1)) /\ Len(byte) = 8 /\ byte[j] = bit(i)
  <2>1. \A h : bit(h) \in 0..(2 - 1)
    OBVIOUS
  <2> HIDE DEF bit, k, j
  <2> QED  BY SMTT(30), <1>3, <2>1
<1>7. Multi!Bit(i) <=> (multiTx.elems[k] \div Multi!Power(2, 7 - ((i - 1) % 8))) % 2 = 1
  BY DEF Multi!Bit
<1> HIDE DEF bit, byte
<1>8. (Number(2, byte) \div Power(2, Len(byte) - j)) % 2 = byte[j]
  <2>1. 2 \in Nat \ {0} /\ j \in 1..Len(byte)
    BY <1>3, <1>6
  <2> HIDE DEF j
  <2> QED  BY <1>6, <2>1, DigitAt, Zenon
<1>9. Multi!Bit(i) <=> bit(i) = 1
  BY <1>3, <1>4, <1>5, <1>6, <1>7, <1>8
<1>10. bit(i) = 1 <=> Marks[i]
  <2>1. i <= Len(Marks)
    BY <1>1, <1>2
  <2> QED  BY <2>1 DEF bit
<1> QED  BY <1>2, <1>9, <1>10

LEMMA SizeIsKeys ==
  ASSUME KeysOf(members), Assembled
  PROVE  Multi!Size = Len(members)
<1> DEFINE n == Len(members)
<1>1. n \in Nat /\ DOMAIN members = 1..n
  BY LenProperties DEF KeysOf
<1>2. Len(Marks) = n
  BY <1>1 DEF Marks
<1>3. /\ Len(multiTx.elems) = (n + 7) \div 8
      /\ multiTx.extraBitsStored = n - (n \div 8) * 8
  <2>1. (n + 7) \div 8 \in Nat
    BY <1>1
  <2> QED  BY <1>2, <2>1 DEF Assembled, Multi!makeCompactBitArray
<1> HIDE DEF n
<1>4. Multi!Size = IF n - (n \div 8) * 8 = 0 THEN 8 * ((n + 7) \div 8) ELSE 8 * ((n + 7) \div 8 - 1) + (n - (n \div 8) * 8)
  BY <1>3 DEF Multi!Size
<1>5. Multi!Size = n
  BY <1>1, <1>4
<1> QED  BY <1>5 DEF n

\* Members by their place among the keys and by their rank.
LEMMA MembersWhoSigned ==
  ASSUME KeysOf(members)
  PROVE  Cardinality(Selected(Len(members))) = Cardinality({i \in 1..Len(members) : Multi!Found(i)})
<1> DEFINE n == Len(members)
           S == Selected(n)
           T == {i \in 1..n : Multi!Found(i)}
           f == [i \in S |-> members[i]]
<1>1. /\ n \in Nat /\ members \in [1..n -> 1..n]
      /\ \A i \in 1..n : \E j \in 1..n : members[j] = i
      /\ \A i, j \in 1..n : members[i] = members[j] => i = j
  BY KeysAreDistinct
<1>2. /\ \A i : i \in T <=> i \in 1..n /\ Multi!Found(i)
      /\ S = {i \in 1..n : Multi!Found(members[i])}
  BY DEF Selected
<1> HIDE DEF n, S, T
<1>3. f \in [S -> T] /\ (\A x \in T : \E i \in S : f[i] = x) /\ \A x, y \in S : f[x] = f[y] => x = y
  BY <1>1, <1>2
<1>4. IsFiniteSet(S)
  BY <1>1, <1>2, FS_Interval, FS_Subset
<1> HIDE DEF f
<1>5. f \in Surjection(S, T) /\ f \in Injection(S, T)
  BY <1>3 DEF Surjection, Injection, IsInjective
<1> QED  BY <1>4, <1>5, FS_Surjection DEF S, T, n

MultiInv ==
  /\ KeysOf(given) /\ threshold \in Nat
  /\ collecting \in {"new", "collecting", "sent", "accepted", "rejected", "failed"}
  /\ collecting \in {"collecting", "sent"} => KeysOf(members) /\ Len(members) = Len(given)
  /\ collecting = "sent" => Assembled
  /\ Multi!MultisigAccepted

LEMMA MultiBegins == Multi!Init => MultiInv
<1> SUFFICES ASSUME Multi!Init PROVE MultiInv
  OBVIOUS
<1> QED  BY MultisigAssumption DEF MultisigAssumption, Multi!Init, MultiInv, Multi!MultisigAccepted, KeysOf

LEMMA MultiStep == MultiInv /\ [Multi!Next]_multisig => MultiInv'
<1> SUFFICES ASSUME MultiInv, [Multi!Next]_multisig PROVE MultiInv'
  OBVIOUS
<1>1. CASE Multi!createMultisigThresholdPubkey
  <2>1. KeysOf(Multi!Ascending(given)) /\ Len(Multi!Ascending(given)) = Len(given)
    BY AscendingKeys DEF MultiInv
  <2>2. /\ UNCHANGED <<given, threshold, signatures, prefix>>
        /\ \/ members' \in {given, Multi!Ascending(given)} /\ collecting' = "collecting"
           \/ collecting' = "failed"
    BY <1>1 DEF Multi!createMultisigThresholdPubkey
  <2>3. collecting' = "collecting" => KeysOf(members') /\ Len(members') = Len(given)
    BY <2>1, <2>2 DEF MultiInv
  <2> QED  BY <2>2, <2>3 DEF MultiInv, Multi!MultisigAccepted, KeysOf
<1>2. ASSUME NEW address \in Addresses, Multi!Collect(address) PROVE MultiInv'
  BY <1>2 DEF Multi!Collect, MultiInv, Multi!MultisigAccepted, KeysOf
<1>3. CASE Multi!makeMultisignedTx
  <2>1. UNCHANGED <<given, threshold, members, signatures, prefix>> /\ collecting = "collecting"
        /\ (collecting' = "failed" \/ collecting' = "sent")
    BY <1>3 DEF Multi!makeMultisignedTx
  <2>2. collecting' = "sent" => Assembled'
    BY <1>3, <2>1 DEF Multi!makeMultisignedTx, Assembled, Marks, Multi!signaturesList, Multi!Found
  <2> QED  BY <2>1, <2>2 DEF MultiInv, Multi!MultisigAccepted, KeysOf
<1>4. CASE Multi!Verify
  <2>1. UNCHANGED <<given, threshold, members, signatures, prefix, multiTx>> /\ collecting = "sent"
        /\ collecting' = IF Multi!Valid THEN "accepted" ELSE "rejected"
    BY <1>4 DEF Multi!Verify
  <2>2. KeysOf(members) /\ Len(members) = Len(given) /\ Assembled /\ threshold \in Nat
    BY <2>1 DEF MultiInv
  <2>3. Multi!Valid <=> Cardinality(Selected(Len(members))) >= threshold
    <3>1. Multi!Size = Len(members) /\ \A i \in 1..Len(members) : Multi!Bit(i) <=> Multi!Found(members[i])
      BY <2>2, SizeIsKeys, BitsAreMarks
    <3> QED  BY <2>2, <3>1, AssembledIsValid DEF Assembled
  <2> DEFINE signers == {i \in 1..Len(given) : <<prefix, i>> \in signatures}
  <2>4. signers = {i \in 1..Len(members) : Multi!Found(i)}
    BY <2>2 DEF Multi!Found
  <2>5. Multi!Cardinality(signers) = Cardinality(signers)
    BY Zenon DEF Multi!Cardinality, Cardinality
  <2>6. signers' = signers
    BY <2>1
  <2>7. Multi!MultisigAccepted' <=>
          (collecting' \in {"accepted", "rejected"} => (collecting' = "accepted" <=> Multi!Cardinality(signers') >= threshold'))
    BY DEF Multi!MultisigAccepted
  <2> HIDE DEF signers
  <2>8. Multi!Valid <=> Multi!Cardinality(signers) >= threshold
    BY <2>2, <2>3, <2>4, <2>5, MembersWhoSigned
  <2>9. Multi!MultisigAccepted'
    BY <2>1, <2>6, <2>7, <2>8
  <2>10. collecting' \in {"accepted", "rejected"}
    BY <2>1
  <2> QED  BY <2>1, <2>9, <2>10 DEF MultiInv, KeysOf
<1>5. CASE UNCHANGED multisig
  BY <1>5 DEF multisig, MultiInv, Multi!MultisigAccepted, KeysOf, Assembled, Marks, Multi!signaturesList, Multi!Found
<1> QED  BY <1>1, <1>2, <1>3, <1>4, <1>5 DEF Multi!Next

(* The chain accepts a multisig transaction exactly when enough members have  *)
(* signed under the prefix of the address that came first into the Map, for   *)
(* any number and order of the members' keys, any threshold, and any other    *)
(* addresses in the Map.                                                      *)
THEOREM MultisigsAreAccepted == Multi!Spec => []Multi!MultisigAccepted
<1>1. MultiInv /\ [Multi!Next]_(Multi!vars) => MultiInv'
  BY MultiStep DEF Multi!vars, multisig
<1>2. MultiInv => Multi!MultisigAccepted
  BY DEF MultiInv
<1> QED  BY <1>1, <1>2, MultiBegins, PTL DEF Multi!Spec

\* The same of the behaviours of all parts, of which the run looks at a few.
THEOREM MultisigOfThePart == PartsSpec => []MultisigAccepted
<1> DEFINE Inv == part = "multisig" => MultiInv
<1>1. PartsInit => Inv
  BY MultiBegins DEF PartsInit
<1>2. Inv /\ [PartsNext]_partsVars => Inv'
  <2> SUFFICES ASSUME Inv, [PartsNext]_partsVars, part' = "multisig" PROVE MultiInv'
    OBVIOUS
  <2>1. part = "multisig" /\ [Multi!Next]_multisig
    BY DEF PartsNext, partsVars
  <2> QED  BY <2>1, MultiStep
<1>3. Inv => MultisigAccepted
  BY DEF MultiInv, MultisigAccepted
<1> QED  BY <1>1, <1>2, <1>3, PTL DEF PartsSpec, partsVars
-----------------------------------------------------------------------------
(* HdWallet.                                                                  *)
LEMMA HdNumerals ==
  /\ \A base, n : Hd!Power(base, n) = Power(base, n)
  /\ \A base, d : Hd!Number(base, d) = Number(base, d)
BY Zenon DEF Number, Hd!Number, Power, Hd!Power

LEMMA TwoBits == 2 \in Nat \ {0} /\ 0..(2 - 1) = 0..1 /\ 0..1 \subseteq Nat /\ 0..1 = {0, 1}
OBVIOUS

LEMMA BitsType ==
  ASSUME NEW ws \in Seq(Nat), NEW w \in Nat \ {0}
  PROVE  /\ Hd!Bits(ws, w) \in Seq(0..1) /\ Len(Hd!Bits(ws, w)) = w * Len(ws)
         /\ \A k \in 1..Len(ws), j \in 1..w : Hd!Bits(ws, w)[(k - 1) * w + j] = (ws[k] \div Power(2, w - j)) % 2
<1> DEFINE n == Len(ws)
           bit(i) == (ws[(i - 1) \div w + 1] \div Power(2, (w - 1) - ((i - 1) % w))) % 2
           bits == [i \in 1..(w * n) |-> bit(i)]
<1>1. Hd!Bits(ws, w) = bits
  BY HdNumerals DEF Hd!Bits
<1>2. n \in Nat /\ w * n \in Nat /\ \A k \in 1..n : ws[k] \in Nat
  BY LenProperties, ElementOfSeq
<1> HIDE DEF n, bit
<1>3. ASSUME NEW k \in 1..n, NEW j \in 1..w
      PROVE  /\ (k - 1) * w + j \in 1..(w * n)
             /\ bit((k - 1) * w + j) = (ws[k] \div Power(2, w - j)) % 2
  <2> DEFINE i == (k - 1) * w + j
  <2>1. i \in 1..(w * n) /\ (i - 1) \div w = k - 1 /\ (i - 1) % w = j - 1
    BY SMTT(30), <1>2, PlaceInGroup
  <2> HIDE DEF i
  <2>2. (i - 1) \div w + 1 = k /\ (w - 1) - ((i - 1) % w) = w - j
    BY <1>2, <2>1
  <2> QED  BY <2>1, <2>2 DEF bit, i
<1>4. ASSUME NEW i \in 1..(w * n) PROVE bit(i) \in 0..1
  <2> DEFINE k == (i - 1) \div w + 1
             j == ((i - 1) % w) + 1
  <2>1. k \in 1..n /\ j \in 1..w /\ i = (k - 1) * w + j
    BY <1>2, GroupOfPlace
  <2> HIDE DEF k, j
  <2>2. bit(i) = (ws[k] \div Power(2, w - j)) % 2
    BY <1>3, <2>1
  <2>3. w - j \in Nat /\ ws[k] \in Nat
    BY <1>2, <2>1
  <2>4. Power(2, w - j) \in Nat \ {0}
    BY <2>3, TwoBits, PowerPositive, Zenon
  <2>5. ws[k] \div Power(2, w - j) \in Nat
    BY <2>3, <2>4, Division
  <2> DEFINE x == ws[k] \div Power(2, w - j)
  <2> HIDE DEF x
  <2>6. x \in Nat => x % 2 \in 0..1
    OBVIOUS
  <2> QED  BY <2>2, <2>5, <2>6 DEF x
<1>5. bits \in Seq(0..1) /\ Len(bits) = w * n
  BY <1>2, <1>4
<1>6. \A k \in 1..n, j \in 1..w : bits[(k - 1) * w + j] = (ws[k] \div Power(2, w - j)) % 2
  BY <1>3
<1> QED  BY <1>1, <1>5, <1>6 DEF n

LEMMA NumbersType ==
  ASSUME NEW b \in Seq(0..1), NEW w \in Nat \ {0}, NEW m \in Nat, Len(b) = w * m
  PROVE  /\ Hd!Numbers(b, w) \in Seq(0..(Power(2, w) - 1)) /\ Hd!Numbers(b, w) \in Seq(Nat)
         /\ Len(Hd!Numbers(b, w)) = m
         /\ \A k \in 1..m, j \in 1..w : (Hd!Numbers(b, w)[k] \div Power(2, w - j)) % 2 = b[(k - 1) * w + j]
<1> DEFINE group(k) == [j \in 1..w |-> b[(k - 1) * w + j]]
           numbers == [k \in 1..m |-> Number(2, group(k))]
<1>1. Hd!Numbers(b, w) = [k \in 1..(Len(b) \div w) |-> Number(2, group(k))]
  BY HdNumerals DEF Hd!Numbers
<1>2. Len(b) \div w = m
  <2>1. 0 \in 0..(w - 1)
    OBVIOUS
  <2>2. (m * w + 0) \div w = m
    BY <2>1, UniqueDivision
  <2>3. m * w + 0 = w * m
    OBVIOUS
  <2> QED  BY <2>2, <2>3
<1>3. ASSUME NEW k \in 1..m
      PROVE  group(k) \in Seq(0..1) /\ Len(group(k)) = w
  <2>1. \A j \in 1..w : b[(k - 1) * w + j] \in 0..1
    <3> SUFFICES ASSUME NEW j \in 1..w PROVE b[(k - 1) * w + j] \in 0..1
      OBVIOUS
    <3>1. (k - 1) * w + j \in 1..Len(b)
      BY PlaceInGroup
    <3> QED  BY <3>1, ElementOfSeq
  <2> QED  BY <2>1
<1>4. ASSUME NEW k \in 1..m
      PROVE  /\ Number(2, group(k)) \in 0..(Power(2, w) - 1) /\ Number(2, group(k)) \in Nat
             /\ \A j \in 1..w : (Number(2, group(k)) \div Power(2, w - j)) % 2 = b[(k - 1) * w + j]
  <2>1. group(k) \in Seq(0..(2 - 1)) /\ Len(group(k)) = w
    BY <1>3, TwoBits
  <2>2. \A j \in 1..w : group(k)[j] = b[(k - 1) * w + j]
    OBVIOUS
  <2> HIDE DEF group
  <2>3. Number(2, group(k)) \in Nat /\ Number(2, group(k)) < Power(2, w)
    BY <2>1, TwoBits, NumberBelow
  <2>4. ASSUME NEW j \in 1..w PROVE (Number(2, group(k)) \div Power(2, w - j)) % 2 = group(k)[j]
    <3>1. j \in 1..Len(group(k))
      BY <2>1
    <3>2. (Number(2, group(k)) \div Power(2, Len(group(k)) - j)) % 2 = group(k)[j]
      BY <2>1, <3>1, TwoBits, DigitAt, ZenonT(30)
    <3> QED  BY <2>1, <3>2
  <2>5. Power(2, w) \in Nat
    BY PowerType
  <2> QED  BY <2>2, <2>3, <2>4, <2>5
<1> HIDE DEF group
<1>5. numbers \in Seq(0..(Power(2, w) - 1)) /\ numbers \in Seq(Nat) /\ Len(numbers) = m
  BY <1>4
<1>6. Hd!Numbers(b, w) = numbers
  BY <1>1, <1>2
<1> QED  BY <1>4, <1>5, <1>6

LEMMA HasBits ==
  \A w, x \in Nat : x < Power(2, w) => \E d \in Seq(0..(2 - 1)) : Len(d) = w /\ Number(2, d) = x
<1> DEFINE base == 2
<1>1. base \in Nat \ {0}
  OBVIOUS
<1> HIDE DEF base
<1>2. \A w, x \in Nat : x < Power(base, w) => \E d \in Seq(0..(base - 1)) : Len(d) = w /\ Number(base, d) = x
  BY <1>1, HasDigits, Zenon
<1> QED  BY <1>2, Zenon DEF base

\* Numbers are what their bits stand for.
LEMMA NumbersOfBits ==
  ASSUME NEW w \in Nat \ {0}, NEW ws \in Seq(0..(Power(2, w) - 1))
  PROVE  ws \in Seq(Nat) /\ Hd!Numbers(Hd!Bits(ws, w), w) = ws
<1> DEFINE n == Len(ws)
           b == Hd!Bits(ws, w)
           group(k) == [j \in 1..w |-> b[(k - 1) * w + j]]
<1>1. ws \in Seq(Nat) /\ n \in Nat /\ \A k \in 1..n : ws[k] \in Nat /\ ws[k] < Power(2, w)
  <2>1. Power(2, w) \in Nat
    BY PowerType
  <2> DEFINE S == 0..(Power(2, w) - 1)
  <2>2. S \subseteq Nat /\ \A x \in S : x \in Nat /\ x < Power(2, w)
    BY <2>1
  <2>3. ws \in Seq(S)
    OBVIOUS
  <2> HIDE DEF S
  <2> QED  BY <2>2, <2>3, SeqMonotonic, LenProperties, ElementOfSeq
<1>2. /\ b \in Seq(0..1) /\ Len(b) = w * n
      /\ \A k \in 1..n, j \in 1..w : b[(k - 1) * w + j] = (ws[k] \div Power(2, w - j)) % 2
  BY <1>1, BitsType
<1> HIDE DEF n, b
<1>3. ASSUME NEW k \in 1..n PROVE Number(2, group(k)) = ws[k]
  <2>1. PICK d \in Seq(0..(2 - 1)) : Len(d) = w /\ Number(2, d) = ws[k]
    <3>1. w \in Nat /\ ws[k] \in Nat /\ ws[k] < Power(2, w)
      BY <1>1
    <3> QED  BY <3>1, HasBits
  <2>2. ASSUME NEW j \in 1..w PROVE d[j] = b[(k - 1) * w + j]
    <3>1. j \in 1..Len(d)
      BY <2>1
    <3>2. (Number(2, d) \div Power(2, Len(d) - j)) % 2 = d[j]
      BY <3>1, TwoBits, DigitAt, Zenon
    <3> QED  BY <1>2, <2>1, <3>2
  <2>3. d = group(k)
    <3>1. d = [j \in 1..w |-> d[j]]
      BY <2>1, LenProperties
    <3> QED  BY <2>2, <3>1
  <2> QED  BY <2>1, <2>3
<1>4. Hd!Numbers(b, w) = [k \in 1..(Len(b) \div w) |-> Number(2, group(k))]
  BY HdNumerals DEF Hd!Numbers
<1>5. Len(Hd!Numbers(b, w)) = n /\ Hd!Numbers(b, w) \in Seq(Nat)
  BY <1>1, <1>2, NumbersType
<1>6. ASSUME NEW k \in 1..n PROVE Hd!Numbers(b, w)[k] = ws[k]
  <2>1. DOMAIN Hd!Numbers(b, w) = 1..n
    BY <1>5, LenProperties
  <2> HIDE DEF group
  <2>2. DOMAIN Hd!Numbers(b, w) = 1..(Len(b) \div w)
    BY <1>4
  <2>3. Hd!Numbers(b, w)[k] = Number(2, group(k))
    BY <1>4, <2>1, <2>2
  <2> QED  BY <1>3, <2>3
<1>7. Hd!Numbers(b, w) = ws
  BY <1>1, <1>5, <1>6, SeqEqual DEF n
<1> QED  BY <1>1, <1>7 DEF b

\* Bits are those of the numbers they make.
LEMMA BitsOfNumbers ==
  ASSUME NEW b \in Seq(0..1), NEW w \in Nat \ {0}, NEW m \in Nat, Len(b) = w * m
  PROVE  Hd!Bits(Hd!Numbers(b, w), w) = b
<1> DEFINE ws == Hd!Numbers(b, w)
           c == Hd!Bits(ws, w)
<1>1. /\ ws \in Seq(Nat) /\ Len(ws) = m
      /\ \A k \in 1..m, j \in 1..w : (ws[k] \div Power(2, w - j)) % 2 = b[(k - 1) * w + j]
  BY NumbersType
<1> HIDE DEF ws
<1>2. /\ c \in Seq(0..1) /\ Len(c) = w * m
      /\ \A k \in 1..m, j \in 1..w : c[(k - 1) * w + j] = (ws[k] \div Power(2, w - j)) % 2
  BY <1>1, BitsType
<1> HIDE DEF c
<1>3. ASSUME NEW i \in 1..(w * m) PROVE c[i] = b[i]
  <2> DEFINE k == (i - 1) \div w + 1
             j == ((i - 1) % w) + 1
  <2>1. k \in 1..m /\ j \in 1..w /\ i = (k - 1) * w + j
    BY GroupOfPlace
  <2> HIDE DEF k, j
  <2> QED  BY <1>1, <1>2, <2>1
<1>4. c = b
  BY <1>2, <1>3, SeqEqual
<1> QED  BY <1>4 DEF c, ws
-----------------------------------------------------------------------------
Byte == 0..(Power(2, ByteBits) - 1)
Word == 0..(Power(2, WordBits) - 1)
IsEntropy(e, u) == e \in Seq(Byte) /\ Len(e) = 4 * u

LEMMA WalletNumbers ==
  /\ ByteBits \in Nat \ {0} /\ WordBits \in Nat \ {0} /\ Hd!Unit = 4 * ByteBits
  /\ Hd!Unit \in Nat \ {0} /\ Hd!Unit + 1 \in Nat \ {0} /\ \A u \in AllowedUnits : u \in Nat \ {0}
BY WalletAssumption DEF WalletAssumption, Hd!Unit

LEMMA Units ==
  ASSUME NEW u \in AllowedUnits
  PROVE  /\ ByteBits * (4 * u) = u * Hd!Unit /\ WordBits * (3 * u) = u * (Hd!Unit + 1)
         /\ u * (Hd!Unit + 1) = u * Hd!Unit + u /\ u * Hd!Unit \in Nat
         /\ (ByteBits * (4 * u)) \div Hd!Unit = u
         /\ (WordBits * (3 * u)) \div (Hd!Unit + 1) = u
<1>1. u \in Nat /\ ByteBits \in Nat /\ WordBits \in Nat /\ 3 * WordBits = 4 * ByteBits + 1
  BY WalletNumbers, WalletAssumption DEF WalletAssumption
<1>2. ByteBits * (4 * u) = u * (4 * ByteBits) /\ WordBits * (3 * u) = u * (3 * WordBits)
  BY <1>1
<1>3. u * (4 * ByteBits + 1) = u * (4 * ByteBits) + u /\ u * (4 * ByteBits) \in Nat
  BY <1>1
<1>4. ByteBits * (4 * u) = u * Hd!Unit /\ WordBits * (3 * u) = u * (Hd!Unit + 1)
  BY <1>1, <1>2, WalletNumbers
<1>5. (u * Hd!Unit + 0) \div Hd!Unit = u /\ (u * (Hd!Unit + 1) + 0) \div (Hd!Unit + 1) = u
  <2>1. 0 \in 0..(Hd!Unit - 1) /\ 0 \in 0..((Hd!Unit + 1) - 1)
    BY WalletNumbers
  <2> QED  BY <1>1, <2>1, WalletNumbers, UniqueDivision
<1>6. u * Hd!Unit + 0 = u * Hd!Unit /\ u * (Hd!Unit + 1) + 0 = u * (Hd!Unit + 1)
  BY <1>1, WalletNumbers
<1> QED  BY <1>3, <1>4, <1>5, <1>6, WalletNumbers

LEMMA ChecksumType ==
  ASSUME NEW u \in AllowedUnits, NEW e, IsEntropy(e, u)
  PROVE  Hd!deriveChecksumBits(e) \in Seq(0..1) /\ Len(Hd!deriveChecksumBits(e)) = u
<1> DEFINE h == Sha256(e)
<1>1. u \in Nat
  BY WalletNumbers
<1>2. h \in Seq(0..1) /\ Len(h) >= u /\ Len(h) \in Nat
  <2>1. e \in [1..(4 * u) -> 0..(Hd!Power(2, ByteBits) - 1)]
    BY HdNumerals, LenProperties DEF IsEntropy, Byte
  <2>2. h \in Seq({0, 1}) /\ Len(h) >= u
    BY <2>1, WalletAssumption DEF WalletAssumption
  <2> QED  BY <2>2, TwoBits, LenProperties
<1>3. Hd!deriveChecksumBits(e) = SubSeq(h, 1, u)
  BY Units DEF Hd!deriveChecksumBits, IsEntropy
<1> HIDE DEF h
<1>4. u \in 0..Len(h)
  BY <1>1, <1>2
<1> QED  BY <1>2, <1>3, <1>4, Split

\* A mnemonic of an entropy has three words for four bytes, and the entropy is
\* found in it again.
LEMMA WordsOfEntropy ==
  ASSUME NEW u \in AllowedUnits, NEW e, IsEntropy(e, u)
  PROVE  LET ws == Hd!entropyToMnemonic(e)
         IN ws \in Seq(Nat) /\ Len(ws) = 3 * u /\ Hd!mnemonicToEntropy(ws) = {e}
<1> DEFINE a == Hd!Bits(e, ByteBits)
           c == Hd!deriveChecksumBits(e)
           b == a \o c
           ws == Hd!Numbers(b, WordBits)
           divider == (Len(b) \div (Hd!Unit + 1)) * Hd!Unit
<1>1. u \in Nat /\ u * Hd!Unit \in Nat /\ e \in Seq(Byte) /\ e \in Seq(Nat) /\ Len(e) = 4 * u /\ Hd!Numbers(a, ByteBits) = e
  BY NumbersOfBits, WalletNumbers, Units DEF IsEntropy, Byte
<1>2. a \in Seq(0..1) /\ Len(a) = u * Hd!Unit
  <2>1. ByteBits \in Nat \ {0}
    BY WalletNumbers
  <2>2. a \in Seq(0..1) /\ Len(a) = ByteBits * Len(e)
    BY <1>1, <2>1, BitsType
  <2> QED  BY <1>1, <2>2, Units
<1>3. c \in Seq(0..1) /\ Len(c) = u
  BY ChecksumType
<1>4. Hd!entropyToMnemonic(e) = ws
  BY DEF Hd!entropyToMnemonic
<1> HIDE DEF a, c
<1>5. b \in Seq(0..1) /\ Len(b) = Len(a) + Len(c) /\ SubSeq(b, 1, Len(a)) = a /\ SubSeq(b, Len(a) + 1, Len(b)) = c
  <2>1. a \in Seq(0..1) /\ c \in Seq(0..1)
    BY <1>2, <1>3
  <2> DEFINE S == 0..1
  <2>2. a \in Seq(S) /\ c \in Seq(S)
    BY <2>1
  <2> HIDE DEF S
  <2>3. /\ a \o c \in Seq(S) /\ Len(a \o c) = Len(a) + Len(c)
        /\ SubSeq(a \o c, 1, Len(a)) = a /\ SubSeq(a \o c, Len(a) + 1, Len(a \o c)) = c
    BY <2>2, PartsOfConcat
  <2> QED  BY <2>3 DEF S
<1>6. Len(b) = WordBits * (3 * u) /\ 3 * u \in Nat
  BY <1>1, <1>2, <1>3, <1>5, Units
<1> HIDE DEF b
<1>7. ws \in Seq(Word) /\ ws \in Seq(Nat) /\ Len(ws) = 3 * u /\ Hd!Bits(ws, WordBits) = b
  BY ZenonT(30), <1>5, <1>6, NumbersType, BitsOfNumbers, WalletNumbers DEF Word
<1> HIDE DEF ws
<1>8. divider = Len(a)
  BY <1>2, <1>6, Units
<1> HIDE DEF divider
<1>9. Len(ws) \in {3 * v : v \in AllowedUnits} /\ \A i \in DOMAIN ws : ws[i] < Hd!Power(2, WordBits)
  <2>1. DOMAIN ws = 1..Len(ws) /\ \A i \in 1..Len(ws) : ws[i] \in Word
    BY <1>7, LenProperties, ElementOfSeq
  <2>2. Power(2, WordBits) \in Nat /\ Hd!Power(2, WordBits) = Power(2, WordBits)
    BY PowerType, WalletNumbers, HdNumerals
  <2>3. \A x \in Word : x < Power(2, WordBits)
    BY <2>2 DEF Word
  <2>4. \A i \in DOMAIN ws : ws[i] < Hd!Power(2, WordBits)
    BY <2>1, <2>2, <2>3
  <2>5. Len(ws) = 3 * u
    BY <1>7
  <2> QED  BY <2>4, <2>5
<1>10. Hd!mnemonicToEntropy(ws) = {e}
  <2>1. Hd!mnemonicToEntropy(ws) =
          {x \in {Hd!Numbers(SubSeq(b, 1, divider), ByteBits)} :
             /\ Len(ws) \in {3 * v : v \in AllowedUnits}
             /\ \A i \in DOMAIN ws : ws[i] < Hd!Power(2, WordBits)
             /\ Hd!deriveChecksumBits(x) = SubSeq(b, divider + 1, Len(b))}
    BY <1>7, Zenon DEF Hd!mnemonicToEntropy, divider
  <2>2. Hd!Numbers(SubSeq(b, 1, divider), ByteBits) = e /\ SubSeq(b, divider + 1, Len(b)) = Hd!deriveChecksumBits(e)
    BY <1>1, <1>5, <1>8 DEF c
  <2> QED  BY <1>9, <2>1, <2>2
<1> QED  BY <1>4, <1>7, <1>10

\* Words with an entropy are what it encodes to.
LEMMA EntropyOfWords ==
  ASSUME NEW ws \in Seq(Nat), NEW e \in Hd!mnemonicToEntropy(ws)
  PROVE  Hd!entropyToMnemonic(e) = ws
<1> DEFINE b == Hd!Bits(ws, WordBits)
           divider == (Len(b) \div (Hd!Unit + 1)) * Hd!Unit
           a == SubSeq(b, 1, divider)
           c == SubSeq(b, divider + 1, Len(b))
<1>1. /\ e = Hd!Numbers(a, ByteBits) /\ Hd!deriveChecksumBits(e) = c
      /\ Len(ws) \in {3 * v : v \in AllowedUnits} /\ \A i \in DOMAIN ws : ws[i] < Hd!Power(2, WordBits)
  BY DEF Hd!mnemonicToEntropy
<1>2. PICK u \in AllowedUnits : Len(ws) = 3 * u
  BY <1>1
<1>3. b \in Seq(0..1) /\ Len(b) = WordBits * (3 * u)
  BY <1>2, BitsType, WalletNumbers
<1>4. ws \in Seq(Word)
  <2>1. \A i \in 1..Len(ws) : ws[i] \in Word
    <3>1. DOMAIN ws = 1..Len(ws) /\ \A i \in 1..Len(ws) : ws[i] \in Nat
      BY LenProperties, ElementOfSeq
    <3>2. Power(2, WordBits) \in Nat
      BY PowerType, WalletNumbers
    <3>3. \A i \in 1..Len(ws) : ws[i] < Power(2, WordBits)
      BY <1>1, <3>1, HdNumerals, Zenon
    <3> HIDE DEF b
    <3> QED  BY <3>1, <3>2, <3>3 DEF Word
  <2>2. Len(ws) \in Nat /\ ws = [i \in 1..Len(ws) |-> ws[i]]
    BY LenProperties
  <2> HIDE DEF b
  <2> QED  BY <2>1, <2>2
<1>5. Hd!Numbers(b, WordBits) = ws
  BY <1>4, NumbersOfBits, WalletNumbers DEF Word
<1> HIDE DEF b
<1>6. divider = u * Hd!Unit /\ divider \in 0..Len(b) /\ u \in Nat
  <2>1. u \in Nat
    BY WalletNumbers
  <2>2. /\ Len(b) \div (Hd!Unit + 1) = u
        /\ Len(b) = u * Hd!Unit + u /\ u * Hd!Unit \in Nat
    BY <1>3, Units
  <2> QED  BY <2>1, <2>2
<1>7. a \in Seq(0..1) /\ Len(a) = divider /\ b = a \o c
  <2> HIDE DEF divider
  <2> QED  BY ZenonT(30), <1>3, <1>6, Split
<1> HIDE DEF a, c
<1>8. Hd!Bits(e, ByteBits) = a
  <2>1. 4 * u \in Nat /\ Len(a) = ByteBits * (4 * u)
    BY <1>6, <1>7, Units
  <2> QED  BY <1>1, <1>7, <2>1, BitsOfNumbers, WalletNumbers
<1> QED  BY <1>1, <1>5, <1>7, <1>8 DEF Hd!entropyToMnemonic
-----------------------------------------------------------------------------
HdPath == Seq(0..(2 * Half - 1))
AccountsOf(paths, hrp) == [i \in DOMAIN paths |-> [hdPath |-> paths[i], prefix |-> hrp]]
TextsOf(paths, hrp) == [i \in DOMAIN paths |-> [hdPath |-> Hd!pathToString(paths[i]), prefix |-> hrp]]

\* A path that was written is read again.
LEMMA PathsAreRead ==
  ASSUME NEW p \in HdPath
  PROVE  Hd!stringToPath(Hd!pathToString(p)) = {p}
<1> DEFINE text == Hd!pathToString(p)
           read == [i \in DOMAIN text |-> IF text[i].apostrophe THEN text[i].number + Half ELSE text[i].number]
<1>1. DOMAIN p = 1..Len(p) /\ p = [i \in DOMAIN p |-> p[i]] /\ \A i \in DOMAIN p : p[i] \in 0..(2 * Half - 1)
  BY LenProperties, ElementOfSeq DEF HdPath
<1>2. Half \in Nat
  BY WalletAssumption DEF WalletAssumption
<1>3. DOMAIN text = DOMAIN p /\ \A i \in DOMAIN p :
        /\ text[i].number = (IF p[i] >= Half THEN p[i] - Half ELSE p[i])
        /\ (p[i] >= Half => text[i].apostrophe) /\ (~(p[i] >= Half) => ~text[i].apostrophe)
  BY DEF Hd!pathToString
<1> HIDE DEF text
<1>4. \A i \in DOMAIN p : /\ ~(text[i].number >= Half)
                          /\ (IF text[i].apostrophe THEN text[i].number + Half ELSE text[i].number) = p[i]
  <2> SUFFICES ASSUME NEW i \in DOMAIN p
               PROVE  /\ ~(text[i].number >= Half)
                      /\ (IF text[i].apostrophe THEN text[i].number + Half ELSE text[i].number) = p[i]
    OBVIOUS
  <2>1. CASE p[i] >= Half
    <3>1. text[i].apostrophe /\ text[i].number = p[i] - Half
      BY <1>3, <2>1
    <3> QED  BY <1>1, <1>2, <2>1, <3>1
  <2>2. CASE ~(p[i] >= Half)
    <3>1. ~text[i].apostrophe /\ text[i].number = p[i]
      BY <1>3, <2>2
    <3> QED  BY <1>1, <1>2, <2>2, <3>1
  <2> QED  BY <2>1, <2>2
<1>5. read = p
  BY <1>1, <1>3, <1>4
<1>6. Hd!stringToPath(text) = {read}
  BY <1>3, <1>4 DEF Hd!stringToPath
<1> QED  BY <1>5, <1>6 DEF text

LEMMA EntropyUnits ==
  ASSUME NEW e \in Entropies
  PROVE  /\ e # <<>> /\ Hd!entropyToMnemonic(e) \in Seq(Nat) /\ Hd!entropyToMnemonic(e) # <<>>
         /\ Hd!mnemonicToEntropy(Hd!entropyToMnemonic(e)) = {e}
<1>1. PICK u \in AllowedUnits : e \in [1..(4 * u) -> 0..(Hd!Power(2, ByteBits) - 1)]
  BY WalletAssumption DEF WalletAssumption
<1>2. u \in Nat \ {0}
  BY WalletNumbers
<1>3. e \in [1..(4 * u) -> Byte] /\ 4 * u \in Nat
  BY <1>1, <1>2, HdNumerals DEF Byte
<1>4. IsEntropy(e, u)
  BY <1>3 DEF IsEntropy
<1> DEFINE ws == Hd!entropyToMnemonic(e)
<1>5. ws \in Seq(Nat) /\ Len(ws) = 3 * u /\ Hd!mnemonicToEntropy(ws) = {e}
  BY <1>4, WordsOfEntropy
<1> HIDE DEF ws
<1>6. ws # <<>> /\ e # <<>>
  BY <1>2, <1>4, <1>5 DEF IsEntropy
<1> QED  BY <1>5, <1>6 DEF ws

\* The words come from entropy that the wallet drew or from the user, an open
\* wallet holds them, and a document what the wallet held.
WordsInv ==
  \/ entropy \in Entropies /\ words = Hd!entropyToMnemonic(entropy)
  \/ entropy \in Entropies /\ words = <<>> /\ opening = "new"
  \/ entropy = <<>> /\ words \in TypedWords

HoldsWords ==
  /\ Hd!mnemonicToEntropy(words) # {}
  /\ wallet.secret = words /\ wallet.password \in {options.bip39Password, ""}
  /\ wallet.accounts = AccountsOf(options.hdPaths, options.prefix)

WasSaved ==
  document.mnemonic = words /\ document.accounts = TextsOf(options.hdPaths, options.prefix)

FailedForAReason ==
  \/ mistyped \/ options.hdPaths = <<>>
  \/ entropy = <<>> /\ \A e \in Entropies : Hd!entropyToMnemonic(e) # words

WalletInv ==
  /\ opening \in {"new", "open", "saved", "failed"}
  /\ options.hdPaths \in Seq(HdPath)
  /\ WordsInv
  /\ opening \in {"open", "saved"} => HoldsWords
  /\ opening = "saved" => WasSaved
  /\ opening = "failed" => FailedForAReason

LEMMA WordsAreNumbers ==
  ASSUME WordsInv
  PROVE  words \in Seq(Nat)
<1>1. TypedWords \subseteq Seq(Nat) /\ <<>> \in Seq(Nat)
  BY WalletAssumption DEF WalletAssumption
<1>2. \A e \in Entropies : Hd!entropyToMnemonic(e) \in Seq(Nat)
  BY EntropyUnits
<1> QED  BY <1>1, <1>2 DEF WordsInv

LEMMA WalletIsRestored ==
  ASSUME WalletInv
  PROVE  Hd!RestoredIsTheSame
<1>1. CASE opening \in {"open", "saved"}
  <2>1. HoldsWords
    BY <1>1 DEF WalletInv
  <2>2. options.bip39Password = "" =>
          Hd!getAccounts(wallet) =
            [i \in DOMAIN options.hdPaths |->
               [seed |-> <<words, "">>, account |-> [hdPath |-> options.hdPaths[i], prefix |-> options.prefix]]]
    BY <2>1 DEF HoldsWords, AccountsOf, Hd!getAccounts
  <2>3. PICK e \in Hd!mnemonicToEntropy(words) : TRUE
    BY <2>1 DEF HoldsWords
  <2>4. Hd!entropyToMnemonic(e) = words
    BY WordsAreNumbers, EntropyOfWords DEF WalletInv
  <2>5. entropy # <<>> => e = entropy
    BY <1>1, <2>3, EntropyUnits DEF WalletInv, WordsInv
  <2> QED  BY <1>1, <2>2, <2>3, <2>4, <2>5 DEF Hd!RestoredIsTheSame
<1>2. CASE opening = "failed"
  BY <1>2 DEF WalletInv, FailedForAReason, Hd!RestoredIsTheSame
<1>3. CASE opening = "new"
  BY <1>3 DEF Hd!RestoredIsTheSame
<1> QED  BY <1>1, <1>2, <1>3 DEF WalletInv

LEMMA WalletBegins == Hd!Init => WalletInv
<1> SUFFICES ASSUME Hd!Init PROVE WalletInv
  OBVIOUS
<1>1. options.hdPaths \in HdPathLists /\ opening = "new"
  BY DEF Hd!Init
<1>2. options.hdPaths \in Seq(HdPath)
  BY <1>1, WalletAssumption DEF WalletAssumption, HdPath
<1>3. WordsInv
  BY DEF Hd!Init, WordsInv
<1> QED  BY <1>1, <1>2, <1>3 DEF WalletInv

\* What fromMnemonic gives.
LEMMA OpenedWallet ==
  \A ws, password, paths, hrp :
         /\ Hd!fromMnemonic(ws, password, paths, hrp) = {} <=> Hd!mnemonicToEntropy(ws) = {}
         /\ \A x \in Hd!fromMnemonic(ws, password, paths, hrp) :
              /\ Hd!mnemonicToEntropy(ws) # {}
              /\ x.secret = ws /\ x.password = password /\ x.accounts = AccountsOf(paths, hrp)
<1> TAKE ws, password, paths, hrp
<1> DEFINE M == Hd!mnemonicToEntropy(ws)
           w == [secret |-> ws, password |-> password, accounts |-> AccountsOf(paths, hrp)]
<1>1. Hd!fromMnemonic(ws, password, paths, hrp) = {w : e \in M}
  BY DEF Hd!fromMnemonic, AccountsOf
<1>2. w.secret = ws /\ w.password = password /\ w.accounts = AccountsOf(paths, hrp)
  OBVIOUS
<1> HIDE DEF M, w
<1>3. ({w : e \in M} = {} <=> M = {}) /\ \A x \in {w : e \in M} : M # {} /\ x = w
  OBVIOUS
<1> QED  BY <1>1, <1>2, <1>3 DEF M

LEMMA WalletOpens ==
  ASSUME WalletInv, WordsInv', options' = options, document' = document,
         Hd!Open(words'), opening = "new", words' # <<>>, entropy' = entropy
  PROVE  WalletInv'
<1> DEFINE ws == Hd!fromMnemonic(words', options.bip39Password, options.hdPaths, options.prefix)
<1>1. \/ ws = {} /\ opening' = "failed"
      \/ wallet' \in ws /\ opening' = "open"
  BY DEF Hd!Open, Hd!OpenOrFail
<1>2. options'.hdPaths \in Seq(HdPath)
  BY DEF WalletInv
<1>3. CASE ws = {} /\ opening' = "failed"
  <2>1. Hd!mnemonicToEntropy(words') = {}
    BY <1>3, OpenedWallet
  <2>2. \A e \in Entropies : Hd!entropyToMnemonic(e) # words'
    BY <2>1, EntropyUnits
  <2>3. entropy' = <<>>
    BY <2>2, <1>3 DEF WordsInv
  <2>4. FailedForAReason'
    BY <2>2, <2>3 DEF FailedForAReason
  <2> QED  BY <1>2, <1>3, <2>4 DEF WalletInv
<1>4. CASE wallet' \in ws /\ opening' = "open"
  <2>1. /\ Hd!mnemonicToEntropy(words') # {}
        /\ wallet'.secret = words' /\ wallet'.password = options.bip39Password
        /\ wallet'.accounts = AccountsOf(options.hdPaths, options.prefix)
    BY <1>4, OpenedWallet
  <2>2. HoldsWords'
    BY <2>1 DEF HoldsWords, AccountsOf
  <2> QED  BY <1>2, <1>4, <2>2 DEF WalletInv
<1> QED  BY <1>1, <1>3, <1>4

LEMMA WalletIsRead ==
  ASSUME WalletInv, NEW password, Hd!deserialize(password)
  PROVE  WalletInv'
<1> DEFINE accts == document.accounts
           paths == [i \in DOMAIN accts |-> Hd!stringToPath(accts[i].hdPath)]
           read  == [i \in DOMAIN paths |-> CHOOSE p \in paths[i] : TRUE]
           ws    == IF password # document.key \/ accts = <<>> \/ \E i \in DOMAIN paths : paths[i] = {} THEN {}
                    ELSE Hd!fromMnemonic(document.mnemonic, "", read, accts[1].prefix)
<1>1. /\ opening = "saved" /\ mistyped' = (password # document.key)
      /\ UNCHANGED <<entropy, words, options, document>>
      /\ \/ ws = {} /\ opening' = "failed"
         \/ wallet' \in ws /\ opening' = "open"
  BY DEF Hd!deserialize, Hd!OpenOrFail
<1>2. HoldsWords /\ WasSaved /\ WordsInv /\ options.hdPaths \in Seq(HdPath)
  BY <1>1 DEF WalletInv
<1>3. WordsInv' /\ options'.hdPaths \in Seq(HdPath)
  BY <1>1, <1>2 DEF WordsInv, HoldsWords
<1>4. DOMAIN accts = DOMAIN options.hdPaths /\ \A i \in DOMAIN options.hdPaths :
        accts[i].hdPath = Hd!pathToString(options.hdPaths[i]) /\ accts[i].prefix = options.prefix
  BY <1>2 DEF WasSaved, TextsOf
<1>5. DOMAIN options.hdPaths = 1..Len(options.hdPaths) /\ Len(options.hdPaths) \in Nat
      /\ options.hdPaths = [i \in DOMAIN options.hdPaths |-> options.hdPaths[i]]
      /\ \A i \in DOMAIN options.hdPaths : options.hdPaths[i] \in HdPath
  BY <1>2, LenProperties, ElementOfSeq
<1> HIDE DEF accts
<1>6. DOMAIN paths = DOMAIN options.hdPaths /\ \A i \in DOMAIN options.hdPaths : paths[i] = {options.hdPaths[i]}
  BY <1>4, <1>5, PathsAreRead
<1> HIDE DEF paths
<1>7. read = options.hdPaths
  BY <1>5, <1>6
<1> HIDE DEF read
<1>8. options.hdPaths # <<>> => accts # <<>> /\ accts[1].prefix = options.prefix
  BY <1>4, <1>5
<1>9. CASE ws = {} /\ opening' = "failed"
  <2>1. mistyped' \/ options.hdPaths = <<>>
    <3> SUFFICES ASSUME ~mistyped', options.hdPaths # <<>> PROVE FALSE
      OBVIOUS
    <3>1. ws = Hd!fromMnemonic(document.mnemonic, "", read, accts[1].prefix)
      BY <1>1, <1>6, <1>8
    <3>2. Hd!mnemonicToEntropy(document.mnemonic) = {}
      <4>1. Hd!fromMnemonic(document.mnemonic, "", read, accts[1].prefix) = {}
        BY <1>9, <3>1
      <4> DEFINE m == document.mnemonic
                 none == ""
                 hrp == accts[1].prefix
      <4>2. Hd!fromMnemonic(m, none, read, hrp) = {}
        BY <4>1
      <4> HIDE DEF ws, m, none, hrp
      <4>3. Hd!mnemonicToEntropy(m) = {}
        BY <4>2, OpenedWallet
      <4> QED  BY <4>3 DEF m
    <3> QED  BY <1>2, <3>2 DEF HoldsWords, WasSaved
  <2>2. FailedForAReason'
    BY <1>1, <2>1 DEF FailedForAReason
  <2> QED  BY <1>3, <1>9, <2>2 DEF WalletInv
<1>10. CASE wallet' \in ws /\ opening' = "open"
  <2>1. accts # <<>> /\ wallet' \in Hd!fromMnemonic(document.mnemonic, "", read, accts[1].prefix)
    BY <1>10
  <2>2. options.hdPaths # <<>>
    <3>1. options.hdPaths = <<>> => accts = <<>>
      BY <1>2 DEF accts, WasSaved, TextsOf
    <3> QED  BY <2>1, <3>1
  <2>3. /\ wallet'.secret = words /\ wallet'.password = ""
        /\ wallet'.accounts = AccountsOf(options.hdPaths, options.prefix)
        /\ Hd!mnemonicToEntropy(words) # {}
    <3>1. wallet' \in Hd!fromMnemonic(words, "", options.hdPaths, options.prefix)
      BY <1>2, <1>7, <1>8, <2>1, <2>2 DEF WasSaved
    <3> DEFINE none == ""
    <3>2. wallet' \in Hd!fromMnemonic(words, none, options.hdPaths, options.prefix)
      BY <3>1
    <3> HIDE DEF ws, none
    <3>3. /\ wallet'.secret = words /\ wallet'.password = none
          /\ wallet'.accounts = AccountsOf(options.hdPaths, options.prefix)
          /\ Hd!mnemonicToEntropy(words) # {}
      BY <3>2, OpenedWallet
    <3> QED  BY <3>3 DEF none
  <2>4. HoldsWords'
    BY <1>1, <2>3 DEF HoldsWords
  <2> QED  BY <1>3, <1>10, <2>4 DEF WalletInv
<1> HIDE DEF ws
<1> QED  BY <1>1, <1>9, <1>10

LEMMA WalletStep == WalletInv /\ [Hd!Next]_(Hd!vars) => WalletInv'
<1> SUFFICES ASSUME WalletInv, [Hd!Next]_(Hd!vars) PROVE WalletInv'
  OBVIOUS
<1>1. CASE Hd!generate
  <2>1. opening = "new" /\ words = <<>> /\ words' = Hd!entropyToMnemonic(entropy) /\ Hd!Open(words')
        /\ entropy' = entropy /\ options' = options /\ document' = document
    BY <1>1 DEF Hd!generate
  <2>2. entropy \in Entropies
    BY <2>1, WalletAssumption DEF WalletInv, WordsInv, WalletAssumption
  <2>3. WordsInv' /\ words' # <<>>
    BY <2>1, <2>2, EntropyUnits DEF WordsInv
  <2> QED  BY <2>1, <2>3, WalletOpens
<1>2. CASE Hd!Restore
  <2>1. opening = "new" /\ words # <<>> /\ words' = words /\ Hd!Open(words')
        /\ entropy' = entropy /\ options' = options /\ document' = document
    BY <1>2 DEF Hd!Restore, Hd!Open
  <2>2. WordsInv'
    BY <2>1 DEF WalletInv, WordsInv
  <2> QED  BY <2>1, <2>2, WalletOpens
<1>3. ASSUME NEW p \in Passwords, Hd!serialize(p) PROVE WalletInv'
  <2>1. /\ opening = "open" /\ opening' = "saved"
        /\ document' = [key |-> p, mnemonic |-> wallet.secret,
                        accounts |-> [i \in DOMAIN wallet.accounts |->
                           [hdPath |-> Hd!pathToString(wallet.accounts[i].hdPath), prefix |-> wallet.accounts[i].prefix]]]
        /\ UNCHANGED <<entropy, words, options, wallet, mistyped>>
    BY <1>3 DEF Hd!serialize
  <2>2. HoldsWords /\ WordsInv /\ options.hdPaths \in Seq(HdPath)
    BY <2>1 DEF WalletInv
  <2>3. DOMAIN wallet.accounts = DOMAIN options.hdPaths /\ \A i \in DOMAIN options.hdPaths :
          wallet.accounts[i].hdPath = options.hdPaths[i] /\ wallet.accounts[i].prefix = options.prefix
    <3>1. wallet.accounts = AccountsOf(options.hdPaths, options.prefix)
      BY <2>2 DEF HoldsWords
    <3> QED  BY <3>1 DEF AccountsOf
  <2>4. WasSaved'
    BY <2>1, <2>2, <2>3 DEF WasSaved, TextsOf, HoldsWords
  <2>5. HoldsWords' /\ WordsInv' /\ options'.hdPaths \in Seq(HdPath)
    BY <2>1, <2>2 DEF HoldsWords, WordsInv
  <2> QED  BY <2>1, <2>4, <2>5 DEF WalletInv
<1>4. CASE UNCHANGED Hd!vars
  BY <1>4 DEF Hd!vars, WalletInv, WordsInv, HoldsWords, WasSaved, FailedForAReason
<1> QED  BY <1>1, <1>2, <1>3, <1>4, WalletIsRead DEF Hd!Next

\* Over any serializations and passwords a wallet that comes back has the keys
\* and addresses it had, and words are accepted exactly if they encode entropy.
THEOREM WalletsAreRestored == Hd!Spec => []Hd!RestoredIsTheSame
<1>1. Hd!Init => WalletInv
  BY WalletBegins
<1>2. WalletInv /\ [Hd!Next]_(Hd!vars) => WalletInv'
  BY WalletStep
<1>3. WalletInv => Hd!RestoredIsTheSame
  BY WalletIsRestored
<1> QED  BY <1>1, <1>2, <1>3, PTL DEF Hd!Spec

\* The same of the behaviours of all parts, of which the run looks at a few.
THEOREM WalletOfThePart == PartsSpec => []RestoredIsTheSame
<1> DEFINE Inv == part = "wallet" => WalletInv
<1>1. PartsInit => Inv
  BY WalletBegins DEF PartsInit
<1>2. Inv /\ [PartsNext]_partsVars => Inv'
  <2> SUFFICES ASSUME Inv, [PartsNext]_partsVars, part' = "wallet" PROVE WalletInv'
    OBVIOUS
  <2>1. part = "wallet" /\ [Hd!Next]_(Hd!vars)
    BY DEF PartsNext, partsVars, hd, Hd!vars
  <2> QED  BY <2>1, WalletStep
<1>3. Inv => RestoredIsTheSame
  BY WalletIsRestored DEF RestoredIsTheSame
<1> QED  BY <1>1, <1>2, <1>3, PTL DEF PartsSpec, partsVars
-----------------------------------------------------------------------------
(* AminoSigning.                                                              *)
\* How fields are converted.
Codecs == {"plain", "coins", "required", "bigint", "omittedBigint", "omitted", "omittedBool", "decimal",
           "newRate", "weighted", "enum", "json", "pubkey", "height", "access", "content"}

\* Of one register of messages: contract messages are in fields of one name,
\* weights in votes only, and no message has the Amino type of another.
Regular(messages) ==
  /\ \A type \in DOMAIN messages : \A field \in DOMAIN messages[type] :
       LET codec == messages[type][field]
       IN /\ codec \in Codecs
          /\ codec = "json" => field = "msg"
          /\ codec = "weighted" => type = "MsgVoteWeighted" /\ field = "options"
  /\ DOMAIN messages \cap {"MsgModifyWithdrawAddress", "MsgWithdrawDelegationReward", "MsgGrant"} = {}

LEMMA ModulesAreRegular == \A module \in Amino!Modules : Regular(module)
<1>1. Regular(Amino!BankMsgs)
  BY DEF Regular, Amino!BankMsgs, Codecs
<1>2. Regular(Amino!DistributionMsgs)
  BY DEF Regular, Amino!DistributionMsgs, Codecs
<1>3. Regular(Amino!VestingMsgs)
  BY DEF Regular, Amino!VestingMsgs, Codecs
<1>4. Regular(Amino!GovMsgs)
  BY DEF Regular, Amino!GovMsgs, Codecs
<1>5. Regular(Amino!StakingMsgs)
  BY DEF Regular, Amino!StakingMsgs, Amino!Delegation, Codecs
<1>6. Regular(Amino!IbcMsgs)
  BY DEF Regular, Amino!IbcMsgs, Codecs
<1>7. Regular(Amino!WasmMsgs)
  BY DEF Regular, Amino!WasmMsgs, Codecs
<1> QED  BY <1>1, <1>2, <1>3, <1>4, <1>5, <1>6, <1>7 DEF Amino!Modules

LEMMA RegisterIsRegular == Regular(Amino!Register)
<1>1. \A type \in DOMAIN Amino!Register :
        \E module \in Amino!Modules : type \in DOMAIN module /\ Amino!Register[type] = module[type]
  BY DEF Amino!Register
<1> QED  BY <1>1, ModulesAreRegular DEF Regular

\* An Amino type is that of one message.
LEMMA OneType ==
  ASSUME NEW type \in DOMAIN Amino!Register
  PROVE  Amino!TypesOf(Amino!AminoTypeOf(type)) = {type}
<1>1. DOMAIN Amino!Register \cap {"MsgModifyWithdrawAddress", "MsgWithdrawDelegationReward"} = {}
  BY RegisterIsRegular DEF Regular
<1> QED  BY <1>1 DEF Amino!TypesOf, Amino!AminoTypeOf
-----------------------------------------------------------------------------
LEMMA AminoOperators ==
  /\ \A base, n : Amino!Power(base, n) = Power(base, n)
  /\ \A w, f : Amino!Text(w, f) = Text(w, f)
  /\ \A d : Amino!ValueOf(d) = ValueOf(d)
  /\ \A n : Amino!DigitsOf(n) = DigitsOf(n)
  /\ \A d, n : Amino!PadStart(d, n) = PadStart(d, n)
  /\ \A d, n : Amino!PadEnd(d, n) = PadEnd(d, n)
  /\ \A t, n : Amino!fromUserInput(t, n) = fromUserInput(t, n)
  /\ \A a, n : Amino!toString(Amino!fromAtomics(a, n)) = toString([atomics |-> a, fractionalDigits |-> n])
<1>1. \A base, n : Amino!Power(base, n) = Power(base, n)
  BY Zenon DEF Power, Amino!Power
<1>2. \A w, f : Amino!Text(w, f) = Text(w, f)
  BY Zenon DEF Text, Amino!Text
<1>3. \A d : Amino!ValueOf(d) = ValueOf(d)
  BY Zenon DEF ValueOf, Number, Amino!ValueOf, Amino!Number
<1>4. \A n : Amino!DigitsOf(n) = DigitsOf(n)
  BY Zenon DEF DigitsOf, Numeral, Amino!DigitsOf, Amino!Numeral
<1>5. \A d, n : Amino!PadStart(d, n) = PadStart(d, n)
  BY Zenon DEF PadStart, Amino!PadStart, Zeros, Amino!Zeros
<1>6. \A d, n : Amino!PadEnd(d, n) = PadEnd(d, n)
  BY Zenon DEF PadEnd, Amino!PadEnd, Zeros, Amino!Zeros
<1>7. \A d : Amino!Trim(d) = Trim(d)
  BY Zenon DEF Trim, Amino!Trim
<1>8. \A t, n : Amino!fromUserInput(t, n) = fromUserInput(t, n)
  BY <1>3, <1>6, <1>7, ZenonT(30) DEF fromUserInput, Amino!fromUserInput
<1>9. \A a, n : Amino!fromAtomics(a, n) = [atomics |-> a, fractionalDigits |-> n]
  BY Zenon DEF Amino!fromAtomics
<1>10. \A d : Amino!toString(d) = toString(d)
  BY <1>1, <1>2, <1>4, <1>5, <1>7, ZenonT(30) DEF toString, Amino!toString
<1>11. \A a, n : Amino!toString(Amino!fromAtomics(a, n)) = toString([atomics |-> a, fractionalDigits |-> n])
  BY <1>9, <1>10, Zenon
<1> QED  BY <1>1, <1>2, <1>3, <1>4, <1>5, <1>6, <1>8, <1>11, Zenon

-----------------------------------------------------------------------------
\* What the chain renders is what was signed, and means what was asked for.
Rendered(codec, v) == Amino!ChainJson(codec, Amino!FromJson(codec, Amino!ToJson(codec, v))) = Amino!ToJson(codec, v)
Understood(codec, v) == Amino!Meaning(codec, Amino!FromJson(codec, Amino!ToJson(codec, v))) = Amino!Meaning(codec, v)
Kept(codec, v) == Rendered(codec, v) /\ Understood(codec, v)

LEMMA WholeNumbersAreKept ==
  \A n \in Nat : Amino!BigInt(Amino!BigintText(n)) = n
<1> SUFFICES ASSUME NEW n \in Nat PROVE Amino!BigInt(Amino!BigintText(n)) = n
  OBVIOUS
<1>1. Amino!BigintText(n).whole = DigitsOf(n)
  BY AminoOperators DEF Amino!BigintText, Text
<1> QED  BY <1>1, AminoOperators, DigitsOfNumber DEF Amino!BigInt

LEMMA DecimalsAreKept ==
  ASSUME NEW a \in Nat
  PROVE  /\ Amino!protoDecimalToJson(a) = Amino!ChainDecimal(a)
         /\ Amino!jsonDecimalToProto(Amino!ChainDecimal(a)) = a
         /\ 0 < a /\ a < Amino!One => Amino!WeightToJson(a) = Amino!ChainDecimal(a)
<1> DEFINE d == [atomics |-> a, fractionalDigits |-> DecDigits]
           text == toString(d)
           whole == DigitsOf(a \div Power(10, DecDigits))
<1>1. DecDigits \in Nat \ {0}
  BY AminoAssumption DEF AminoAssumption
<1>2. Amino!ChainDecimal(a) = AllDigits(a, DecDigits)
  BY AminoOperators, Zenon DEF Amino!ChainDecimal, Amino!One, AllDigits
<1>3. /\ text.whole = whole /\ (text.dot <=> a % Power(10, DecDigits) # 0)
      /\ Text(text.whole, PadEnd(text.fraction, DecDigits)) = AllDigits(a, DecDigits)
  BY <1>1, PrintedAndPadded
<1>4. Amino!toString(Amino!fromAtomics(a, DecDigits)) = text
  BY AminoOperators
<1> HIDE DEF text
<1>5. Amino!protoDecimalToJson(a) = AllDigits(a, DecDigits)
  BY <1>3, <1>4, AminoOperators DEF Amino!protoDecimalToJson
<1>6. Amino!jsonDecimalToProto(AllDigits(a, DecDigits)) = a
  <2>1. Amino!jsonDecimalToProto(AllDigits(a, DecDigits)) = Amino!OneOf({d}).atomics
    BY <1>1, AllDigitsAreRead, AminoOperators DEF Amino!jsonDecimalToProto
  <2>2. Amino!OneOf({d}) = d
    BY DEF Amino!OneOf
  <2> QED  BY <2>1, <2>2
<1>7. ASSUME 0 < a, a < Amino!One PROVE Amino!WeightToJson(a) = AllDigits(a, DecDigits)
  <2> DEFINE F == Power(10, DecDigits)
  <2>1. F \in Nat \ {0} /\ a < F
    BY <1>1, <1>7, AminoOperators, PowerPositive DEF Amino!One
  <2>2. a % F = a /\ a \div F = 0
    <3>1. a \in 0..(F - 1) /\ 0 \in Nat /\ 0 * F + a = a
      BY <2>1
    <3> HIDE DEF F
    <3> QED  BY <2>1, <3>1, UniqueDivision
  <2>3. text.dot /\ text.whole = <<0>> /\ Len(text.whole) = 1
    BY <1>3, <1>7, <2>2, Zero
  <2>4. DecDigits + 1 - Len(text.whole) = DecDigits
    BY <1>1, <2>3
  <2>5. Amino!WeightToJson(a) = Amino!Text(text.whole, Amino!PadEnd(text.fraction, DecDigits + 1 - Len(text.whole)))
    BY <1>4, <2>3 DEF Amino!WeightToJson
  <2> QED  BY <1>3, <2>4, <2>5, AminoOperators
<1> QED  BY <1>2, <1>5, <1>6, <1>7

LEMMA OneOfOne == \A x : Amino!OneOf({x}) = x
BY DEF Amino!OneOf

LEMMA PlainFieldsAreKept ==
  ASSUME NEW codec \in {"plain", "coins", "required", "enum", "pubkey", "content"}, NEW v
  PROVE  Kept(codec, v)
BY DEF Kept, Rendered, Understood, Amino!ToJson, Amino!FromJson, Amino!ChainJson, Amino!Meaning

LEMMA OmittedFieldsAreKept ==
  ASSUME NEW codec \in {"bigint", "omittedBigint", "omitted", "omittedBool"}, NEW v \in Amino!Values(codec)
  PROVE  Kept(codec, v)
<1> USE DEF Kept, Rendered, Understood, Amino!ChainJson, Amino!Meaning, Amino!omitDefault, Amino!OrDefault
<1>1. CASE codec = "bigint"
  <2>1. v \in Nat
    BY <1>1 DEF Amino!Values
  <2>2. Amino!ToJson(codec, v) = Amino!BigintText(v)
    BY <1>1 DEF Amino!ToJson
  <2>3. Amino!FromJson(codec, Amino!BigintText(v)) = v
    BY <1>1, <2>1, WholeNumbersAreKept DEF Amino!FromJson
  <2> QED  BY <1>1, <2>2, <2>3
<1>2. CASE codec = "omittedBigint"
  <2>1. v \in Nat
    BY <1>2 DEF Amino!Values
  <2>2. Amino!ToJson(codec, v) = IF v = 0 THEN {} ELSE {Amino!BigintText(v)}
    BY <1>2 DEF Amino!ToJson
  <2>3. Amino!FromJson(codec, {}) = 0 /\ Amino!FromJson(codec, {Amino!BigintText(v)}) = v
    BY <1>2, <2>1, WholeNumbersAreKept, OneOfOne DEF Amino!FromJson
  <2> QED  BY <1>2, <2>2, <2>3
<1>3. CASE codec = "omitted"
  <2>1. Amino!ToJson(codec, v) = IF v = "" THEN {} ELSE {v}
    BY <1>3 DEF Amino!ToJson
  <2>2. Amino!FromJson(codec, {}) = "" /\ Amino!FromJson(codec, {v}) = v
    BY <1>3, OneOfOne DEF Amino!FromJson
  <2> QED  BY <1>3, <2>1, <2>2
<1>4. CASE codec = "omittedBool"
  <2>0. v \in BOOLEAN
    BY <1>4 DEF Amino!Values
  <2>1. Amino!ToJson(codec, v) = IF v = FALSE THEN {} ELSE {v}
    BY <1>4 DEF Amino!ToJson
  <2>2. Amino!FromJson(codec, {}) = FALSE /\ Amino!FromJson(codec, {v}) = v
    BY <1>4, OneOfOne DEF Amino!FromJson
  <2> QED  BY <1>4, <2>1, <2>2
<1> QED  BY <1>1, <1>2, <1>3, <1>4

LEMMA DecimalFieldsAreKept ==
  ASSUME NEW codec \in {"decimal", "newRate", "weighted"}, NEW v \in Amino!Values(codec),
         codec = "weighted" => Len(v) # 1
  PROVE  Kept(codec, v)
<1> USE DEF Kept, Rendered, Understood, Amino!Meaning
<1>0. Amino!One \in Nat \ {0}
  BY AminoAssumption, AminoOperators, PowerPositive DEF AminoAssumption, Amino!One
<1>1. CASE codec = "decimal"
  <2>1. v \in Nat
    BY <1>0, <1>1 DEF Amino!Values
  <2>2. Amino!ToJson(codec, v) = Amino!ChainDecimal(v) /\ Amino!FromJson(codec, Amino!ChainDecimal(v)) = v
    BY <1>1, <2>1, DecimalsAreKept DEF Amino!ToJson, Amino!FromJson
  <2>3. Amino!ChainJson(codec, v) = Amino!ChainDecimal(v)
    BY <1>1 DEF Amino!ChainJson
  <2> QED  BY <2>2, <2>3
<1>2. CASE codec = "newRate"
  <2>1. \A n \in v : n \in Nat
    BY <1>0, <1>2 DEF Amino!Values, Amino!Optional
  <2>2. Amino!ToJson(codec, v) = {Amino!ChainDecimal(n) : n \in v}
    <3>1. Amino!ToJson(codec, v) = {Amino!protoDecimalToJson(n) : n \in v}
      BY <1>2 DEF Amino!ToJson
    <3> QED  BY <2>1, <3>1, DecimalsAreKept
  <2>3. Amino!FromJson(codec, {Amino!ChainDecimal(n) : n \in v}) = v
    <3>1. Amino!FromJson(codec, {Amino!ChainDecimal(n) : n \in v})
            = {Amino!jsonDecimalToProto(text) : text \in {Amino!ChainDecimal(n) : n \in v}}
      BY <1>2 DEF Amino!FromJson
    <3>2. \A n \in v : Amino!jsonDecimalToProto(Amino!ChainDecimal(n)) = n
      BY <2>1, DecimalsAreKept
    <3> QED  BY <3>1, <3>2
  <2>4. Amino!ChainJson(codec, v) = {Amino!ChainDecimal(n) : n \in v}
    BY <1>2 DEF Amino!ChainJson
  <2> QED  BY <2>2, <2>3, <2>4
<1>3. CASE codec = "weighted"
  <2>1. PICK w \in 1..(Amino!One - 1) :
          v = <<[option |-> 1, weight |-> w], [option |-> 3, weight |-> Amino!One - w]>>
    <3>1. v \in Amino!Votes
      BY <1>3 DEF Amino!Values
    <3>2. \A o : Len(<<[option |-> o, weight |-> Amino!One]>>) = 1
      OBVIOUS
    <3> QED  BY <1>3, <3>1, <3>2 DEF Amino!Votes
  <2> DEFINE u == Amino!One - w
             j == <<[option |-> 1, weight |-> Amino!ChainDecimal(w)], [option |-> 3, weight |-> Amino!ChainDecimal(u)]>>
  <2>2. w \in Nat /\ 0 < w /\ w < Amino!One /\ u \in Nat /\ 0 < u /\ u < Amino!One
    BY <1>0
  <2>3. /\ Amino!WeightToJson(w) = Amino!ChainDecimal(w) /\ Amino!WeightToJson(u) = Amino!ChainDecimal(u)
        /\ Amino!jsonDecimalToProto(Amino!ChainDecimal(w)) = w /\ Amino!jsonDecimalToProto(Amino!ChainDecimal(u)) = u
    BY <2>2, DecimalsAreKept
  <2> HIDE DEF u
  <2>4. Amino!ToJson(codec, v) = j
    <3>1. Amino!ToJson(codec, v) = [i \in DOMAIN v |-> [v[i] EXCEPT !.weight = Amino!WeightToJson(v[i].weight)]]
      BY <1>3 DEF Amino!ToJson, Amino!Map
    <3> QED  BY <2>1, <2>3, <3>1 DEF u
  <2>5. Amino!FromJson(codec, j) = v
    <3>1. Amino!FromJson(codec, j) = [i \in DOMAIN j |-> [j[i] EXCEPT !.weight = Amino!jsonDecimalToProto(j[i].weight)]]
      BY <1>3 DEF Amino!FromJson, Amino!Map
    <3> QED  BY <2>1, <2>3, <3>1 DEF u
  <2>6. Amino!ChainJson(codec, v) = j
    <3>1. Amino!ChainJson(codec, v) = [i \in DOMAIN v |-> [v[i] EXCEPT !.weight = Amino!ChainDecimal(v[i].weight)]]
      BY <1>3 DEF Amino!ChainJson, Amino!Map
    <3> QED  BY <2>1, <3>1 DEF u
  <2> QED  BY <2>4, <2>5, <2>6
<1> QED  BY <1>1, <1>2, <1>3

LEMMA OtherFieldsAreKept ==
  ASSUME NEW codec \in {"json", "height", "access"}, NEW v \in Amino!Values(codec)
  PROVE  Rendered(codec, v) /\ (Understood(codec, v) \/ (codec = "json" /\ v = "long number"))
<1> USE DEF Rendered, Understood
<1>1. CASE codec = "json"
  <2>1. v \in {"compact", "spaced", "long number"}
    BY <1>1 DEF Amino!Values
  <2> QED  BY <1>1, <2>1 DEF Amino!ToJson, Amino!FromJson, Amino!ChainJson, Amino!Meaning
<1>2. CASE codec = "height"
  <2> DEFINE Number0(n) == IF n = 0 THEN {} ELSE {Amino!BigintText(n)}
  <2>1. \A n \in Nat : Amino!BigInt(Amino!OrDefault(Number0(n), Amino!BigintText(0))) = n
    BY WholeNumbersAreKept, OneOfOne DEF Amino!OrDefault
  <2>2. \A n : {Amino!BigintText(m) : m \in Amino!omitDefault(n, 0)} = Number0(n)
    BY DEF Amino!omitDefault
  <2> HIDE DEF Number0
  <2> DEFINE J(h) == [revisionHeight |-> Number0(h.revisionHeight), revisionNumber |-> Number0(h.revisionNumber)]
             none == [revisionHeight |-> 0, revisionNumber |-> 0]
  <2>3. Amino!NoHeight = J(none)
    BY DEF Amino!NoHeight, Number0
  <2>4. \A h : Amino!ToJson(codec, {h}) = J(h)
    BY <1>2, <2>2, OneOfOne DEF Amino!ToJson, Amino!HeightToJson
  <2>5. Amino!ToJson(codec, {}) = J(none)
    BY <1>2, <2>3 DEF Amino!ToJson
  <2>6. \A h \in [revisionHeight : Nat, revisionNumber : Nat] : Amino!FromJson(codec, J(h)) = {h}
    BY <1>2, <2>1 DEF Amino!FromJson, Amino!HeightFromJson
  <2>7. \A x : Amino!ChainJson(codec, x) = Amino!ToJson(codec, x)
    BY <1>2 DEF Amino!ChainJson
  <2>8. Amino!Meaning(codec, {}) = {none} /\ \A h : Amino!Meaning(codec, {h}) = {h}
    BY <1>2 DEF Amino!Meaning
  <2>9. v = {} \/ \E h \in [revisionHeight : Nat, revisionNumber : Nat] : v = {h}
    BY <1>2 DEF Amino!Values, Amino!Optional
  <2>10. none \in [revisionHeight : Nat, revisionNumber : Nat]
    OBVIOUS
  <2> HIDE DEF J, none
  <2>11. CASE v = {}
    BY <2>4, <2>5, <2>6, <2>7, <2>8, <2>10, <2>11
  <2>12. ASSUME NEW h \in [revisionHeight : Nat, revisionNumber : Nat], v = {h}
         PROVE  Rendered(codec, v) /\ Understood(codec, v)
    BY <2>4, <2>6, <2>7, <2>8, <2>12
  <2> QED  BY <2>9, <2>11, <2>12
<1>3. CASE codec = "access"
  <2> DEFINE Listed0(l) == IF l = <<>> THEN {} ELSE {l}
             J(a) == [permission |-> a.permission, addresses |-> Listed0(a.addresses)]
  <2>1. \A l : Amino!OrDefault(Listed0(l), <<>>) = l
    BY OneOfOne DEF Amino!OrDefault
  <2>2. \A a : Amino!AccessToJson(a) = J(a)
    BY DEF Amino!AccessToJson, Amino!omitDefault
  <2> HIDE DEF Listed0
  <2>3. Amino!ToJson(codec, {}) = {} /\ Amino!FromJson(codec, {}) = {}
    BY <1>3 DEF Amino!ToJson, Amino!FromJson
  <2>4. \A a : Amino!ToJson(codec, {a}) = {J(a)}
    BY <1>3, <2>2 DEF Amino!ToJson
  <2>5. \A a : a = [permission |-> a.permission, addresses |-> a.addresses] => Amino!FromJson(codec, {J(a)}) = {a}
    BY <1>3, <2>1 DEF Amino!FromJson
  <2>6. v = {} \/ \E a : a = [permission |-> a.permission, addresses |-> a.addresses] /\ v = {a}
    BY <1>3 DEF Amino!Values, Amino!Optional
  <2>7. \A x : Amino!ChainJson(codec, x) = Amino!ToJson(codec, x)
    BY <1>3 DEF Amino!ChainJson
  <2> HIDE DEF J
  <2> QED  BY <2>3, <2>4, <2>5, <2>6, <2>7
<1> QED  BY <1>1, <1>2, <1>3
-----------------------------------------------------------------------------
\* The fields of a message hold what they may hold.
FieldsOf(m) ==
  m.type \in DOMAIN Amino!Register =>
    /\ DOMAIN m.value = DOMAIN Amino!Register[m.type]
    /\ \A f \in DOMAIN m.value :
         LET codec == Amino!Register[m.type][f]
         IN codec = "plain" \/ m.value[f] \in Amino!Values(codec)

\* Every kind of field has a value that can be converted.
LEMMA UsualValues ==
  ASSUME NEW codec \in Codecs
  PROVE  codec = "plain" \/ Amino!Usual(codec) \in Amino!Values(codec)
<1>1. CASE codec \in {"required", "pubkey", "content"}
  <2>1. \E v \in Amino!Values(codec) : Amino!Convertible(codec, v)
    <3>1. CASE codec = "required"
      <4>1. {"message"} \in Amino!Values(codec) /\ Amino!Convertible(codec, {"message"})
        BY <3>1 DEF Amino!Values, Amino!Optional, Amino!Convertible
      <4> QED  BY <4>1
    <3>2. CASE codec = "pubkey"
      <4>1. {"ed25519"} \in Amino!Values(codec) /\ Amino!Convertible(codec, {"ed25519"})
        BY <3>2 DEF Amino!Values, Amino!Optional, Amino!Convertible
      <4> QED  BY <4>1
    <3>3. CASE codec = "content"
      <4>1. {"TextProposal"} \in Amino!Values(codec) /\ Amino!Convertible(codec, {"TextProposal"})
        BY <3>3 DEF Amino!Values, Amino!Optional, Amino!Convertible
      <4> QED  BY <4>1
    <3> QED  BY <1>1, <3>1, <3>2, <3>3
  <2> QED  BY <1>1, <2>1 DEF Amino!Usual
<1>2. CASE codec \in {"coins", "bigint", "omittedBigint", "omitted", "omittedBool", "enum", "json"}
  <2>1. Amino!Values(codec) # {}
    <3>1. CASE codec \in {"coins", "bigint", "omittedBigint"}
      BY <3>1 DEF Amino!Values
    <3>2. CASE codec \in {"omitted", "json"}
      BY <3>2 DEF Amino!Values
    <3>3. CASE codec = "omittedBool"
      <4>1. TRUE \in Amino!Values(codec)
        BY <3>3 DEF Amino!Values
      <4> QED  BY <4>1
    <3>4. CASE codec = "enum"
      <4>1. 0 \in Amino!Values(codec)
        BY <3>4 DEF Amino!Values
      <4> QED  BY <4>1
    <3> QED  BY <1>2, <3>1, <3>2, <3>3, <3>4
  <2> QED  BY <1>2, <2>1 DEF Amino!Usual
<1>3. CASE codec \in {"decimal", "newRate", "weighted", "height", "access"}
  <2>0. Amino!One \in Nat \ {0}
    BY AminoAssumption, AminoOperators, PowerPositive DEF AminoAssumption, Amino!One
  <2>1. CASE codec = "decimal"
    <3>1. 0 \in Amino!Values(codec)
      BY <2>0, <2>1 DEF Amino!Values
    <3> QED  BY <2>1, <3>1 DEF Amino!Usual
  <2>2. CASE codec = "weighted"
    <3>1. <<[option |-> 1, weight |-> Amino!One]>> \in Amino!Values(codec)
      BY <2>2 DEF Amino!Values, Amino!Votes
    <3> QED  BY <2>2, <3>1 DEF Amino!Usual
  <2>3. CASE codec \in {"newRate", "height", "access"}
    <3>1. {} \in Amino!Values(codec)
      BY <2>3 DEF Amino!Values, Amino!Optional
    <3> QED  BY <2>3, <3>1 DEF Amino!Usual
  <2> QED  BY <1>3, <2>1, <2>2, <2>3
<1> QED  BY <1>1, <1>2, <1>3 DEF Codecs

LEMMA MessagesHaveFields ==
  ASSUME NEW type \in DOMAIN Amino!Register, NEW field, NEW v \in Amino!Values(Amino!Register[type][field])
  PROVE  FieldsOf(Amino!Message(type, field, v)) /\ Amino!Message(type, field, v).type = type
<1> DEFINE codecs == Amino!Register[type]
           m == Amino!Message(type, field, v)
<1>1. m.type = type /\ DOMAIN m.value = DOMAIN codecs
      /\ \A f \in DOMAIN codecs :
           m.value[f] = IF codecs[f] = "plain" THEN f ELSE IF f = field THEN v ELSE Amino!Usual(codecs[f])
  BY DEF Amino!Message
<1>2. \A f \in DOMAIN codecs : codecs[f] \in Codecs
  BY RegisterIsRegular DEF Regular
<1> HIDE DEF m
<1>3. ASSUME NEW f \in DOMAIN codecs PROVE codecs[f] = "plain" \/ m.value[f] \in Amino!Values(codecs[f])
  BY <1>1, <1>2, UsualValues
<1> QED  BY <1>1, <1>3 DEF FieldsOf, m

\* All fields of a message are rendered as they were signed, and understood.
LEMMA MessagesAreKept ==
  ASSUME NEW m, FieldsOf(m), m.type \in DOMAIN Amino!Register, ~Amino!VotesWithOneOption(m),
         NEW f \in DOMAIN m.value
  PROVE  LET codec == Amino!Register[m.type][f]
         IN Rendered(codec, m.value[f]) /\ (Understood(codec, m.value[f]) \/ Amino!Rounded(m))
<1> DEFINE codec == Amino!Register[m.type][f]
           v == m.value[f]
<1>1. /\ codec \in Codecs /\ (codec = "plain" \/ v \in Amino!Values(codec))
      /\ codec = "json" => f = "msg"
      /\ codec = "weighted" => m.type = "MsgVoteWeighted" /\ f = "options"
  BY RegisterIsRegular DEF Regular, FieldsOf
<1>2. codec = "weighted" => Len(v) # 1
  BY <1>1 DEF Amino!VotesWithOneOption
<1>3. codec = "json" /\ v = "long number" => Amino!Rounded(m)
  BY <1>1 DEF Amino!Rounded
<1> HIDE DEF codec, v
<1>4. CASE codec \in {"plain", "coins", "required", "enum", "pubkey", "content"}
  BY <1>4, PlainFieldsAreKept DEF Kept, codec, v
<1>5. CASE codec \in {"bigint", "omittedBigint", "omitted", "omittedBool"}
  BY <1>1, <1>5, OmittedFieldsAreKept DEF Kept, codec, v
<1>6. CASE codec \in {"decimal", "newRate", "weighted"}
  BY <1>1, <1>2, <1>6, DecimalFieldsAreKept DEF Kept, codec, v
<1>7. CASE codec \in {"json", "height", "access"}
  BY <1>1, <1>3, <1>7, OtherFieldsAreKept DEF codec, v
<1> QED  BY <1>1, <1>4, <1>5, <1>6, <1>7 DEF Codecs

\* What the chain renders of a message.
ChainMessage(m) ==
  [type |-> Amino!AminoTypeOf(m.type),
   value |-> [f \in DOMAIN m.value |-> Amino!ChainJson(Amino!Register[m.type][f], m.value[f])]]

LEMMA MessageRoundTrip ==
  ASSUME NEW m, FieldsOf(m), m.type \in DOMAIN Amino!Register, ~Amino!VotesWithOneOption(m)
  PROVE  LET n == Amino!FromAmino(Amino!ToAmino(m))
         IN ChainMessage(n) = Amino!ToAmino(m) /\ (Amino!SameMeaning(n, m) \/ Amino!Rounded(m))
<1> DEFINE codecs == Amino!Register[m.type]
           a == Amino!ToAmino(m)
           n == Amino!FromAmino(a)
<1>1. a = [type |-> Amino!AminoTypeOf(m.type), value |-> [f \in DOMAIN m.value |-> Amino!ToJson(codecs[f], m.value[f])]]
  BY DEF Amino!ToAmino
<1>2. Amino!OneOf(Amino!TypesOf(a.type)) = m.type
  BY <1>1, OneType, OneOfOne
<1>3. n = [type |-> m.type,
           value |-> [f \in DOMAIN m.value |-> Amino!FromJson(codecs[f], Amino!ToJson(codecs[f], m.value[f]))]]
  <2>1. n = [type |-> m.type, value |-> [f \in DOMAIN a.value |-> Amino!FromJson(codecs[f], a.value[f])]]
    BY <1>2 DEF Amino!FromAmino
  <2> HIDE DEF n, a
  <2> QED  BY <1>1, <2>1
<1> HIDE DEF n, a
<1>4. \A f \in DOMAIN m.value :
         Rendered(codecs[f], m.value[f]) /\ (Understood(codecs[f], m.value[f]) \/ Amino!Rounded(m))
  BY MessagesAreKept
<1>5. ChainMessage(n) = a
  <2>1. ChainMessage(n)
          = [type |-> Amino!AminoTypeOf(m.type),
             value |-> [f \in DOMAIN m.value |->
                          Amino!ChainJson(codecs[f], Amino!FromJson(codecs[f], Amino!ToJson(codecs[f], m.value[f])))]]
    BY <1>3 DEF ChainMessage
  <2>2. \A f \in DOMAIN m.value :
          Amino!ChainJson(codecs[f], Amino!FromJson(codecs[f], Amino!ToJson(codecs[f], m.value[f])))
            = Amino!ToJson(codecs[f], m.value[f])
    BY <1>4 DEF Rendered
  <2> QED  BY <1>1, <2>1, <2>2
<1>6. ~Amino!Rounded(m) => Amino!SameMeaning(n, m)
  BY <1>3, <1>4 DEF Amino!SameMeaning, Understood
<1> QED  BY <1>5, <1>6 DEF n, a
-----------------------------------------------------------------------------
\* The sign document and the transaction of a message.
AminoDoc == Amino!makeSignDoc(<<Amino!ToAmino(msg)>>)
DirectDoc == [msgs |-> <<msg>>, memo |-> "memo", fee |-> "fee", timeout |-> {Amino!OrDefault(timeout, 0)}]
ShownDoc == IF mode = "amino" THEN AminoDoc ELSE DirectDoc

SentTx ==
  IF mode = "direct" THEN signed
  ELSE [msgs |-> <<Amino!FromAmino(Amino!ToAmino(msg))>>, memo |-> signed.memo, fee |-> signed.fee,
        timeout |-> {Amino!OrDefault(timeout, 0)}]

(* The document that was signed is the one that was made of the message, up   *)
(* to fee and memo, and the transaction that was sent is made of what was     *)
(* signed: until the chain renders it, each stage keeps what the one before   *)
(* it made.                                                                   *)
AminoInv ==
  /\ mode \in {"amino", "direct"} /\ timeout \in Amino!Optional({0, 5})
  /\ FieldsOf(msg)
  /\ signing \in {"shown", "signed", "sent", "accepted", "rejected"} =>
       /\ mode = "amino" => msg.type \in DOMAIN Amino!Register
       /\ doc = ShownDoc
  /\ signing \in {"signed", "sent", "accepted", "rejected"} =>
       signed = [msgs |-> doc.msgs, memo |-> signed.memo, fee |-> signed.fee, timeout |-> doc.timeout]
  /\ signing \in {"sent", "accepted", "rejected"} => signedTx = SentTx
  /\ signing \in {"accepted", "rejected"} => (signing = "accepted" <=> Amino!ChainDoc = signed)

LEMMA AminoBegins == Amino!Init => AminoInv
<1> SUFFICES ASSUME Amino!Init PROVE AminoInv
  OBVIOUS
<1>1. FieldsOf(msg)
  <2>1. ASSUME NEW type \in DOMAIN Amino!Register, NEW field \in DOMAIN Amino!Register[type],
               NEW v \in Amino!Values(Amino!Register[type][field]), msg = Amino!Message(type, field, v)
        PROVE  FieldsOf(msg)
    BY <2>1, MessagesHaveFields
  <2>2. ASSUME msg = [type |-> "MsgGrant", value |-> <<>>] PROVE FieldsOf(msg)
    BY <2>2, RegisterIsRegular DEF FieldsOf, Regular
  <2> QED  BY <2>1, <2>2 DEF Amino!Init
<1> QED  BY <1>1 DEF Amino!Init, AminoInv

LEMMA AminoStep == AminoInv /\ [Amino!Next]_amino => AminoInv'
<1> SUFFICES ASSUME AminoInv, [Amino!Next]_amino PROVE AminoInv'
  OBVIOUS
<1> USE DEF AminoInv
<1>0. UNCHANGED <<mode, msg, timeout>>
  BY DEF Amino!Next, amino, Amino!ShowAmino, Amino!ShowDirect, Amino!Sign, Amino!AssembleAmino,
         Amino!AssembleDirect, Amino!Verify
<1>1. FieldsOf(msg)' /\ AminoDoc' = AminoDoc /\ DirectDoc' = DirectDoc /\ ShownDoc' = ShownDoc
  BY <1>0 DEF FieldsOf, AminoDoc, DirectDoc, ShownDoc, Amino!makeSignDoc, Amino!ToAmino
<1>2. CASE Amino!ShowAmino
  <2>1. mode = "amino" /\ (signing' = "failed" \/ (signing' = "shown" /\ msg.type \in DOMAIN Amino!Register /\ doc' = AminoDoc))
    BY <1>2 DEF Amino!ShowAmino, AminoDoc
  <2> QED  BY <1>0, <1>1, <2>1 DEF ShownDoc
<1>3. CASE Amino!ShowDirect
  <2>1. mode = "direct" /\ signing' = "shown" /\ doc' = DirectDoc
    BY <1>3 DEF Amino!ShowDirect, DirectDoc, Amino!makeSignDoc
  <2> QED  BY <1>0, <1>1, <2>1 DEF ShownDoc
<1>4. CASE Amino!Sign
  <2>1. /\ signing = "shown" /\ UNCHANGED doc
        /\ signing' = "refused" \/ (signing' = "signed" /\ \E fee, memo : signed' = [doc EXCEPT !.fee = fee, !.memo = memo])
    BY <1>4 DEF Amino!Sign
  <2>2. \A fee, memo : [ShownDoc EXCEPT !.fee = fee, !.memo = memo]
                          = [msgs |-> ShownDoc.msgs, memo |-> memo, fee |-> fee, timeout |-> ShownDoc.timeout]
    <3>1. PICK msgs0, memo0, fee0, timeout0 :
            ShownDoc = [msgs |-> msgs0, memo |-> memo0, fee |-> fee0, timeout |-> timeout0]
      BY DEF ShownDoc, AminoDoc, DirectDoc, Amino!makeSignDoc
    <3> SUFFICES ASSUME NEW fee, NEW memo
                 PROVE  [ShownDoc EXCEPT !.fee = fee, !.memo = memo]
                          = [msgs |-> ShownDoc.msgs, memo |-> memo, fee |-> fee, timeout |-> ShownDoc.timeout]
      OBVIOUS
    <3>2. [ShownDoc EXCEPT !.fee = fee] = [msgs |-> msgs0, memo |-> memo0, fee |-> fee, timeout |-> timeout0]
      BY <3>1
    <3>3. [[msgs |-> msgs0, memo |-> memo0, fee |-> fee, timeout |-> timeout0] EXCEPT !.memo = memo]
            = [msgs |-> msgs0, memo |-> memo, fee |-> fee, timeout |-> timeout0]
      OBVIOUS
    <3>4. ShownDoc.msgs = msgs0 /\ ShownDoc.timeout = timeout0
      BY <3>1
    <3> QED  BY <3>2, <3>3, <3>4
  <2>3. signing' = "signed" =>
          signed' = [msgs |-> doc'.msgs, memo |-> signed'.memo, fee |-> signed'.fee, timeout |-> doc'.timeout]
    BY <2>1, <2>2
  <2> QED  BY <1>0, <1>1, <2>1, <2>3
<1>5. CASE Amino!AssembleAmino
  <2>1. /\ mode = "amino" /\ signing = "signed" /\ signing' = "sent" /\ UNCHANGED <<doc, signed>>
        /\ signedTx' = [msgs |-> Amino!Map(Amino!FromAmino, signed.msgs), memo |-> signed.memo, fee |-> signed.fee,
                        timeout |-> {Amino!OrDefault(timeout, 0)}]
    BY <1>5 DEF Amino!AssembleAmino
  <2>2. signed.msgs = <<Amino!ToAmino(msg)>>
    BY <2>1 DEF ShownDoc, AminoDoc, Amino!makeSignDoc
  <2>3. Amino!Map(Amino!FromAmino, <<Amino!ToAmino(msg)>>) = <<Amino!FromAmino(Amino!ToAmino(msg))>>
    BY DEF Amino!Map
  <2>4. signedTx' = SentTx'
    BY <1>0, <2>1, <2>2, <2>3 DEF SentTx
  <2> QED  BY <1>0, <1>1, <2>1, <2>4
<1>6. CASE Amino!AssembleDirect
  <2>1. mode = "direct" /\ signing = "signed" /\ signing' = "sent" /\ UNCHANGED <<doc, signed>> /\ signedTx' = signed
    BY <1>6 DEF Amino!AssembleDirect
  <2> QED  BY <1>0, <1>1, <2>1 DEF SentTx
<1>7. CASE Amino!Verify
  <2>1. /\ signing = "sent" /\ UNCHANGED <<doc, signed, signedTx>>
        /\ signing' = IF Amino!ChainDoc = signed THEN "accepted" ELSE "rejected"
    BY <1>7 DEF Amino!Verify
  <2>2. (Amino!ChainDoc)' = Amino!ChainDoc /\ SentTx' = SentTx
    BY <1>0, <2>1 DEF Amino!ChainDoc, Amino!Map, SentTx
  <2> QED  BY <1>0, <1>1, <2>1, <2>2
<1>8. CASE UNCHANGED amino
  <2>1. UNCHANGED <<signing, doc, signed, signedTx>>
    BY <1>8 DEF amino
  <2>2. (Amino!ChainDoc)' = Amino!ChainDoc /\ SentTx' = SentTx
    BY <1>0, <2>1 DEF Amino!ChainDoc, Amino!Map, SentTx
  <2> QED  BY <1>0, <1>1, <2>1, <2>2
<1> QED  BY <1>2, <1>3, <1>4, <1>5, <1>6, <1>7, <1>8 DEF Amino!Next

LEMMA AminoShown == AminoInv => Amino!SignedIsExecuted
<1> SUFFICES ASSUME AminoInv, signing \in {"accepted", "rejected"}, ~Amino!VotesWithOneOption(msg)
             PROVE  /\ signing = "accepted"
                    /\ signedTx.fee = signed.fee /\ signedTx.memo = signed.memo
                    /\ Amino!SameMeaning(signedTx.msgs[1], msg) \/ (mode = "amino" /\ Amino!Rounded(msg))
  BY DEF Amino!SignedIsExecuted
<1>1. /\ mode \in {"amino", "direct"} /\ timeout \in Amino!Optional({0, 5}) /\ FieldsOf(msg)
      /\ mode = "amino" => msg.type \in DOMAIN Amino!Register
      /\ doc = ShownDoc /\ signedTx = SentTx /\ (signing = "accepted" <=> Amino!ChainDoc = signed)
      /\ signed = [msgs |-> doc.msgs, memo |-> signed.memo, fee |-> signed.fee, timeout |-> doc.timeout]
  BY DEF AminoInv
<1>2. CASE mode = "direct"
  <2>1. signedTx = signed /\ signed.msgs = <<msg>> /\ Amino!ChainDoc = signed
    BY <1>1, <1>2 DEF SentTx, ShownDoc, DirectDoc, Amino!ChainDoc, Amino!Map
  <2>2. Amino!SameMeaning(msg, msg)
    BY DEF Amino!SameMeaning
  <2> QED  BY <1>1, <2>1, <2>2
<1>3. CASE mode = "amino"
  <2> DEFINE a == Amino!ToAmino(msg)
             n == Amino!FromAmino(a)
  <2>1. ChainMessage(n) = a /\ (Amino!SameMeaning(n, msg) \/ Amino!Rounded(msg))
    BY <1>1, <1>3, MessageRoundTrip
  <2>2. signedTx = [msgs |-> <<n>>, memo |-> signed.memo, fee |-> signed.fee, timeout |-> {Amino!OrDefault(timeout, 0)}]
    BY <1>1, <1>3 DEF SentTx
  <2>3. signed.msgs = <<a>> /\ signed.timeout = timeout \ {0}
    BY <1>1, <1>3 DEF ShownDoc, AminoDoc, Amino!makeSignDoc
  <2> HIDE DEF n, a
  <2>4. Amino!ChainDoc = [signedTx EXCEPT !.msgs = Amino!Map(ChainMessage, signedTx.msgs), !.timeout = signedTx.timeout \ {0}]
    BY <1>3 DEF Amino!ChainDoc, Amino!Map, ChainMessage
  <2>5. Amino!Map(ChainMessage, <<n>>) = <<ChainMessage(n)>>
    BY DEF Amino!Map
  <2>6. {Amino!OrDefault(timeout, 0)} \ {0} = timeout \ {0}
    BY <1>1, OneOfOne DEF Amino!OrDefault, Amino!Optional
  <2>7. Amino!ChainDoc = [msgs |-> <<a>>, memo |-> signed.memo, fee |-> signed.fee, timeout |-> timeout \ {0}]
    BY <2>1, <2>2, <2>4, <2>5, <2>6
  <2>8. Amino!ChainDoc = signed
    BY <1>1, <2>3, <2>7
  <2> QED  BY <1>1, <1>3, <2>1, <2>2, <2>8
<1> QED  BY <1>1, <1>2, <1>3

(* Whatever a signer shows and signs, with either kind of signer, the chain   *)
(* accepts and executes as it was asked for: signAmino and signDirect make    *)
(* the transaction of what was signed, and the converters of all messages     *)
(* lose nothing that the chain checks, for any number of fractional digits of *)
(* decimals.  Votes with one option and rounded JSON numbers are excepted.    *)
THEOREM SignedMessagesAreExecuted == Amino!Spec => []Amino!SignedIsExecuted
<1>1. AminoInv /\ [Amino!Next]_(Amino!vars) => AminoInv'
  BY AminoStep DEF Amino!vars, amino
<1> QED  BY <1>1, AminoBegins, AminoShown, PTL DEF Amino!Spec

\* The same of the behaviours of all parts, of which the run looks at a few.
THEOREM SigningOfThePart == PartsSpec => []SignedIsExecuted
<1> DEFINE Inv == part = "amino" => AminoInv
<1>1. PartsInit => Inv
  BY AminoBegins DEF PartsInit
<1>2. Inv /\ [PartsNext]_partsVars => Inv'
  <2> SUFFICES ASSUME Inv, [PartsNext]_partsVars, part' = "amino" PROVE AminoInv'
    OBVIOUS
  <2>1. part = "amino" /\ [Amino!Next]_amino
    BY DEF PartsNext, partsVars
  <2> QED  BY <2>1, AminoStep
<1>3. Inv => SignedIsExecuted
  BY AminoShown DEF SignedIsExecuted
<1> QED  BY <1>1, <1>2, <1>3, PTL DEF PartsSpec, partsVars
-----------------------------------------------------------------------------
(* WireFormats.                                                               *)
LEMMA WireOperators ==
  /\ \A base, n : Wire!Power(base, n) = Power(base, n)
  /\ \A base, d : Wire!Number(base, d) = Number(base, d)
  /\ \A d : Wire!ValueOf(d) = ValueOf(d)
  /\ \A n : Wire!DigitsOf(n) = DigitsOf(n)
  /\ \A n : Wire!Zeros(n) = Zeros(n)
  /\ \A d, n : Wire!PadStart(d, n) = PadStart(d, n)
  /\ \A d, n : Wire!PadEnd(d, n) = PadEnd(d, n)
<1>1. \A base, n : Wire!Power(base, n) = Power(base, n)
  BY Zenon DEF Power, Wire!Power
<1>2. \A base, d : Wire!Number(base, d) = Number(base, d)
  BY Zenon DEF Number, Wire!Number
<1>3. \A d : Wire!ValueOf(d) = ValueOf(d)
  BY Zenon DEF ValueOf, Number, Wire!ValueOf, Wire!Number
<1>4. \A n : Wire!DigitsOf(n) = DigitsOf(n)
  BY Zenon DEF DigitsOf, Numeral, Wire!DigitsOf, Wire!Numeral
<1>5. \A n : Wire!Zeros(n) = Zeros(n)
  BY Zenon DEF Zeros, Wire!Zeros
<1>6. \A d, n : Wire!PadStart(d, n) = PadStart(d, n)
  BY Zenon DEF PadStart, Wire!PadStart, Zeros, Wire!Zeros
<1>7. \A d, n : Wire!PadEnd(d, n) = PadEnd(d, n)
  BY Zenon DEF PadEnd, Wire!PadEnd, Zeros, Wire!Zeros
<1> QED  BY <1>1, <1>2, <1>3, <1>4, <1>5, <1>6, <1>7, Zenon

\* The limits of shifts and of fractions.
LEMMA WireNumbers ==
  /\ Wire!More \in Nat \ {0, 1} /\ Wire!Limit \in Nat \ {0}
  /\ Wire!Millis = Power(10, MsDigits) /\ Wire!Nanos = Power(10, NsDigits)
  /\ Wire!Millis \in Nat \ {0} /\ Wire!Nanos \in Nat \ {0}
  /\ Wire!Millis * Wire!Nanos \in Nat /\ Wire!Millis * Wire!Nanos <= Wire!Limit
  /\ MsDigits \in Nat \ {0} /\ NsDigits \in Nat \ {0} /\ MsDigits + NsDigits \in Nat \ {0}
<1>1. /\ Wire!More = Power(2, Group) /\ Wire!Limit = Power(2, IntBits - 1)
      /\ Wire!Millis = Power(10, MsDigits) /\ Wire!Nanos = Power(10, NsDigits)
  BY WireOperators, Zenon DEF Wire!More, Wire!Limit, Wire!Millis, Wire!Nanos
<1>2. /\ MsDigits \in Nat \ {0} /\ NsDigits \in Nat \ {0} /\ Group - 1 \in Nat /\ Group = (Group - 1) + 1
      /\ IntBits - 1 \in Nat
      /\ Wire!Millis * Wire!Nanos <= Wire!Limit
  BY WireAssumption DEF WireAssumption
<1>3. Power(2, Group) \in Nat \ {0, 1}
  <2>1. Power(2, Group - 1) \in Nat \ {0} /\ Power(2, Group) = 2 * Power(2, Group - 1)
    BY <1>2, PowersOfTwo
  <2> QED  BY <2>1
<1>4. Power(2, IntBits - 1) \in Nat \ {0} /\ Power(10, MsDigits) \in Nat \ {0} /\ Power(10, NsDigits) \in Nat \ {0}
  BY <1>2, PowersOfTwo, PowersOfTen
<1> QED  BY <1>1, <1>2, <1>3, <1>4
-----------------------------------------------------------------------------

\* Bytes of an uvarint, the first one counting least.
LEMMA UvarintOfNext ==
  ASSUME NEW x \in Nat, NEW b \in Seq(Nat)
  PROVE  /\ Wire!Uvarint(b) \in Nat
         /\ Wire!Uvarint(<<x>> \o b) = Wire!More * Wire!Uvarint(b) + (x % Wire!More)
<1> DEFINE M == Wire!More
           d(s) == [i \in DOMAIN s |-> s[Len(s) + 1 - i] % M]
           n == Len(b)
           c == <<x>> \o b
<1>1. M \in Nat \ {0}
  BY WireNumbers
<1>2. n \in Nat /\ DOMAIN b = 1..n /\ \A i \in 1..n : b[i] \in Nat
  BY LenProperties, ElementOfSeq
<1>3. c \in Seq(Nat) /\ Len(c) = n + 1 /\ c[1] = x /\ \A i \in 1..n : c[i + 1] = b[i]
  BY <1>2
<1>4. DOMAIN c = 1..(n + 1)
  BY <1>3
<1> HIDE DEF M, n, c
<1>5. d(b) \in Seq(Nat) /\ Len(d(b)) = n
  <2>1. \A i \in 1..n : Len(b) + 1 - i \in 1..n
    BY <1>2 DEF n
  <2>2. \A i \in 1..n : b[Len(b) + 1 - i] % M \in Nat
    BY <1>1, <1>2, <2>1
  <2> QED  BY <1>2, <2>2
<1>6. d(c) = Append(d(b), x % M)
  <2>1. x % M \in Nat
    BY <1>1
  <2>2. \A i \in 1..n : d(c)[i] = d(b)[i]
    <3> SUFFICES ASSUME NEW i \in 1..n PROVE d(c)[i] = d(b)[i]
      OBVIOUS
    <3>1. Len(b) + 1 - i \in 1..n /\ Len(c) + 1 - i = (Len(b) + 1 - i) + 1 /\ i \in 1..(n + 1)
      BY <1>2, <1>3 DEF n
    <3>2. c[Len(c) + 1 - i] = b[Len(b) + 1 - i]
      BY <1>3, <3>1
    <3> QED  BY <1>2, <1>4, <3>1, <3>2
  <2>3. d(c)[n + 1] = x % M
    <3>1. Len(c) + 1 - (n + 1) = 1 /\ n + 1 \in 1..(n + 1)
      BY <1>2, <1>3
    <3> QED  BY <1>3, <1>4, <3>1
  <2>4. d(c) \in Seq(Nat) /\ Len(d(c)) = n + 1
    <3>1. \A i \in 1..(n + 1) : d(c)[i] \in Nat
      <4>1. \A i \in 1..n : d(b)[i] \in Nat
        BY <1>5, ElementOfSeq
      <4>2. \A i \in 1..(n + 1) : i \in 1..n \/ i = n + 1
        BY <1>2
      <4> QED  BY <2>1, <2>2, <2>3, <4>1, <4>2
    <3>2. DOMAIN d(c) = 1..(n + 1)
      BY <1>4
    <3>3. d(c) = [i \in 1..(n + 1) |-> d(c)[i]]
      BY <1>4
    <3>4. d(c) \in [1..(n + 1) -> Nat]
      BY <3>1, <3>2, <3>3, Zenon
    <3> HIDE DEF d
    <3> QED  BY <1>2, <3>4
  <2> DEFINE e == Append(d(b), x % M)
  <2>5. e \in Seq(Nat) /\ Len(e) = n + 1 /\ e[n + 1] = x % M /\ \A i \in 1..n : e[i] = d(b)[i]
    <3> HIDE DEF d
    <3> QED  BY <1>2, <1>5, <2>1, AppendProperties
  <2>6. \A i \in 1..(n + 1) : d(c)[i] = e[i]
    <3>1. \A i \in 1..(n + 1) : i \in 1..n \/ i = n + 1
      BY <1>2
    <3> HIDE DEF e, d
    <3> QED  BY <2>2, <2>3, <2>5, <3>1
  <2> HIDE DEF e, d
  <2> QED  BY <2>4, <2>5, <2>6, SeqEqual DEF e
<1>7. Number(M, Append(d(b), x % M)) = M * Number(M, d(b)) + (x % M) /\ Number(M, d(b)) \in Nat
  <2>1. x % M \in Nat /\ M \in Nat
    BY <1>1
  <2> HIDE DEF d
  <2> QED  BY <1>5, <2>1, NumberOfAppend, NumberType
<1>8. \A s : Wire!Uvarint(s) = Number(M, d(s))
  BY WireOperators DEF Wire!Uvarint, M
<1> HIDE DEF d
<1> QED  BY <1>6, <1>7, <1>8 DEF M, c

UpToInt(n) == {j \in Int : j <= n}

\* What encodeUvarint makes of k, given what it makes of smaller numbers.
Encoded(f, k) ==
  IF k >= Wire!More
  THEN <<(Wire!Int32(k) % Wire!More) + Wire!More>> \o f[Wire!Int32(k) \div Wire!More]
  ELSE <<Wire!Int32(k) % (2 * Wire!More)>>

\* A shift makes a number smaller.
LEMMA ShiftedIsSmaller ==
  ASSUME NEW k \in Int, k >= Wire!More
  PROVE  Wire!Int32(k) \div Wire!More \in Int /\ Wire!Int32(k) \div Wire!More < k
<1> DEFINE M == Wire!More
           L == Wire!Limit
           m == k % (2 * L)
           j == Wire!Int32(k)
<1>1. M \in Nat \ {0, 1} /\ L \in Nat \ {0} /\ k >= M /\ k \in Nat
  BY WireNumbers
<1>2. j = IF m >= L THEN m - 2 * L ELSE m
  BY DEF Wire!Int32
<1> HIDE DEF M, L, j
<1>3. m \in 0..(2 * L - 1) /\ m <= k
  <2> DEFINE b == 2 * L
  <2>1. b \in Nat \ {0}
    BY <1>1
  <2> HIDE DEF b
  <2>2. k \div b \in Nat /\ k % b \in 0..(b - 1) /\ k = b * (k \div b) + (k % b)
    BY <1>1, <2>1, Division
  <2>3. b * (k \div b) \in Nat
    BY <2>1, <2>2
  <2> HIDE DEF m
  <2> QED  BY <1>1, <2>1, <2>2, <2>3 DEF b, m
<1> HIDE DEF m
<1>4. j \in Int /\ j <= k
  BY <1>1, <1>2, <1>3
<1> DEFINE q == j \div M
           r == j % M
<1>5. q \in Int /\ r \in 0..(M - 1) /\ j = M * q + r
  BY <1>1, <1>4
<1> HIDE DEF q, r
<1>6. q < k
  <2>1. CASE q <= 0
    BY <1>1, <2>1, <1>5
  <2>2. CASE q > 0
    <3>1. M * q >= 2 * q
      BY <1>1, <1>5, <2>2
    <3> QED  BY <1>1, <1>4, <1>5, <2>2, <3>1
  <2> QED  BY <1>5, <2>1, <2>2
<1> QED  BY <1>5, <1>6 DEF q, j, M

\* encodeUvarint is determined by what it makes of smaller numbers.
LEMMA EncodedFollows ==
  ASSUME NEW n \in Nat
  PROVE  \E f : /\ \A k \in UpToInt(n) : f[k] = Encoded(f, k)
                /\ Wire!encodeUvarint(n) = f[n]
<1> DEFINE Works(f, m) == f = [k \in UpToInt(m) |-> Encoded(f, k)]
           P == {m \in Nat : \E f : Works(f, m)}
<1>1. 0 \in P
  <2> DEFINE f == [k \in UpToInt(0) |-> <<Wire!Int32(k) % (2 * Wire!More)>>]
  <2>1. \A k \in UpToInt(0) : ~(k >= Wire!More)
    BY WireNumbers DEF UpToInt
  <2>2. [k \in UpToInt(0) |-> Encoded(f, k)] = f
    BY <2>1 DEF Encoded
  <2> QED  BY <2>2
<1>2. \A m \in P : m + 1 \in P
  <2> SUFFICES ASSUME NEW m \in Nat, NEW f, Works(f, m) PROVE \E g : Works(g, m + 1)
    OBVIOUS
  <2> DEFINE g == [k \in UpToInt(m + 1) |-> IF k = m + 1 THEN Encoded(f, k) ELSE f[k]]
  <2>1. ASSUME NEW k \in UpToInt(m + 1) PROVE Encoded(g, k) = Encoded(f, k)
    <3>1. CASE k >= Wire!More
      <4> DEFINE j == Wire!Int32(k) \div Wire!More
      <4>1. j \in Int /\ j < k /\ k \in Int /\ k <= m + 1
        BY <2>1, <3>1, ShiftedIsSmaller DEF UpToInt
      <4> HIDE DEF j
      <4>2. j \in UpToInt(m + 1) /\ j # m + 1
        BY <4>1 DEF UpToInt
      <4>3. g[j] = f[j]
        BY <4>2
      <4> HIDE DEF g
      <4> QED  BY <3>1, <4>3 DEF Encoded, j
    <3>2. CASE ~(k >= Wire!More)
      BY <3>2 DEF Encoded
    <3> QED  BY <3>1, <3>2
  <2>2. ASSUME NEW k \in UpToInt(m + 1) PROVE g[k] = Encoded(f, k)
    <3>1. CASE k = m + 1
      BY <3>1
    <3>2. CASE k # m + 1
      <4>1. k \in UpToInt(m)
        BY <3>2 DEF UpToInt
      <4>2. f[k] = Encoded(f, k)
        BY <4>1, Zenon
      <4> QED  BY <3>2, <4>2
    <3> QED  BY <3>1, <3>2
  <2>3. g = [k \in UpToInt(m + 1) |-> g[k]]
    OBVIOUS
  <2> HIDE DEF g
  <2>4. Works(g, m + 1)
    BY <2>1, <2>2, <2>3
  <2> QED  BY <2>4
<1>3. P = Nat
  <2> HIDE DEF P
  <2>1. P \subseteq Nat
    BY DEF P
  <2> QED  BY <1>1, <1>2, <2>1, Induction
<1> DEFINE f == CHOOSE f : Works(f, n)
<1>4. Works(f, n)
  BY <1>3
<1>5. Wire!encodeUvarint(n) = f[n]
  BY DEF Wire!encodeUvarint, Encoded, UpToInt
<1>6. \A k \in UpToInt(n) : f[k] = Encoded(f, k)
  <2> HIDE DEF f
  <2> QED  BY <1>4, Zenon
<1> QED  BY <1>5, <1>6

\* Numbers that shifts do not take for negative are decoded as encoded.
LEMMA UvarintOfEncoded ==
  /\ Wire!Uvarint(<<>>) = 0
  /\ \A n \in 0..(Wire!Limit - 1) : Wire!Uvarint(Wire!encodeUvarint(n)) = n
<1> DEFINE M == Wire!More
           L == Wire!Limit
<1>1. M \in Nat \ {0, 1} /\ L \in Nat \ {0}
  BY WireNumbers
<1>2. Wire!Uvarint(<<>>) = 0
  <2>1. [i \in DOMAIN <<>> |-> <<>>[Len(<<>>) + 1 - i] % M] = <<>>
    OBVIOUS
  <2>2. Number(M, <<>>) = 0
    BY <1>1, NumberOfNothing
  <2> QED  BY <2>1, <2>2, WireOperators DEF Wire!Uvarint
<1> SUFFICES ASSUME NEW n \in 0..(L - 1) PROVE Wire!Uvarint(Wire!encodeUvarint(n)) = n
  BY <1>2
<1> HIDE DEF M, L
<1>3. n \in Nat
  BY <1>1
<1>4. PICK f : /\ \A k \in UpToInt(n) : f[k] = Encoded(f, k)
               /\ Wire!encodeUvarint(n) = f[n]
  BY <1>3, EncodedFollows
<1> DEFINE P == {k \in Nat : k <= n => f[k] \in Seq(Nat) /\ Wire!Uvarint(f[k]) = k}
<1>5. ASSUME NEW k \in Nat, \A m \in 0..(k - 1) : m \in P PROVE k \in P
  <2> SUFFICES ASSUME k <= n PROVE f[k] \in Seq(Nat) /\ Wire!Uvarint(f[k]) = k
    OBVIOUS
  <2>1. f[k] = Encoded(f, k)
    BY <1>3, <1>4 DEF UpToInt
  <2>2. Wire!Int32(k) = k
    <3>1. k \in 0..(2 * L - 1) /\ ~(k >= L)
      BY <1>1
    <3>2. k % (2 * L) = k
      <4>1. 2 * L \in Nat \ {0} /\ 0 \in Nat /\ 0 * (2 * L) + k = k
        BY <1>1
      <4> DEFINE b == 2 * L
      <4> HIDE DEF b
      <4>2. (0 * b + k) % b = k
        BY <3>1, <4>1, UniqueDivision DEF b
      <4> QED  BY <4>1, <4>2 DEF b
    <3> QED  BY <3>1, <3>2 DEF Wire!Int32, L
  <2>3. CASE k >= M
    <3> DEFINE q == k \div M
               r == k % M
    <3>1. q \in Nat /\ r \in 0..(M - 1) /\ k = M * q + r /\ q < k
      <4>1. M \in Nat \ {0} /\ M > 1 /\ k > 0
        BY <1>1, <2>3
      <4> QED  BY <4>1, Division
    <3>2. f[k] = <<r + M>> \o f[q]
      BY <2>1, <2>2, <2>3 DEF Encoded, M
    <3> HIDE DEF q, r
    <3>3. f[q] \in Seq(Nat) /\ Wire!Uvarint(f[q]) = q
      <4>1. q \in 0..(k - 1) /\ q <= n
        BY <1>3, <3>1
      <4> QED  BY <1>5, <4>1
    <3>4. (r + M) % M = r
      <4>1. (1 * M + r) % M = r /\ 1 * M + r = r + M
        BY <1>1, <3>1, UniqueDivision
      <4> QED  BY <4>1
    <3>5. r + M \in Nat
      BY <1>1, <3>1
    <3>6. Wire!Uvarint(f[k]) = M * q + r
      BY <3>2, <3>3, <3>4, <3>5, UvarintOfNext DEF M
    <3>7. f[k] \in Seq(Nat)
      BY <3>2, <3>3, <3>5
    <3> QED  BY <3>1, <3>6, <3>7
  <2>4. CASE k < M
    <3>1. k % (2 * M) = k /\ k % M = k
      <4>1. ASSUME NEW b \in Nat \ {0}, k < b PROVE k % b = k
        <5>1. k \in 0..(b - 1) /\ 0 * b + k = k /\ 0 \in Nat
          BY <4>1
        <5>2. (0 * b + k) % b = k
          BY <5>1, UniqueDivision
        <5> QED  BY <5>1, <5>2
      <4>2. 2 * M \in Nat \ {0} /\ k < 2 * M
        BY <1>1, <2>4
      <4> QED  BY <1>1, <2>4, <4>1, <4>2
    <3>2. f[k] = <<k>>
      BY <1>1, <2>1, <2>2, <2>4, <3>1 DEF Encoded, M
    <3>3. <<k>> = <<k>> \o <<>> /\ <<>> \in Seq(Nat) /\ <<k>> \in Seq(Nat)
      OBVIOUS
    <3>4. Wire!Uvarint(<<k>> \o <<>>) = M * 0 + (k % M)
      BY <1>2, <3>3, UvarintOfNext DEF M
    <3> QED  BY <1>1, <3>1, <3>2, <3>3, <3>4
  <2> QED  BY <1>1, <2>3, <2>4
<1>6. Nat \subseteq P
  <2> HIDE DEF P
  <2> QED  BY <1>5, StrongInduction
<1>7. n \in P
  BY <1>3, <1>6
<1> QED  BY <1>1, <1>3, <1>4, <1>7

Span == 0..(Wire!Millis * Wire!Nanos - 1)

DateOf(s, v) == [time |-> s * Wire!Millis + (v \div Wire!Nanos), nanoseconds |-> v % Wire!Nanos]

\* A date's seconds and nanoseconds.
LEMMA DateParts ==
  ASSUME NEW s \in Int, NEW v \in Span
  PROVE  LET date == DateOf(s, v)
             m == v \div Wire!Nanos
         IN /\ m \in 0..(Wire!Millis - 1) /\ date.nanoseconds \in 0..(Wire!Nanos - 1)
            /\ m * Wire!Nanos + date.nanoseconds = v
            /\ date.time \div Wire!Millis = s /\ date.time % Wire!Millis = m
            /\ (s < 0 => v = 0) => Wire!Timestamp(date) = [seconds |-> s, nanos |-> v]
            /\ Wire!Meaning("date", date) = Wire!Instant(s, v)
<1> DEFINE A == Wire!Millis
           B == Wire!Nanos
           m == v \div B
           y == v % B
           t == s * A + m
<1>1. A \in Nat \ {0} /\ B \in Nat \ {0} /\ v \in 0..(A * B - 1) /\ A * B \in Nat
  BY WireNumbers DEF Span
<1>2. DateOf(s, v) = [time |-> t, nanoseconds |-> y]
  BY DEF DateOf
<1> HIDE DEF A, B
<1>3. m \in Nat /\ y \in 0..(B - 1) /\ v = B * m + y /\ v \in Nat
  <2>1. v \in Nat
    BY <1>1
  <2> QED  BY <1>1, <2>1, Division
<1> HIDE DEF m, y
<1>4. m * B + y = v /\ m * B \in Nat /\ y \in Nat
  BY <1>1, <1>3
<1>5. m \in 0..(A - 1)
  <2>1. m * B < A * B
    BY <1>1, <1>4
  <2>2. m < A
    BY <1>1, <1>3, <2>1, MultiplyOrder
  <2> QED  BY <1>1, <1>3, <2>2
<1>6. t \div A = s /\ t % A = m
  BY <1>1, <1>5, SignedDivision
<1>7. ASSUME s < 0 => v = 0 PROVE Wire!Remainder(t, A) = m
  <2>1. CASE s >= 0
    <3>1. s * A \in Nat
      BY <1>1, <2>1
    <3>2. t >= 0
      BY <1>5, <3>1
    <3> HIDE DEF t
    <3> QED  BY <1>6, <3>2 DEF Wire!Remainder
  <2>2. CASE s < 0
    <3>1. v = 0 /\ m * B = 0
      BY <1>4, <1>7, <2>2
    <3>2. m = 0
      BY <1>1, <1>3, <3>1
    <3>3. -t = (-s) * A + 0 /\ -s \in Nat /\ -s > 0
      BY <1>1, <2>2, <3>2
    <3>4. (-s) * A > 0
      BY <1>1, <3>3
    <3>5. 0 \in 0..(A - 1)
      BY <1>1
    <3>6. ((-s) * A + 0) % A = 0
      BY <1>1, <3>3, <3>5, UniqueDivision
    <3>7. t \in Int /\ ~(t >= 0)
      BY <1>1, <3>2, <3>3, <3>4
    <3> HIDE DEF t
    <3>8. Wire!Remainder(t, A) = -((-t) % A)
      BY <3>7 DEF Wire!Remainder
    <3> QED  BY <3>2, <3>3, <3>6, <3>8
  <2> QED  BY <2>1, <2>2
<1>8. (s < 0 => v = 0) => Wire!Timestamp(DateOf(s, v)) = [seconds |-> s, nanos |-> v]
  <2> HIDE DEF t
  <2> QED  BY <1>2, <1>4, <1>6, <1>7 DEF Wire!Timestamp, A, B
<1>9. Wire!Meaning("date", DateOf(s, v)) = Wire!Instant(s, v)
  <2>1. t * B + y = s * A * B + v
    <3>1. t * B = (s * A) * B + m * B /\ (s * A) * B \in Int
      BY <1>1, <1>3
    <3> HIDE DEF t
    <3> QED  BY <1>4, <3>1
  <2> HIDE DEF t
  <2> QED  BY <1>2, <2>1 DEF Wire!Meaning, Wire!Instant, A, B
<1> HIDE DEF t
<1> QED  BY <1>2, <1>4, <1>5, <1>3, <1>6, <1>8, <1>9 DEF A, B, m, y

TimeTexts ==
  {t \in [seconds : Int, fraction : Seq(Digit), utc : BOOLEAN, offset : Int] :
     Len(t.fraction) <= MsDigits + NsDigits}

SecondsOf(t) == t.seconds - t.offset

FractionOf(t) == ValueOf(PadEnd(t.fraction, MsDigits + NsDigits))

AllNanoseconds(t) == t.utc \/ Len(t.fraction) <= MsDigits

\* What a text with all of its fraction is read as.
LEMMA TextIsRead ==
  ASSUME NEW t \in TimeTexts
  PROVE  LET rest == IF t.utc THEN SubSeq(t.fraction, MsDigits + 1, Len(t.fraction)) ELSE <<>>
         IN /\ SecondsOf(t) \in Int /\ FractionOf(t) \in Span
            /\ AllNanoseconds(t) =>
                 [time |-> Wire!fromRfc3339(t), nanoseconds |-> Wire!ValueOf(Wire!PadEnd(rest, NsDigits))]
                   = DateOf(SecondsOf(t), FractionOf(t))
            /\ ValueOf(t.fraction) = 0 => FractionOf(t) = 0
            /\ Wire!Meaning("rfc3339", t) = Wire!Instant(SecondsOf(t), FractionOf(t))
<1> DEFINE f == t.fraction
           v == FractionOf(t)
           rest == SubSeq(f, MsDigits + 1, Len(f))
<1>1. /\ f \in Seq(Digit) /\ Len(f) <= MsDigits + NsDigits /\ t.seconds \in Int /\ t.offset \in Int /\ t.utc \in BOOLEAN
      /\ MsDigits \in Nat \ {0} /\ NsDigits \in Nat \ {0}
      /\ Wire!Millis = Power(10, MsDigits) /\ Wire!Nanos = Power(10, NsDigits)
  BY WireNumbers DEF TimeTexts
<1>2. /\ v \in Span
      /\ ValueOf(SubSeq(PadEnd(f, MsDigits), 1, MsDigits)) = v \div Wire!Nanos
      /\ ValueOf(PadEnd(rest, NsDigits)) = v % Wire!Nanos
      /\ Len(f) <= MsDigits => ValueOf(PadEnd(<<>>, NsDigits)) = v % Wire!Nanos
  BY <1>1, FractionParts DEF FractionOf, Span
<1>3. SecondsOf(t) \in Int
  BY <1>1 DEF SecondsOf
<1>4. Wire!fromRfc3339(t) = SecondsOf(t) * Wire!Millis + (v \div Wire!Nanos)
  BY <1>2, WireOperators DEF Wire!fromRfc3339, SecondsOf
<1>5. ValueOf(f) = 0 => v = 0
  <2>1. v = ValueOf(f) * Power(10, (MsDigits + NsDigits) - Len(f))
    <3> DEFINE n == MsDigits + NsDigits
    <3>1. n \in Nat /\ Len(f) <= n
      BY <1>1
    <3> HIDE DEF n
    <3>2. ValueOf(PadEnd(f, n)) = ValueOf(f) * Power(10, n - Len(f))
      BY <1>1, <3>1, PadEndType
    <3> QED  BY <3>2 DEF FractionOf, n
  <2>2. (MsDigits + NsDigits) - Len(f) \in Nat
    BY <1>1, DigitsAreNumbers
  <2>3. Power(10, (MsDigits + NsDigits) - Len(f)) \in Nat
    BY <2>2, PowersOfTen
  <2> QED  BY <2>1, <2>3
<1>6. Wire!Meaning("rfc3339", t) = Wire!Instant(SecondsOf(t), v)
  BY WireOperators DEF Wire!Meaning, SecondsOf, FractionOf
<1> HIDE DEF v, rest
<1>7. AllNanoseconds(t) =>
        Wire!ValueOf(Wire!PadEnd(IF t.utc THEN rest ELSE <<>>, NsDigits)) = v % Wire!Nanos
  BY <1>1, <1>2, WireOperators DEF AllNanoseconds
<1> QED  BY <1>2, <1>3, <1>4, <1>5, <1>6, <1>7 DEF v, rest, DateOf

\* The text of a date.
Printed(date) ==
  [seconds |-> date.time \div Wire!Millis, utc |-> TRUE, offset |-> 0,
   fraction |-> Wire!PadStart(Wire!DigitsOf(date.time % Wire!Millis), MsDigits)
                  \o Wire!PadStart(Wire!DigitsOf(date.nanoseconds), NsDigits)]

\* A date is printed with all its digits.
LEMMA TextIsPrinted ==
  ASSUME NEW s \in Int, NEW v \in Span
  PROVE  LET t == Printed(DateOf(s, v))
         IN t \in TimeTexts /\ SecondsOf(t) = s /\ FractionOf(t) = v /\ AllNanoseconds(t)
<1> DEFINE date == DateOf(s, v)
           m == v \div Wire!Nanos
           y == date.nanoseconds
           f == PadStart(DigitsOf(m), MsDigits) \o PadStart(DigitsOf(y), NsDigits)
           t == [seconds |-> s, utc |-> TRUE, offset |-> 0, fraction |-> f]
<1>1. /\ MsDigits \in Nat \ {0} /\ NsDigits \in Nat \ {0}
      /\ Wire!Millis = Power(10, MsDigits) /\ Wire!Nanos = Power(10, NsDigits)
  BY WireNumbers
<1>2. /\ m \in 0..(Wire!Millis - 1) /\ y \in 0..(Wire!Nanos - 1) /\ m * Wire!Nanos + y = v
      /\ date.time \div Wire!Millis = s /\ date.time % Wire!Millis = m
  BY DateParts
<1> HIDE DEF date, m, y
<1>3. f \in Seq(Digit) /\ Len(f) = MsDigits + NsDigits /\ ValueOf(PadEnd(f, MsDigits + NsDigits)) = v
  BY <1>1, <1>2, JoinedFraction
<1>4. f = Wire!PadStart(Wire!DigitsOf(m), MsDigits) \o Wire!PadStart(Wire!DigitsOf(y), NsDigits)
  BY WireOperators
<1> HIDE DEF f
<1>5. t \in TimeTexts
  BY <1>1, <1>3 DEF TimeTexts
<1>6. SecondsOf(t) = s /\ FractionOf(t) = v /\ AllNanoseconds(t)
  BY <1>3 DEF SecondsOf, FractionOf, AllNanoseconds
<1> QED  BY <1>2, <1>4, <1>5, <1>6 DEF date, y, Printed

\* Seconds and nanos give the date back.
LEMMA TimestampIsRead ==
  ASSUME NEW s \in Int, NEW v \in Span
  PROVE  /\ v \in 0..(Wire!Millis * Wire!Nanos - 1)
         /\ [time |-> s * Wire!Millis + (v \div Wire!Nanos), nanoseconds |-> v % Wire!Nanos] = DateOf(s, v)
BY DEF Span, DateOf

\* What each form means.
LEMMA MeaningOfForms ==
  ASSUME NEW d
  PROVE  /\ Wire!Meaning("rfc3339", d) = Wire!Instant(SecondsOf(d), FractionOf(d))
         /\ Wire!Meaning("date", d) = d.time * Wire!Nanos + d.nanoseconds
         /\ Wire!Meaning("seconds", d) = Wire!Instant(d.seconds, d.nanos)
         /\ Wire!Meaning("bytes", d) = Wire!Instant(Wire!Uvarint(d.seconds), Wire!Uvarint(d.nanos))
         /\ Wire!Meaning("der", d) = <<Wire!Integer(Wire!DerR(d)), Wire!Integer(Wire!DerS(d))>>
         /\ Wire!Meaning("signature", d) = <<Number(256, d.r), Number(256, d.s)>>
         /\ Wire!Meaning("fixed", d) =
              <<Number(256, SubSeq(d, 1, IntegerBytes)), Number(256, SubSeq(d, IntegerBytes + 1, Len(d)))>>
         /\ Wire!Meaning("header", d) = {node \in Wire!Blocks(d) : node[1] < node[2]}
         /\ Wire!Meaning("tree", d) = d
BY WireOperators DEF Wire!Meaning, SecondsOf, FractionOf

\* Times of which nothing is lost.
Lossless(t) == AllNanoseconds(t) /\ (SecondsOf(t) < 0 => ValueOf(t.fraction) = 0)

\* Every form of a time is that of its seconds and of the fraction.
TimesInv ==
  LET s == SecondsOf(first.data)
      v == FractionOf(first.data)
  IN /\ first.data \in TimeTexts
     /\ Lossless(first.data) =>
          /\ form \in {"rfc3339", "date", "seconds", "bytes"}
          /\ form = "rfc3339" =>
               data \in TimeTexts /\ AllNanoseconds(data) /\ SecondsOf(data) = s /\ FractionOf(data) = v
          /\ form = "date" => data = DateOf(s, v)
          /\ form = "seconds" => data = [seconds |-> s, nanos |-> v]
          /\ form = "bytes" =>
               /\ s \in 0..(Wire!Limit - 1) => Wire!Uvarint(data.seconds) = s
               /\ Wire!Uvarint(data.nanos) = v

LEMMA TimesStep == TimesInv /\ Wire!Next => TimesInv'
<1> DEFINE s == SecondsOf(first.data)
           v == FractionOf(first.data)
<1> SUFFICES ASSUME TimesInv, Wire!Next, Lossless(first.data)
             PROVE  /\ first' = first
                    /\ form' \in {"rfc3339", "date", "seconds", "bytes"}
                    /\ form' = "rfc3339" =>
                         data' \in TimeTexts /\ AllNanoseconds(data') /\ SecondsOf(data') = s /\ FractionOf(data') = v
                    /\ form' = "date" => data' = DateOf(s, v)
                    /\ form' = "seconds" => data' = [seconds |-> s, nanos |-> v]
                    /\ form' = "bytes" =>
                         /\ s \in 0..(Wire!Limit - 1) => Wire!Uvarint(data'.seconds) = s
                         /\ Wire!Uvarint(data'.nanos) = v
  <2>1. Wire!Next => first' = first
    BY Zenon DEF Wire!Next, Wire!fromRfc3339WithNanoseconds, Wire!toRfc3339WithNanoseconds, Wire!toSeconds,
      Wire!fromSeconds, Wire!encodeTime, Wire!hashBlock, Wire!fromDer, Wire!toDer, Wire!toFixedLength,
      Wire!fromFixedLength, Wire!Becomes, Wire!Construct
  <2> QED  BY <2>1 DEF TimesInv
<1>1. /\ first.data \in TimeTexts /\ form \in {"rfc3339", "date", "seconds", "bytes"}
      /\ form = "rfc3339" =>
           data \in TimeTexts /\ AllNanoseconds(data) /\ SecondsOf(data) = s /\ FractionOf(data) = v
      /\ form = "date" => data = DateOf(s, v)
      /\ form = "seconds" => data = [seconds |-> s, nanos |-> v]
  BY DEF TimesInv
<1>2. s \in Int /\ v \in Span /\ (s < 0 => v = 0)
  BY <1>1, TextIsRead DEF Lossless
<1> HIDE DEF s, v
<1>3. CASE Wire!fromRfc3339WithNanoseconds
  <2> DEFINE rest == IF data.utc THEN SubSeq(data.fraction, MsDigits + 1, Len(data.fraction)) ELSE <<>>
             date == [time |-> Wire!fromRfc3339(data), nanoseconds |-> Wire!ValueOf(Wire!PadEnd(rest, NsDigits))]
  <2>1. form = "rfc3339" /\ form' = "date" /\ data' = date /\ first' = first
    BY <1>3 DEF Wire!fromRfc3339WithNanoseconds, Wire!Becomes
  <2>2. date = DateOf(s, v)
    BY <1>1, <2>1, TextIsRead
  <2> QED  BY <2>1, <2>2
<1>4. CASE Wire!toRfc3339WithNanoseconds
  <2>1. /\ form = "date" /\ form' = "rfc3339" /\ first' = first
        /\ data' = Printed(data)
    BY <1>4 DEF Wire!toRfc3339WithNanoseconds, Wire!Becomes, Printed
  <2>2. data' \in TimeTexts /\ SecondsOf(data') = s /\ FractionOf(data') = v /\ AllNanoseconds(data')
    BY <1>1, <1>2, <2>1, TextIsPrinted
  <2> QED  BY <2>1, <2>2
<1>5. CASE Wire!toSeconds
  <2>1. form = "date" /\ form' = "seconds" /\ first' = first /\ data' = Wire!Timestamp(data)
    BY <1>5 DEF Wire!toSeconds, Wire!Becomes
  <2> QED  BY <1>1, <1>2, <2>1, DateParts
<1>6. CASE Wire!fromSeconds
  <2>1. /\ form = "seconds" /\ first' = first
        /\ data.nanos \in 0..(Wire!Millis * Wire!Nanos - 1) =>
             /\ form' = "date"
             /\ data' = [time |-> data.seconds * Wire!Millis + (data.nanos \div Wire!Nanos),
                         nanoseconds |-> data.nanos % Wire!Nanos]
    BY <1>6 DEF Wire!fromSeconds, Wire!Becomes
  <2>2. data.seconds = s /\ data.nanos = v
    BY <1>1, <2>1
  <2> QED  BY <1>2, <2>1, <2>2, TimestampIsRead
<1>7. CASE Wire!encodeTime
  <2> DEFINE field(n) == IF n = 0 THEN <<>> ELSE Wire!encodeUvarint(n)
  <2>1. /\ form = "date" /\ first' = first /\ form' = "bytes"
        /\ data' = [seconds |-> field(Wire!Timestamp(data).seconds), nanos |-> field(Wire!Timestamp(data).nanos)]
    BY <1>7 DEF Wire!encodeTime, Wire!Becomes
  <2>2. Wire!Timestamp(data) = [seconds |-> s, nanos |-> v]
    BY <1>1, <1>2, <2>1, DateParts
  <2>3. \A n \in 0..(Wire!Limit - 1) : Wire!Uvarint(field(n)) = n
    BY UvarintOfEncoded
  <2>4. v \in 0..(Wire!Limit - 1)
    BY <1>2, WireNumbers DEF Span
  <2> HIDE DEF field
  <2> QED  BY <2>1, <2>2, <2>3, <2>4
<1>8. ~ (Wire!hashBlock \/ Wire!fromDer \/ Wire!toDer \/ Wire!toFixedLength \/ Wire!fromFixedLength)
  BY <1>1 DEF Wire!hashBlock, Wire!fromDer, Wire!toDer, Wire!toFixedLength, Wire!fromFixedLength
<1> QED  BY <1>3, <1>4, <1>5, <1>6, <1>7, <1>8 DEF Wire!Next

LEMMA TimesAgree ==
  TimesInv /\ first.form = "rfc3339" /\ Wire!Kept
    => form # "failed" /\ Wire!Meaning(form, data) = Wire!Meaning(first.form, first.data)
<1> SUFFICES ASSUME TimesInv, first.form = "rfc3339", Wire!Kept
             PROVE  form # "failed" /\ Wire!Meaning(form, data) = Wire!Meaning("rfc3339", first.data)
  OBVIOUS
<1> DEFINE s == SecondsOf(first.data)
           v == FractionOf(first.data)
<1>1. /\ AllNanoseconds(first.data) /\ (s < 0 => ValueOf(first.data.fraction) = 0)
      /\ form = "bytes" => s \in 0..(Wire!Limit - 1)
  BY WireOperators DEF Wire!Kept, AllNanoseconds, SecondsOf
<1>2. /\ first.data \in TimeTexts /\ form \in {"rfc3339", "date", "seconds", "bytes"}
      /\ form = "rfc3339" =>
           data \in TimeTexts /\ AllNanoseconds(data) /\ SecondsOf(data) = s /\ FractionOf(data) = v
      /\ form = "date" => data = DateOf(s, v)
      /\ form = "seconds" => data = [seconds |-> s, nanos |-> v]
      /\ form = "bytes" => Wire!Uvarint(data.seconds) = s /\ Wire!Uvarint(data.nanos) = v
  BY <1>1 DEF TimesInv, Lossless
<1>3. s \in Int /\ v \in Span /\ Wire!Meaning("rfc3339", first.data) = Wire!Instant(s, v)
  BY <1>2, TextIsRead
<1> HIDE DEF s, v
<1>4. CASE form = "rfc3339"
  BY <1>2, <1>3, <1>4, MeaningOfForms
<1>5. CASE form = "date"
  <2>1. Wire!Meaning("date", data) = Wire!Instant(s, v)
    BY <1>2, <1>3, <1>5, DateParts
  <2> QED  BY <1>3, <1>5, <2>1
<1>6. CASE form = "seconds"
  <2>1. data.seconds = s /\ data.nanos = v
    BY <1>2, <1>6
  <2> QED  BY <1>3, <1>6, <2>1, MeaningOfForms
<1>7. CASE form = "bytes"
  BY <1>2, <1>3, <1>7, MeaningOfForms
<1> QED  BY <1>2, <1>4, <1>5, <1>6, <1>7

\* The least of a set, and the greatest.
LEMMA MinimumIs ==
  ASSUME NEW S \in SUBSET Int, NEW m \in S, \A x \in S : m <= x
  PROVE  Wire!Min(S) = m
<1> DEFINE c == Wire!Min(S)
<1>1. c \in S /\ \A x \in S : c <= x
  BY DEF Wire!Min
<1> HIDE DEF c
<1>2. m <= c /\ c <= m /\ c \in Int
  BY <1>1
<1> QED  BY <1>2 DEF c

LEMMA MaximumIs ==
  ASSUME NEW S \in SUBSET Int, NEW m \in S, \A x \in S : x <= m
  PROVE  Wire!Max(S) = m
<1> DEFINE c == Wire!Max(S)
<1>1. c \in S /\ \A x \in S : c >= x
  BY DEF Wire!Max
<1> HIDE DEF c
<1>2. m <= c /\ c <= m /\ c \in Int
  BY <1>1
<1> QED  BY <1>2 DEF c

\* What is trimmed of bytes are zeros.
LEMMA TrimmedBytes ==
  ASSUME NEW b \in Seq(Octet)
  PROVE  LET t == Wire!trimLeadingNullBytes(b)
         IN /\ t \in Seq(Octet) /\ Number(256, t) = Number(256, b)
            /\ t # <<>> => t[1] # 0
<1> DEFINE n == Len(b)
           S == {i \in DOMAIN b : b[i] # 0} \cup {n + 1}
<1>1. n \in Nat /\ DOMAIN b = 1..n /\ \A i \in 1..n : b[i] \in Octet
  BY LenProperties, ElementOfSeq
<1>2. PICK m \in S : \A i \in S : m <= i
  <2>1. S \in SUBSET Nat /\ S # {}
    BY <1>1
  <2> HIDE DEF S
  <2> QED  BY <2>1, LeastElement
<1>3. S \in SUBSET Int /\ m \in 1..(n + 1)
  BY <1>1
<1>4. Wire!trimLeadingNullBytes(b) = SubSeq(b, m, n)
  <2>1. Wire!Min(S) = m
    <3> HIDE DEF S
    <3> QED  BY <1>2, <1>3, MinimumIs
  <2> QED  BY <2>1 DEF Wire!trimLeadingNullBytes
<1>5. \A i \in 1..(m - 1) : b[i] = 0
  BY <1>1, <1>2, <1>3
<1>6. m \in 1..n => b[m] # 0
  BY <1>1, <1>2
<1> HIDE DEF S
<1> DEFINE t == SubSeq(b, m, n)
           h == SubSeq(b, 1, m - 1)
<1>7. /\ h \in Seq(Octet) /\ Len(h) = m - 1 /\ \A i \in 1..(m - 1) : h[i] = b[i]
      /\ t \in Seq(Octet) /\ Len(t) = n - (m - 1) /\ \A i \in 1..(n - (m - 1)) : t[i] = b[(m - 1) + i]
      /\ b = h \o t
  <2> DEFINE j == m - 1
  <2>1. j \in 0..n /\ j + 1 = m
    BY <1>1, <1>3
  <2> HIDE DEF j
  <2>2. LET front == SubSeq(b, 1, j)
            after  == SubSeq(b, j + 1, n)
        IN /\ front \in Seq(Octet) /\ Len(front) = j /\ \A i \in 1..j : front[i] = b[i]
           /\ after \in Seq(Octet) /\ Len(after) = n - j /\ \A i \in 1..(n - j) : after[i] = b[j + i]
           /\ b = front \o after
    BY <2>1, Split
  <2> QED  BY <2>1, <2>2 DEF j
<1> HIDE DEF t, h, n
<1>8. h = Zeros(m - 1)
  <2>1. m - 1 \in Nat
    BY <1>3
  <2>2. /\ Zeros(m - 1) \in Seq(Octet) /\ Len(Zeros(m - 1)) = m - 1
        /\ \A i \in 1..(m - 1) : Zeros(m - 1)[i] = 0
    BY <2>1, OctetNumbers
  <2> DEFINE z == Zeros(m - 1)
  <2> HIDE DEF z
  <2> QED  BY <1>5, <1>7, <2>2, SeqEqual DEF z
<1>9. Number(256, b) = Number(256, t)
  <2>1. m - 1 \in Nat
    BY <1>3
  <2> QED  BY <1>7, <1>8, <2>1, OctetNumbers
<1>10. t # <<>> => t[1] # 0
  <2> SUFFICES ASSUME t # <<>> PROVE t[1] # 0
    OBVIOUS
  <2>1. Len(t) # 0 /\ Len(t) \in Nat
    BY <1>7, EmptySeq
  <2>2. m \in 1..n /\ 1 \in 1..(n - (m - 1)) /\ (m - 1) + 1 = m
    BY <1>1, <1>3, <1>7, <2>1
  <2> QED  BY <1>6, <1>7, <2>2
<1> QED  BY <1>4, <1>7, <1>9, <1>10 DEF t, n

\* An integer without zeros in front.
Unsigned(x) == x \in Seq(Octet) /\ Len(x) \in 1..IntegerBytes /\ x[1] # 0

\* Zeros in front are trimmed, and no more.
LEMMA TrimOfPadded ==
  ASSUME NEW x, Unsigned(x), NEW k \in Nat
  PROVE  LET b == Zeros(k) \o x
         IN b \in Seq(Octet) /\ Len(b) = k + Len(x) /\ Wire!trimLeadingNullBytes(b) = x
<1> DEFINE z == Zeros(k)
           b == z \o x
           n == Len(x)
           S == {i \in DOMAIN b : b[i] # 0} \cup {Len(b) + 1}
<1>1. x \in Seq(Octet) /\ n \in Nat /\ n >= 1 /\ x[1] # 0
  BY WireAssumption DEF Unsigned, WireAssumption
<1>2. z \in Seq(Octet) /\ Len(z) = k /\ \A i \in 1..k : z[i] = 0
  BY OctetNumbers
<1> HIDE DEF z, n
<1>3. /\ b \in Seq(Octet) /\ Len(b) = k + n /\ SubSeq(b, k + 1, Len(b)) = x
      /\ \A i \in 1..(k + n) : b[i] = IF i <= k THEN z[i] ELSE x[i - k]
  <2>1. /\ b \in Seq(Octet) /\ Len(b) = Len(z) + Len(x)
        /\ \A i \in 1..(Len(z) + Len(x)) : b[i] = IF i <= Len(z) THEN z[i] ELSE x[i - Len(z)]
    BY <1>1, <1>2, ConcatProperties
  <2>2. SubSeq(b, Len(z) + 1, Len(b)) = x
    BY <1>1, <1>2, PartsOfConcat
  <2> HIDE DEF b
  <2> QED  BY <1>2, <2>1, <2>2 DEF n
<1>4. DOMAIN b = 1..(k + n)
  <2> HIDE DEF b
  <2> QED  BY <1>3, LenProperties
<1> HIDE DEF b
<1>5. k + 1 \in S
  <2>1. k + 1 \in 1..(k + n) /\ ~(k + 1 <= k) /\ (k + 1) - k = 1
    BY <1>1
  <2> QED  BY <1>1, <1>3, <1>4, <2>1
<1>6. \A i \in S : k + 1 <= i
  <2>1. ASSUME NEW i \in 1..(k + n), i <= k PROVE b[i] = 0
    <3>1. i \in 1..k
      BY <2>1
    <3> QED  BY <1>2, <1>3, <2>1, <3>1
  <2> QED  BY <1>1, <1>3, <1>4, <2>1
<1>7. S \in SUBSET Int
  BY <1>1, <1>3, <1>4
<1>8. Wire!Min(S) = k + 1
  <2> HIDE DEF S
  <2> QED  BY <1>5, <1>6, <1>7, MinimumIs
<1> QED  BY <1>3, <1>8 DEF Wire!trimLeadingNullBytes, b, z, n

\* An integer padded to a fixed length.
LEMMA PaddedBytes ==
  ASSUME NEW x, Unsigned(x)
  PROVE  LET p == Wire!PadStart(x, IntegerBytes)
         IN /\ p \in Seq(Octet) /\ Len(p) = IntegerBytes /\ Number(256, p) = Number(256, x)
            /\ Wire!trimLeadingNullBytes(p) = x
<1> DEFINE k == IntegerBytes - Len(x)
           p == Zeros(k) \o x
<1>1. x \in Seq(Octet) /\ Len(x) \in 1..IntegerBytes /\ IntegerBytes \in Nat
  BY WireAssumption DEF Unsigned, WireAssumption
<1>2. k \in Nat /\ k + Len(x) = IntegerBytes
  BY <1>1
<1>3. Wire!PadStart(x, IntegerBytes) = p
  <2>1. Wire!PadStart(x, IntegerBytes) = PadStart(x, IntegerBytes)
    BY WireOperators, Zenon
  <2>2. CASE k > 0
    <3>1. IntegerBytes > Len(x)
      BY <1>1, <2>2
    <3> QED  BY <2>1, <3>1, Zenon DEF PadStart
  <2>3. CASE k = 0
    <3>1. Zeros(k) = <<>> /\ ~(IntegerBytes > Len(x))
      BY <1>1, <2>3 DEF Zeros
    <3> QED  BY <2>1, <3>1, Zenon DEF PadStart
  <2> QED  BY <1>2, <2>2, <2>3
<1> HIDE DEF k
<1>4. p \in Seq(Octet) /\ Len(p) = k + Len(x) /\ Wire!trimLeadingNullBytes(p) = x
  BY <1>2, TrimOfPadded
<1>5. Number(256, p) = Number(256, x)
  BY <1>1, <1>2, OctetNumbers
<1> QED  BY <1>2, <1>3, <1>4, <1>5

\* Two integers that are not negative, as DER.
LEMMA DerLayout ==
  ASSUME NEW a \in Seq(Octet), NEW b \in Seq(Octet), Len(a) \in 1..61, Len(b) \in 1..61, a[1] < 128, b[1] < 128
  PROVE  LET body == (<<2, Len(a)>> \o a) \o (<<2, Len(b)>> \o b)
             d == <<48, Len(body)>> \o body
         IN Wire!IsDer(d) /\ Wire!DerR(d) = a /\ Wire!DerS(d) = b
<1> DEFINE n == Len(a)
           k == Len(b)
           r == <<2, n>> \o a
           s == <<2, k>> \o b
           body == r \o s
           d == <<48, Len(body)>> \o body
<1>1. n \in 1..61 /\ k \in 1..61
  OBVIOUS
<1>2. 2 \in Octet /\ n \in Octet /\ k \in Octet /\ 48 \in Octet
  BY <1>1 DEF Octet
<1>3. r \in Seq(Octet) /\ Len(r) = 2 + n /\ r[1] = 2 /\ r[2] = n /\ \A i \in 1..n : r[2 + i] = a[i]
  BY <1>2, TwoBefore
<1>4. s \in Seq(Octet) /\ Len(s) = 2 + k /\ s[1] = 2 /\ s[2] = k /\ \A i \in 1..k : s[2 + i] = b[i]
  BY <1>2, TwoBefore
<1> HIDE DEF r, s
<1>5. /\ body \in Seq(Octet) /\ Len(body) = 4 + n + k
      /\ \A i \in 1..(2 + n) : body[i] = r[i]
      /\ \A i \in 1..(2 + k) : body[2 + n + i] = s[i]
  <2>1. /\ body \in Seq(Octet) /\ Len(body) = Len(r) + Len(s)
        /\ \A i \in 1..(Len(r) + Len(s)) : body[i] = IF i <= Len(r) THEN r[i] ELSE s[i - Len(r)]
    <3>1. r \in Seq(Octet) /\ s \in Seq(Octet)
      BY <1>3, <1>4
    <3> QED  BY <3>1, ConcatProperties
  <2> HIDE DEF body, n, k
  <2>2. \A i \in 1..(2 + n) : i \in 1..(Len(r) + Len(s)) /\ i <= Len(r)
    BY <1>1, <1>3, <1>4
  <2>3. \A i \in 1..(2 + k) : /\ 2 + n + i \in 1..(Len(r) + Len(s)) /\ ~(2 + n + i <= Len(r))
                              /\ (2 + n + i) - Len(r) = i
    BY <1>1, <1>3, <1>4
  <2> QED  BY <1>1, <1>3, <1>4, <2>1, <2>2, <2>3
<1> HIDE DEF body
<1>6. 4 + n + k \in Octet
  <2> HIDE DEF n, k
  <2> QED  BY <1>1 DEF Octet
<1>7. /\ d \in Seq(Octet) /\ Len(d) = 2 + (4 + n + k) /\ d[1] = 48 /\ d[2] = 4 + n + k
      /\ \A i \in 1..(4 + n + k) : d[2 + i] = body[i]
  BY <1>2, <1>5, <1>6, TwoBefore
<1> HIDE DEF d
<1>8. d[3] = 2 /\ d[4] = n /\ d[5 + n] = 2 /\ d[6 + n] = k
  <2>1. /\ 1 \in 1..(2 + n) /\ 2 \in 1..(2 + n) /\ 1 \in 1..(2 + k) /\ 2 \in 1..(2 + k)
        /\ 1 \in 1..(4 + n + k) /\ 2 \in 1..(4 + n + k) /\ 2 + n + 1 \in 1..(4 + n + k) /\ 2 + n + 2 \in 1..(4 + n + k)
        /\ 3 = 2 + 1 /\ 4 = 2 + 2 /\ 5 + n = 2 + (2 + n + 1) /\ 6 + n = 2 + (2 + n + 2)
    BY <1>1
  <2> HIDE DEF n, k
  <2>2. d[3] = body[1] /\ d[4] = body[2] /\ d[5 + n] = body[2 + n + 1] /\ d[6 + n] = body[2 + n + 2]
    BY <1>7, <2>1
  <2>3. body[1] = r[1] /\ body[2] = r[2] /\ body[2 + n + 1] = s[1] /\ body[2 + n + 2] = s[2]
    BY <1>5, <2>1
  <2> QED  BY <1>3, <1>4, <2>2, <2>3
<1>9. \A i \in 1..n : d[4 + i] = a[i]
  <2> HIDE DEF n, k
  <2> SUFFICES ASSUME NEW i \in 1..n PROVE d[4 + i] = a[i]
    OBVIOUS
  <2>1. 2 + i \in 1..(2 + n) /\ 2 + i \in 1..(4 + n + k) /\ 4 + i = 2 + (2 + i)
    BY <1>1
  <2>2. d[4 + i] = body[2 + i] /\ body[2 + i] = r[2 + i] /\ r[2 + i] = a[i]
    BY <1>3, <1>5, <1>7, <2>1
  <2> QED  BY <2>2
<1>10. \A i \in 1..k : d[6 + n + i] = b[i]
  <2> HIDE DEF n, k
  <2> SUFFICES ASSUME NEW i \in 1..k PROVE d[6 + n + i] = b[i]
    OBVIOUS
  <2>1. 2 + i \in 1..(2 + k) /\ 2 + n + (2 + i) \in 1..(4 + n + k) /\ 6 + n + i = 2 + (2 + n + (2 + i))
    BY <1>1
  <2>2. d[6 + n + i] = body[2 + n + (2 + i)] /\ body[2 + n + (2 + i)] = s[2 + i] /\ s[2 + i] = b[i]
    BY <1>4, <1>5, <1>7, <2>1
  <2> QED  BY <2>2
<1>11. Wire!DerR(d) = a
  <2>1. SubSeq(d, 4 + 1, 4 + n) = a
    <3>1. 4 \in Nat /\ 4 + n <= Len(d)
      BY <1>1, <1>7
    <3> QED  BY <1>7, <1>9, <3>1, PartIs
  <2> QED  BY <1>8, <2>1 DEF Wire!DerR
<1>12. Wire!DerS(d) = b
  <2>1. SubSeq(d, (6 + n) + 1, (6 + n) + k) = b
    <3>1. 6 + n \in Nat /\ (6 + n) + k <= Len(d)
      BY <1>1, <1>7
    <3> QED  BY <1>7, <1>10, <3>1, PartIs
  <2>2. (6 + n) + 1 = 7 + n /\ (6 + n) + k = Len(d)
    BY <1>1, <1>7
  <2> QED  BY <1>8, <2>1, <2>2 DEF Wire!DerS
<1>13. d[5] < 128 /\ d[7 + n] < 128
  <2>1. 1 \in 1..n /\ 1 \in 1..k /\ 4 + 1 = 5 /\ 6 + n + 1 = 7 + n
    BY <1>1
  <2>2. d[5] = a[1] /\ d[7 + n] = b[1]
    BY <1>9, <1>10, <2>1
  <2> QED  BY <2>2
<1>14. Wire!IsDer(d)
  <2>1. /\ Len(d) = 6 + n + k /\ Len(d) \in 8..129 /\ 6 + n < Len(d) /\ d[2] = Len(d) - 2 /\ n > 0 /\ k = Len(d) - (6 + n)
    <3>1. Len(d) = 2 + (4 + n + k) /\ d[2] = 4 + n + k
      BY <1>7
    <3> DEFINE l == Len(d)
               e == d[2]
    <3> HIDE DEF n, k, l, e
    <3>2. l = 2 + (4 + n + k) /\ e = 4 + n + k
      BY <3>1 DEF l, e
    <3>3. l = 6 + n + k /\ l \in 8..129 /\ 6 + n < l /\ e = l - 2 /\ n > 0 /\ k = l - (6 + n)
      BY <1>1, <3>2
    <3> QED  BY <3>3 DEF l, e
  <2> HIDE DEF n, k
  <2> QED  BY <1>7, <1>8, <1>13, <2>1 DEF Wire!IsDer, Octet
<1> QED  BY <1>11, <1>12, <1>14 DEF d, body, r, s

\* What the code finds in DER.
LEMMA DerIsRead ==
  ASSUME NEW d, Wire!IsDer(d)
  PROVE  /\ d[1] = 48 /\ d[2] = Len(d) - 2 /\ d[3] = 2 /\ d[4] < 128
         /\ d[5 + d[4]] = 2 /\ d[6 + d[4]] < 128
         /\ SubSeq(d, 7 + d[4], 6 + d[4] + d[6 + d[4]]) = Wire!DerS(d)
         /\ Wire!DerR(d) \in Seq(Octet) /\ Wire!DerS(d) \in Seq(Octet)
         /\ Wire!Integer(Wire!DerR(d)) = Number(256, Wire!DerR(d))
         /\ Wire!Integer(Wire!DerS(d)) = Number(256, Wire!DerS(d))
<1> DEFINE l == Len(d)
           n == d[4]
           k == d[6 + n]
           r == Wire!DerR(d)
           s == Wire!DerS(d)
<1>1. /\ d \in Seq(Octet) /\ l \in 8..129 /\ 6 + n < l /\ d[1] = 48 /\ d[2] = l - 2 /\ d[3] = 2 /\ n > 0 /\ d[5] < 128
      /\ d[5 + n] = 2 /\ k = l - (6 + n) /\ d[7 + n] < 128
  BY DEF Wire!IsDer, Octet
<1>2. \A i \in 1..l : d[i] \in Octet
  BY <1>1, ElementOfSeq
<1>3. n \in Octet /\ d[5] \in Octet
  <2>1. 4 \in 1..l /\ 5 \in 1..l
    <3> HIDE DEF l
    <3> QED  BY <1>1
  <2> QED  BY <1>2, <2>1
<1> HIDE DEF l
<1>4. n \in 1..255 /\ n < 128 /\ l \in 8..129
  <2> HIDE DEF n
  <2> QED  BY <1>1, <1>3 DEF Octet
<1>5. k \in Nat /\ k < 128 /\ 6 + n + k = l /\ k > 0
  <2> HIDE DEF n, k
  <2> QED  BY <1>1, <1>4
<1> HIDE DEF k
<1>6. r \in Seq(Octet) /\ r[1] = d[5]
  <2>1. r = SubSeq(d, 5, 4 + n)
    BY DEF Wire!DerR
  <2>2. 5 \in Int /\ 4 + n \in Int /\ \A i \in 5..(4 + n) : d[i] \in Octet
    <3> HIDE DEF n
    <3>1. \A i \in 5..(4 + n) : i \in 1..l
      BY <1>1, <1>4
    <3> QED  BY <1>2, <1>4, <3>1
  <2>3. /\ SubSeq(d, 5, 4 + n) \in Seq(Octet)
        /\ \A i \in 1..((4 + n) - 5 + 1) : SubSeq(d, 5, 4 + n)[i] = d[5 + i - 1]
    BY <2>2, SubSeqProperties
  <2>4. 1 \in 1..((4 + n) - 5 + 1) /\ 5 + 1 - 1 = 5
    <3> HIDE DEF n
    <3> QED  BY <1>4
  <2> HIDE DEF r
  <2> QED  BY <2>1, <2>3, <2>4
<1>7. s \in Seq(Octet) /\ s[1] = d[7 + n]
  <2>1. s = SubSeq(d, 7 + n, l)
    BY DEF Wire!DerS, l
  <2>2. 7 + n \in Int /\ l \in Int /\ \A i \in (7 + n)..l : d[i] \in Octet
    <3> HIDE DEF n
    <3>1. \A i \in (7 + n)..l : i \in 1..l
      BY <1>1, <1>4
    <3> QED  BY <1>2, <1>4, <3>1
  <2>3. /\ SubSeq(d, 7 + n, l) \in Seq(Octet)
        /\ \A i \in 1..(l - (7 + n) + 1) : SubSeq(d, 7 + n, l)[i] = d[(7 + n) + i - 1]
    BY <2>2, SubSeqProperties
  <2>4. 1 \in 1..(l - (7 + n) + 1) /\ (7 + n) + 1 - 1 = 7 + n
    <3> HIDE DEF n
    <3> QED  BY <1>4, <1>5
  <2> HIDE DEF s
  <2> QED  BY <2>1, <2>3, <2>4
<1>8. ASSUME NEW b \in Seq(Octet), b[1] \in 0..127 PROVE Wire!Integer(b) = Number(256, b)
  <2>1. Number(256, b) \in Nat
    BY OctetNumbers
  <2>2. ~(b[1] >= 128)
    <3> DEFINE x == b[1]
    <3>1. x \in 0..127
      BY <1>8
    <3> HIDE DEF x
    <3>2. ~(x >= 128)
      BY <3>1
    <3> QED  BY <3>2 DEF x
  <2>3. Wire!Integer(b) = Wire!Number(256, b) - 0
    BY <2>2 DEF Wire!Integer
  <2> QED  BY <2>1, <2>3, WireOperators
<1>9. d[5] \in 0..127 /\ d[7 + n] \in 0..127
  <2>1. 7 + n \in 1..l
    <3> HIDE DEF n
    <3> QED  BY <1>1, <1>4
  <2>2. d[7 + n] \in Octet
    BY <1>2, <2>1
  <2> DEFINE x == d[5]
             y == d[7 + n]
  <2>3. x \in Octet /\ y \in Octet /\ x < 128 /\ y < 128
    BY <1>1, <1>3, <2>2
  <2> HIDE DEF x, y
  <2>4. x \in 0..127 /\ y \in 0..127
    BY <2>3 DEF Octet
  <2> QED  BY <2>4 DEF x, y
<1>10. SubSeq(d, 7 + n, 6 + n + k) = s
  BY <1>5 DEF Wire!DerS, l
<1>11. Wire!Integer(r) = Number(256, r) /\ Wire!Integer(s) = Number(256, s)
  <2> HIDE DEF r, s
  <2>1. r[1] \in 0..127 /\ s[1] \in 0..127
    BY <1>6, <1>7, <1>9
  <2> QED  BY <1>6, <1>7, <1>8, <2>1
<1>12. d[1] = 48 /\ d[2] = Len(d) - 2 /\ d[3] = 2 /\ n < 128 /\ d[5 + n] = 2
  BY <1>1, <1>4 DEF l
<1> HIDE DEF n, r, s
<1> QED  BY <1>5, <1>6, <1>7, <1>10, <1>11, <1>12 DEF k, n, r, s

\* The bytes of an integer in DER, which is not negative.
LEMMA PositiveBytes ==
  ASSUME NEW x, Unsigned(x)
  PROVE  LET p == IF x[1] >= 128 THEN <<0>> \o x ELSE x
         IN p \in Seq(Octet) /\ Len(p) \in 1..61 /\ p[1] < 128 /\ Wire!trimLeadingNullBytes(p) = x
<1> DEFINE n == Len(x)
           y == x[1]
<1>1. x \in Seq(Octet) /\ n \in 1..IntegerBytes /\ IntegerBytes \in 1..60
  BY WireAssumption DEF Unsigned, WireAssumption
<1>2. y \in Octet /\ n \in 1..60
  <2>1. 1 \in 1..n
    <3> HIDE DEF n
    <3> QED  BY <1>1
  <2>2. y \in Octet
    BY <1>1, <2>1, ElementOfSeq
  <2> HIDE DEF n, y
  <2> QED  BY <1>1, <2>2
<1>3. CASE y >= 128
  <2> DEFINE p == <<0>> \o x
  <2>1. Zeros(1) = <<0>>
    BY DEF Zeros
  <2>2. p \in Seq(Octet) /\ Len(p) = 1 + n /\ Wire!trimLeadingNullBytes(p) = x
    <3>1. 1 \in Nat
      OBVIOUS
    <3>2. LET b == Zeros(1) \o x
          IN b \in Seq(Octet) /\ Len(b) = 1 + Len(x) /\ Wire!trimLeadingNullBytes(b) = x
      BY <3>1, TrimOfPadded, Zenon
    <3> QED  BY <2>1, <3>2, Zenon
  <2>3. p[1] = 0
    <3>1. <<0>> \in Seq(Octet) /\ Len(<<0>>) = 1 /\ <<0>>[1] = 0
      BY DEF Octet
    <3> DEFINE h == <<0>>
    <3> HIDE DEF h, n
    <3>2. \A i \in 1..(Len(h) + Len(x)) : (h \o x)[i] = IF i <= Len(h) THEN h[i] ELSE x[i - Len(h)]
      BY <1>1, <3>1, ConcatProperties DEF h
    <3>3. 1 \in 1..(Len(h) + Len(x)) /\ 1 <= Len(h)
      BY <1>2, <3>1 DEF h, n
    <3> QED  BY <3>1, <3>2, <3>3 DEF h
  <2> HIDE DEF p, n
  <2>4. Len(p) \in 1..61 /\ p[1] < 128
    BY <1>2, <2>2, <2>3
  <2> QED  BY <1>3, <2>2, <2>4 DEF p, y
<1>4. CASE ~(y >= 128)
  <2>1. Zeros(0) \o x = x
    <3>1. Zeros(0) = <<>>
      BY DEF Zeros
    <3> QED  BY <1>1, <3>1
  <2>2. Wire!trimLeadingNullBytes(x) = x
    <3>1. 0 \in Nat
      OBVIOUS
    <3>2. Wire!trimLeadingNullBytes(Zeros(0) \o x) = x
      BY <3>1, TrimOfPadded
    <3> QED  BY <2>1, <3>2
  <2> HIDE DEF n, y
  <2>3. y < 128 /\ n \in 1..61
    BY <1>2, <1>4 DEF Octet
  <2> QED  BY <1>1, <1>4, <2>2, <2>3 DEF n, y
<1> QED  BY <1>3, <1>4 DEF y

\* The two integers of a signature as it came in.
FirstR == Wire!trimLeadingNullBytes(Wire!DerR(first.data))

FirstS == Wire!trimLeadingNullBytes(Wire!DerS(first.data))

\* Every form of a signature is that of its two integers.
SignaturesInv ==
  /\ Wire!IsDer(first.data) /\ Unsigned(FirstR) /\ Unsigned(FirstS)
  /\ form \in {"der", "signature", "fixed"}
  /\ form = "der" =>
       /\ Wire!IsDer(data)
       /\ Wire!trimLeadingNullBytes(Wire!DerR(data)) = FirstR
       /\ Wire!trimLeadingNullBytes(Wire!DerS(data)) = FirstS
  /\ form = "signature" => data = [r |-> FirstR, s |-> FirstS]
  /\ form = "fixed" => data = Wire!PadStart(FirstR, IntegerBytes) \o Wire!PadStart(FirstS, IntegerBytes)

\* The two halves of a signature of fixed length.
LEMMA FixedHalves ==
  ASSUME NEW r, NEW s, NEW d, Unsigned(r), Unsigned(s),
         d = Wire!PadStart(r, IntegerBytes) \o Wire!PadStart(s, IntegerBytes)
  PROVE  /\ Wire!trimLeadingNullBytes(SubSeq(d, 1, IntegerBytes)) = r
         /\ Wire!trimLeadingNullBytes(SubSeq(d, IntegerBytes + 1, 2 * IntegerBytes)) = s
         /\ Number(256, SubSeq(d, 1, IntegerBytes)) = Number(256, r)
         /\ Number(256, SubSeq(d, IntegerBytes + 1, Len(d))) = Number(256, s)
<1> DEFINE p == Wire!PadStart(r, IntegerBytes)
           q == Wire!PadStart(s, IntegerBytes)
<1>1. /\ p \in Seq(Octet) /\ Len(p) = IntegerBytes /\ Number(256, p) = Number(256, r)
      /\ Wire!trimLeadingNullBytes(p) = r
  BY PaddedBytes
<1>2. /\ q \in Seq(Octet) /\ Len(q) = IntegerBytes /\ Number(256, q) = Number(256, s)
      /\ Wire!trimLeadingNullBytes(q) = s
  BY PaddedBytes
<1>3. d = p \o q
  OBVIOUS
<1> HIDE DEF p, q
<1>4. /\ Len(d) = Len(p) + Len(q) /\ SubSeq(d, 1, Len(p)) = p /\ SubSeq(d, Len(p) + 1, Len(d)) = q
  <2>1. p \in Seq(Octet) /\ q \in Seq(Octet)
    BY <1>1, <1>2
  <2> QED  BY <1>3, <2>1, PartsOfConcat
<1>5. Len(d) = 2 * IntegerBytes
  BY <1>1, <1>2, <1>4, WireAssumption DEF WireAssumption
<1>6. SubSeq(d, 1, IntegerBytes) = p /\ SubSeq(d, IntegerBytes + 1, Len(d)) = q
  BY <1>1, <1>4
<1> QED  BY <1>1, <1>2, <1>5, <1>6

LEMMA SignaturesStep == SignaturesInv /\ Wire!Next => SignaturesInv'
<1> SUFFICES ASSUME SignaturesInv, Wire!Next
             PROVE  /\ first' = first
                    /\ form' \in {"der", "signature", "fixed"}
                    /\ form' = "der" =>
                         /\ Wire!IsDer(data')
                         /\ Wire!trimLeadingNullBytes(Wire!DerR(data')) = FirstR
                         /\ Wire!trimLeadingNullBytes(Wire!DerS(data')) = FirstS
                    /\ form' = "signature" => data' = [r |-> FirstR, s |-> FirstS]
                    /\ form' = "fixed" => data' = Wire!PadStart(FirstR, IntegerBytes) \o Wire!PadStart(FirstS, IntegerBytes)
  BY DEF SignaturesInv, FirstR, FirstS
<1>1. /\ Unsigned(FirstR) /\ Unsigned(FirstS) /\ form \in {"der", "signature", "fixed"}
      /\ form = "der" =>
           /\ Wire!IsDer(data)
           /\ Wire!trimLeadingNullBytes(Wire!DerR(data)) = FirstR
           /\ Wire!trimLeadingNullBytes(Wire!DerS(data)) = FirstS
      /\ form = "signature" => data = [r |-> FirstR, s |-> FirstS]
      /\ form = "fixed" => data = Wire!PadStart(FirstR, IntegerBytes) \o Wire!PadStart(FirstS, IntegerBytes)
  BY DEF SignaturesInv
<1>2. Len(FirstR) \in 1..IntegerBytes /\ Len(FirstS) \in 1..IntegerBytes
  BY <1>1 DEF Unsigned
<1>3. Wire!Construct(FirstR, FirstS) => first' = first /\ form' = "signature" /\ data' = [r |-> FirstR, s |-> FirstS]
  BY <1>2 DEF Wire!Construct, Wire!Becomes
<1>4. CASE Wire!fromDer
  <2>1. form = "der"
    BY <1>4 DEF Wire!fromDer
  <2>2. /\ data[1] = 48 /\ data[2] = Len(data) - 2 /\ data[3] = 2 /\ data[4] < 128
        /\ data[5 + data[4]] = 2 /\ data[6 + data[4]] < 128
        /\ SubSeq(data, 7 + data[4], 6 + data[4] + data[6 + data[4]]) = Wire!DerS(data)
    BY <1>1, <2>1, DerIsRead
  <2>3. SubSeq(data, 5, 4 + data[4]) = Wire!DerR(data)
    BY DEF Wire!DerR
  <2>4. Wire!Construct(Wire!trimLeadingNullBytes(SubSeq(data, 5, 4 + data[4])),
                       Wire!trimLeadingNullBytes(SubSeq(data, 7 + data[4], 6 + data[4] + data[6 + data[4]])))
    BY <1>4, <2>2, Zenon DEF Wire!fromDer
  <2> QED  BY <1>1, <1>3, <2>1, <2>2, <2>3, <2>4
<1>5. CASE Wire!toDer
  <2> DEFINE positive(bytes) == IF bytes[1] >= 128 THEN <<0>> \o bytes ELSE bytes
             integer(bytes) == <<2, Len(positive(bytes))>> \o positive(bytes)
             body == integer(data.r) \o integer(data.s)
             d == <<48, Len(body)>> \o body
             a == positive(FirstR)
             b == positive(FirstS)
  <2>1. form = "signature" /\ first' = first /\ form' = "der" /\ data' = d
    BY <1>5 DEF Wire!toDer, Wire!Becomes
  <2>2. data.r = FirstR /\ data.s = FirstS
    BY <1>1, <2>1
  <2>3. a \in Seq(Octet) /\ Len(a) \in 1..61 /\ a[1] < 128 /\ Wire!trimLeadingNullBytes(a) = FirstR
    BY <1>1, PositiveBytes
  <2>4. b \in Seq(Octet) /\ Len(b) \in 1..61 /\ b[1] < 128 /\ Wire!trimLeadingNullBytes(b) = FirstS
    BY <1>1, PositiveBytes
  <2>5. body = (<<2, Len(a)>> \o a) \o (<<2, Len(b)>> \o b)
    BY <2>2
  <2> HIDE DEF a, b
  <2> HIDE DEF body
  <2>6. Wire!IsDer(d) /\ Wire!DerR(d) = a /\ Wire!DerS(d) = b
    <3> DEFINE c == (<<2, Len(a)>> \o a) \o (<<2, Len(b)>> \o b)
    <3>1. LET e == <<48, Len(c)>> \o c
          IN Wire!IsDer(e) /\ Wire!DerR(e) = a /\ Wire!DerS(e) = b
      BY <2>3, <2>4, DerLayout
    <3>2. body = c
      BY <2>5
    <3> HIDE DEF c
    <3> QED  BY <3>1, <3>2, Zenon
  <2> HIDE DEF d
  <2> QED  BY <2>1, <2>3, <2>4, <2>6
<1>6. CASE Wire!toFixedLength
  BY <1>1, <1>6 DEF Wire!toFixedLength, Wire!Becomes
<1>7. CASE Wire!fromFixedLength
  <2>1. /\ form = "fixed"
        /\ Wire!Construct(Wire!trimLeadingNullBytes(SubSeq(data, 1, IntegerBytes)),
                          Wire!trimLeadingNullBytes(SubSeq(data, IntegerBytes + 1, 2 * IntegerBytes)))
    BY <1>7 DEF Wire!fromFixedLength
  <2>2. /\ Wire!trimLeadingNullBytes(SubSeq(data, 1, IntegerBytes)) = FirstR
        /\ Wire!trimLeadingNullBytes(SubSeq(data, IntegerBytes + 1, 2 * IntegerBytes)) = FirstS
    BY <1>1, <2>1, FixedHalves
  <2> QED  BY <1>3, <2>1, <2>2
<1>8. ~ (\/ Wire!fromRfc3339WithNanoseconds \/ Wire!toRfc3339WithNanoseconds \/ Wire!toSeconds \/ Wire!fromSeconds
         \/ Wire!encodeTime \/ Wire!hashBlock)
  BY <1>1 DEF Wire!fromRfc3339WithNanoseconds, Wire!toRfc3339WithNanoseconds, Wire!toSeconds, Wire!fromSeconds,
    Wire!encodeTime, Wire!hashBlock
<1> QED  BY <1>4, <1>5, <1>6, <1>7, <1>8 DEF Wire!Next

LEMMA SignaturesAgree ==
  SignaturesInv /\ first.form = "der"
    => form # "failed" /\ Wire!Meaning(form, data) = Wire!Meaning(first.form, first.data)
<1> SUFFICES ASSUME SignaturesInv
             PROVE  form # "failed" /\ Wire!Meaning(form, data) = Wire!Meaning("der", first.data)
  OBVIOUS
<1>1. ASSUME NEW d, Wire!IsDer(d)
      PROVE  Wire!Meaning("der", d) = <<Number(256, Wire!trimLeadingNullBytes(Wire!DerR(d))),
                                        Number(256, Wire!trimLeadingNullBytes(Wire!DerS(d)))>>
  <2>1. /\ Wire!DerR(d) \in Seq(Octet) /\ Wire!DerS(d) \in Seq(Octet)
        /\ Wire!Integer(Wire!DerR(d)) = Number(256, Wire!DerR(d))
        /\ Wire!Integer(Wire!DerS(d)) = Number(256, Wire!DerS(d))
    BY <1>1, DerIsRead
  <2>2. /\ Number(256, Wire!trimLeadingNullBytes(Wire!DerR(d))) = Number(256, Wire!DerR(d))
        /\ Number(256, Wire!trimLeadingNullBytes(Wire!DerS(d))) = Number(256, Wire!DerS(d))
    BY <2>1, TrimmedBytes
  <2> QED  BY <2>1, <2>2, MeaningOfForms
<1>2. /\ Wire!IsDer(first.data) /\ Unsigned(FirstR) /\ Unsigned(FirstS) /\ form \in {"der", "signature", "fixed"}
      /\ form = "der" =>
           /\ Wire!IsDer(data)
           /\ Wire!trimLeadingNullBytes(Wire!DerR(data)) = FirstR
           /\ Wire!trimLeadingNullBytes(Wire!DerS(data)) = FirstS
      /\ form = "signature" => data = [r |-> FirstR, s |-> FirstS]
      /\ form = "fixed" => data = Wire!PadStart(FirstR, IntegerBytes) \o Wire!PadStart(FirstS, IntegerBytes)
  BY DEF SignaturesInv
<1>3. Wire!Meaning("der", first.data) = <<Number(256, FirstR), Number(256, FirstS)>>
  BY <1>1, <1>2 DEF FirstR, FirstS
<1>4. CASE form = "der"
  BY <1>1, <1>2, <1>3, <1>4
<1>5. CASE form = "signature"
  <2>1. data.r = FirstR /\ data.s = FirstS
    BY <1>2, <1>5
  <2>2. Wire!Meaning("signature", data) = <<Number(256, data.r), Number(256, data.s)>>
    BY MeaningOfForms
  <2> QED  BY <1>3, <1>5, <2>1, <2>2
<1>6. CASE form = "fixed"
  <2>1. /\ Number(256, SubSeq(data, 1, IntegerBytes)) = Number(256, FirstR)
        /\ Number(256, SubSeq(data, IntegerBytes + 1, Len(data))) = Number(256, FirstS)
    BY <1>2, <1>6, FixedHalves
  <2>2. Wire!Meaning("fixed", data)
          = <<Number(256, SubSeq(data, 1, IntegerBytes)), Number(256, SubSeq(data, IntegerBytes + 1, Len(data)))>>
    BY MeaningOfForms
  <2> QED  BY <1>3, <1>6, <2>1, <2>2
<1> QED  BY <1>2, <1>4, <1>5, <1>6

\* The tree is split at the largest power of two below the number of fields.
LEMMA SplitPointIs ==
  ASSUME NEW n \in Nat, n > 1
  PROVE  \E p \in Nat : Wire!getSplitPoint(n) = Power(2, p) /\ Power(2, p) < n /\ n <= 2 * Power(2, p)
<1> DEFINE T == {i \in Nat : n <= 2 * Power(2, i)}
<1>1. PICK p \in T : \A i \in T : p <= i
  <2>1. n \in T
    <3> DEFINE x == Power(2, n)
    <3>1. x \in Nat /\ n < x
      BY PowersOfTwo, PowersGrow
    <3> HIDE DEF x
    <3>2. n <= 2 * x
      BY <3>1
    <3> QED  BY <3>2 DEF x
  <2>2. T \in SUBSET Nat
    OBVIOUS
  <2> HIDE DEF T
  <2> QED  BY <2>1, <2>2, LeastElement
<1> DEFINE s == Power(2, p)
<1>2. p \in Nat /\ n <= 2 * s /\ s \in Nat \ {0} /\ Power(2, p + 1) = 2 * s
  BY PowersOfTwo
<1>3. s < n
  <2>1. CASE p = 0
    BY <2>1, PowersOfTwo
  <2>2. CASE p # 0
    <3>1. p - 1 \in Nat /\ (p - 1) + 1 = p /\ ~(p <= p - 1)
      BY <1>2, <2>2
    <3>2. ~(n <= 2 * Power(2, p - 1))
      BY <1>1, <3>1
    <3>3. s = 2 * Power(2, p - 1) /\ Power(2, p - 1) \in Nat
      BY <3>1, PowersOfTwo
    <3> HIDE DEF s
    <3> QED  BY <1>2, <3>2, <3>3
  <2> QED  BY <2>1, <2>2
<1> DEFINE K == {k \in {Wire!Power(2, i) : i \in 0..n} : k <= n}
           g == Wire!Max(K)
<1>4. /\ \A i \in 0..n : Power(2, i) <= n => Power(2, i) \in K
      /\ \A k \in K : \E i \in Nat : k = Power(2, i) /\ k <= n
  BY WireOperators
<1>5. K \in SUBSET Int
  <2> HIDE DEF K, T
  <2>1. ASSUME NEW k \in K PROVE k \in Int
    <3>1. PICK i \in Nat : k = Power(2, i)
      BY <1>4
    <3> QED  BY <3>1, PowersOfTwo
  <2> QED  BY <2>1
<1>6. p + 1 <= n
  <2>1. p < s
    BY <1>2, PowersGrow
  <2> HIDE DEF s
  <2> QED  BY <1>2, <1>3, <2>1
<1> HIDE DEF K, T
<1>7. CASE n = 2 * s
  <2>1. g = n
    <3>1. n \in K
      BY <1>2, <1>4, <1>6, <1>7
    <3>2. \A k \in K : k <= n
      BY <1>4
    <3> QED  BY <1>5, <3>1, <3>2, MaximumIs
  <2>2. (2 * s) \div 2 = s
    <3> HIDE DEF s
    <3> QED  BY <1>2
  <2>3. Wire!getSplitPoint(n) = s
    BY <1>7, <2>1, <2>2 DEF Wire!getSplitPoint, K
  <2> QED  BY <1>2, <1>3, <2>3
<1>8. CASE n # 2 * s
  <2>1. g = s
    <3>1. s \in K
      <4>1. p \in 0..n /\ s <= n
        BY <1>2, <1>3, <1>6
      <4> QED  BY <1>4, <4>1
    <3>2. ASSUME NEW k \in K PROVE k <= s
      <4>1. PICK i \in Nat : k = Power(2, i) /\ k <= n
        BY <1>4
      <4>2. i <= p
        <5> SUFFICES ASSUME p < i PROVE FALSE
          BY <1>2, <4>1
        <5>1. 2 * s <= Power(2, i)
          BY <1>2, PowersGrow
        <5>2. k \in Nat
          BY <4>1, PowersOfTwo
        <5> HIDE DEF s
        <5> QED  BY <1>2, <1>8, <4>1, <5>1, <5>2
      <4> QED  BY <1>2, <4>1, <4>2, PowersGrow
    <3> HIDE DEF s
    <3> QED  BY <1>5, <3>1, <3>2, MaximumIs
  <2>2. Wire!getSplitPoint(n) = s
    BY <1>3, <2>1 DEF Wire!getSplitPoint, K
  <2> QED  BY <1>2, <1>3, <2>2
<1> QED  BY <1>7, <1>8

\* The subtree over k fields, given the smaller ones.
Subtree(f, k) ==
  {<<0, k>>} \cup
    IF k = 1 THEN {}
    ELSE f[Wire!getSplitPoint(k)] \cup Shifted(Wire!getSplitPoint(k), f[k - Wire!getSplitPoint(k)])

\* Both sides of the split have fields.
LEMMA SplitIsInside ==
  ASSUME NEW k \in Nat, k > 1
  PROVE  Wire!getSplitPoint(k) \in 1..(k - 1) /\ k - Wire!getSplitPoint(k) \in 1..(k - 1)
<1>1. PICK p \in Nat : Wire!getSplitPoint(k) = Power(2, p) /\ Power(2, p) < k
  BY SplitPointIs
<1> DEFINE s == Power(2, p)
<1>2. s \in Nat \ {0} /\ s < k
  BY <1>1, PowersOfTwo
<1> HIDE DEF s
<1>3. s \in 1..(k - 1) /\ k - s \in 1..(k - 1)
  BY <1>2
<1> QED  BY <1>1, <1>3 DEF s

\* hashTree is determined by the trees over fewer fields.
LEMMA TreeFollows ==
  ASSUME NEW n \in Nat \ {0}
  PROVE  \E f : /\ \A k \in 1..n : f[k] = Subtree(f, k)
                /\ Wire!hashTree(n) = f[n]
<1> DEFINE Works(f, m) == f = [k \in 1..m |-> Subtree(f, k)]
           P == {m \in Nat : \E f : Works(f, m)}
<1>1. 0 \in P
  <2> DEFINE f == [k \in 1..0 |-> {}]
  <2>1. [k \in 1..0 |-> Subtree(f, k)] = f
    OBVIOUS
  <2> QED  BY <2>1
<1>2. \A m \in P : m + 1 \in P
  <2> SUFFICES ASSUME NEW m \in Nat, NEW f, Works(f, m) PROVE \E g : Works(g, m + 1)
    OBVIOUS
  <2> DEFINE g == [k \in 1..(m + 1) |-> IF k = m + 1 THEN Subtree(f, k) ELSE f[k]]
  <2>1. ASSUME NEW k \in 1..(m + 1) PROVE Subtree(g, k) = Subtree(f, k)
    <3>1. CASE k = 1
      BY <3>1 DEF Subtree
    <3>2. CASE k # 1
      <4> DEFINE s == Wire!getSplitPoint(k)
                 e == k - s
      <4>1. k \in Nat /\ k > 1 /\ k <= m + 1
        BY <3>2
      <4>2. s \in 1..(k - 1) /\ e \in 1..(k - 1)
        BY <4>1, SplitIsInside
      <4> HIDE DEF s, e
      <4>3. s \in 1..(m + 1) /\ s # m + 1 /\ e \in 1..(m + 1) /\ e # m + 1
        BY <4>1, <4>2
      <4>4. g[s] = f[s] /\ g[e] = f[e]
        BY <4>3
      <4> HIDE DEF g
      <4> QED  BY <3>2, <4>4 DEF Subtree, s, e
    <3> QED  BY <3>1, <3>2
  <2>2. ASSUME NEW k \in 1..(m + 1) PROVE g[k] = Subtree(f, k)
    <3>1. CASE k = m + 1
      BY <3>1
    <3>2. CASE k # m + 1
      <4>1. k \in 1..m
        BY <3>2
      <4>2. f[k] = Subtree(f, k)
        BY <4>1, Zenon
      <4> QED  BY <3>2, <4>2
    <3> QED  BY <3>1, <3>2
  <2>3. g = [k \in 1..(m + 1) |-> g[k]]
    OBVIOUS
  <2> HIDE DEF g
  <2>4. Works(g, m + 1)
    BY <2>1, <2>2, <2>3
  <2> QED  BY <2>4
<1>3. P = Nat
  <2> HIDE DEF P
  <2>1. P \subseteq Nat
    BY DEF P
  <2> QED  BY <1>1, <1>2, <2>1, Induction
<1> DEFINE f == CHOOSE f : Works(f, n)
<1>4. Works(f, n)
  BY <1>3
<1>5. Wire!hashTree(n) = f[n]
  BY DEF Wire!hashTree, Subtree, Shifted
<1>6. \A k \in 1..n : f[k] = Subtree(f, k)
  <2> HIDE DEF f
  <2> QED  BY <1>4, Zenon
<1> QED  BY <1>5, <1>6

\* The tree has a node for every block of fields.
LEMMA TreeIsNodes ==
  ASSUME NEW n \in Nat \ {0}
  PROVE  Wire!hashTree(n) = Nodes(n)
<1>1. PICK f : /\ \A k \in 1..n : f[k] = Subtree(f, k)
               /\ Wire!hashTree(n) = f[n]
  BY TreeFollows
<1> DEFINE P == {k \in Nat : k \in 1..n => f[k] = Nodes(k)}
<1>2. ASSUME NEW k \in Nat, \A m \in 0..(k - 1) : m \in P PROVE k \in P
  <2> SUFFICES ASSUME k \in 1..n PROVE f[k] = Nodes(k)
    OBVIOUS
  <2>1. f[k] = Subtree(f, k)
    BY <1>1
  <2>2. CASE k = 1
    BY <2>1, <2>2, NodesOfOne DEF Subtree
  <2>3. CASE k # 1
    <3>1. k > 1
      BY <2>3
    <3>2. PICK p \in Nat : Wire!getSplitPoint(k) = Power(2, p) /\ Power(2, p) < k /\ k <= 2 * Power(2, p)
      BY <3>1, SplitPointIs
    <3> DEFINE s == Power(2, p)
               e == k - s
    <3>3. s \in 1..(k - 1) /\ e \in 1..(k - 1)
      BY <3>1, <3>2, SplitIsInside
    <3>4. Nodes(k) = {<<0, k>>} \cup (Nodes(s) \cup Shifted(s, Nodes(e)))
      BY <3>2, NodesSplit
    <3>5. f[k] = {<<0, k>>} \cup (f[s] \cup Shifted(s, f[e]))
      BY <2>1, <2>3, <3>2 DEF Subtree
    <3> HIDE DEF s, e
    <3>6. f[s] = Nodes(s) /\ f[e] = Nodes(e)
      <4>1. ASSUME NEW i \in 1..(k - 1) PROVE f[i] = Nodes(i)
        <5>1. i \in 0..(k - 1) /\ i \in 1..n
          OBVIOUS
        <5> QED  BY <1>2, <5>1
      <4> QED  BY <3>3, <4>1
    <3> QED  BY <3>4, <3>5, <3>6
  <2> QED  BY <2>2, <2>3
<1>3. Nat \subseteq P
  <2> HIDE DEF P
  <2> QED  BY <1>2, StrongInduction
<1>4. n \in P /\ n \in 1..n
  BY <1>3
<1> QED  BY <1>1, <1>4

\* So say the blocks of RFC 6962.
LEMMA BlocksAreNodes ==
  ASSUME NEW n \in Nat \ {0}
  PROVE  {node \in Wire!Blocks(n) : node[1] < node[2]} = Nodes(n)
<1> DEFINE block(l, k) == <<k * Wire!Power(2, l), Wire!Min({n, (k + 1) * Wire!Power(2, l)})>>
           C == {block(l, k) : l \in 0..n, k \in 0..(n - 1)}
           B == {node \in Wire!Blocks(n) : node[1] < node[2]}
<1>1. ASSUME NEW l \in Nat, NEW k \in Nat
      PROVE  /\ block(l, k)[1] = k * Power(2, l)
             /\ block(l, k)[2] = Lesser(n, k * Power(2, l) + Power(2, l))
  <2> DEFINE q == Power(2, l)
             e == (k + 1) * q
             T == {n, e}
  <2>1. q \in Nat \ {0}
    BY PowersOfTwo
  <2> HIDE DEF q
  <2>2. e = k * q + q /\ e \in Nat
    BY <2>1
  <2> HIDE DEF e
  <2>3. T \in SUBSET Int /\ Lesser(n, e) \in T /\ \A x \in T : Lesser(n, e) <= x
    BY <2>2 DEF Lesser
  <2> HIDE DEF T
  <2>4. Wire!Min(T) = Lesser(n, e)
    <3> DEFINE m == Lesser(n, e)
    <3> HIDE DEF m
    <3> QED  BY <2>3, MinimumIs DEF m
  <2>5. Wire!Power(2, l) = q
    BY WireOperators DEF q
  <2>6. block(l, k) = <<k * q, Wire!Min(T)>>
    BY <2>5 DEF T, e
  <2> QED  BY <2>2, <2>4, <2>6 DEF q
<1> HIDE DEF block
<1>2. Wire!Blocks(n) = C \cap ((0..(n - 1)) \X (1..n))
  BY DEF Wire!Blocks, block
<1>3. ASSUME NEW x \in B PROVE x \in Nodes(n)
  <2>1. x \in C /\ x \in (0..(n - 1)) \X (1..n)
    BY <1>2
  <2>2. PICK l \in 0..n, k \in 0..(n - 1) : x = block(l, k)
    BY <2>1
  <2>3. l \in Nat /\ k \in Nat /\ x \in Nat \X Nat /\ x[1] < n
    BY <2>1
  <2>4. IsNode(n, l, k, x[1], x[2])
    BY <1>1, <2>2, <2>3 DEF IsNode
  <2> QED  BY <2>3, <2>4 DEF Nodes
<1>4. ASSUME NEW x \in Nodes(n) PROVE x \in B
  <2> DEFINE a == x[1]
             b == x[2]
  <2>1. a \in Nat /\ b \in Nat /\ x = <<a, b>>
    BY DEF Nodes
  <2>2. PICK j \in Nat, k \in Nat : IsNode(n, j, k, a, b)
    BY DEF Nodes
  <2>3. PICK l \in 0..n : IsNode(n, l, k, a, b)
    <3>1. CASE j \in 0..n
      BY <2>2, <3>1
    <3>2. CASE ~(j \in 0..n)
      <4> DEFINE q == Power(2, j)
                 s == Power(2, n)
      <4>1. q \in Nat \ {0} /\ s \in Nat \ {0} /\ a = k * q /\ a < n /\ b = Lesser(n, a + q) /\ n < s /\ n < j
        BY <2>2, <3>2, PowersOfTwo, PowersGrow DEF IsNode
      <4>2. s <= q
        BY <4>1, PowersGrow
      <4>3. k = 0
        <5> HIDE DEF q, s, a, b
        <5> QED  BY <4>1, <4>2, Multiples
      <4>4. IsNode(n, n, k, a, b)
        <5>1. a = k * s /\ a < n /\ b = Lesser(n, a + s)
          <6> HIDE DEF q, s, a, b
          <6>1. k * q = 0 /\ k * s = 0
            BY <4>1, <4>3
          <6> QED  BY <4>1, <4>2, <6>1 DEF Lesser
        <5> QED  BY <5>1 DEF IsNode
      <4> QED  BY <4>4
    <3> QED  BY <3>1, <3>2
  <2> DEFINE q == Power(2, l)
  <2>4. q \in Nat \ {0} /\ a = k * q /\ a < n /\ b = Lesser(n, a + q)
    BY <2>3, PowersOfTwo DEF IsNode
  <2>5. l \in Nat
    OBVIOUS
  <2> HIDE DEF a, b
  <2>6. x = block(l, k)
    <3>1. block(l, k)[1] = a /\ block(l, k)[2] = b
      BY <1>1, <2>4, <2>5
    <3>2. block(l, k) = <<block(l, k)[1], block(l, k)[2]>>
      BY DEF block
    <3> QED  BY <2>1, <3>1, <3>2
  <2> HIDE DEF q
  <2>7. k \in 0..(n - 1) /\ a \in 0..(n - 1) /\ b \in 1..n /\ a < b
    <3>1. k <= k * q
      BY <2>4, Multiples
    <3> QED  BY <2>1, <2>4, <3>1 DEF Lesser
  <2>8. x \in C
    BY <2>6, <2>7
  <2>9. x \in Wire!Blocks(n) /\ x[1] < x[2]
    BY <1>2, <2>1, <2>7, <2>8
  <2> QED  BY <2>9
<1> HIDE DEF B
<1> QED  BY <1>3, <1>4 DEF B

\* A header is hashed once.
HeadersInv ==
  /\ first.data \in Nat \ {0} /\ form \in {"header", "tree"}
  /\ form = "header" => data = first.data
  /\ form = "tree" => data = Wire!hashTree(first.data)

LEMMA HeadersStep == HeadersInv /\ Wire!Next => HeadersInv'
<1> SUFFICES ASSUME HeadersInv, Wire!Next PROVE HeadersInv'
  OBVIOUS
<1>1. /\ first.data \in Nat \ {0} /\ form \in {"header", "tree"}
      /\ form = "header" => data = first.data
  BY DEF HeadersInv
<1>2. CASE Wire!hashBlock
  BY <1>1, <1>2 DEF Wire!hashBlock, Wire!Becomes, HeadersInv
<1>3. ~ (\/ Wire!fromRfc3339WithNanoseconds \/ Wire!toRfc3339WithNanoseconds \/ Wire!toSeconds \/ Wire!fromSeconds
         \/ Wire!encodeTime \/ Wire!fromDer \/ Wire!toDer \/ Wire!toFixedLength \/ Wire!fromFixedLength)
  BY <1>1 DEF Wire!fromRfc3339WithNanoseconds, Wire!toRfc3339WithNanoseconds, Wire!toSeconds, Wire!fromSeconds,
    Wire!encodeTime, Wire!fromDer, Wire!toDer, Wire!toFixedLength, Wire!fromFixedLength
<1> QED  BY <1>2, <1>3 DEF Wire!Next

LEMMA HeadersAgree ==
  HeadersInv /\ first.form = "header"
    => form # "failed" /\ Wire!Meaning(form, data) = Wire!Meaning(first.form, first.data)
<1> SUFFICES ASSUME HeadersInv
             PROVE  form # "failed" /\ Wire!Meaning(form, data) = Wire!Meaning("header", first.data)
  OBVIOUS
<1>1. /\ first.data \in Nat \ {0} /\ form \in {"header", "tree"}
      /\ form = "header" => data = first.data
      /\ form = "tree" => data = Wire!hashTree(first.data)
  BY DEF HeadersInv
<1>2. Wire!Meaning("header", first.data) = Wire!hashTree(first.data)
  <2> DEFINE n == first.data
  <2>1. n \in Nat \ {0}
    BY <1>1
  <2> HIDE DEF n
  <2>2. Wire!Meaning("header", n) = {node \in Wire!Blocks(n) : node[1] < node[2]}
    BY MeaningOfForms, Zenon
  <2>3. Wire!hashTree(n) = Nodes(n) /\ {node \in Wire!Blocks(n) : node[1] < node[2]} = Nodes(n)
    BY <2>1, TreeIsNodes, BlocksAreNodes, Zenon
  <2> QED  BY <2>2, <2>3 DEF n
<1>3. CASE form = "header"
  BY <1>1, <1>3
<1>4. CASE form = "tree"
  <2>1. Wire!Meaning("tree", data) = data
    BY MeaningOfForms
  <2> QED  BY <1>1, <1>2, <1>4, <2>1
<1> QED  BY <1>1, <1>3, <1>4

(* What the data of each form are follows from the form in which the value    *)
(* came in; this makes the agreement of the forms inductive.                  *)
WireInv ==
  /\ first.form \in {"rfc3339", "der", "header"}
  /\ first.form = "rfc3339" => TimesInv
  /\ first.form = "der" => SignaturesInv
  /\ first.form = "header" => HeadersInv

LEMMA WireBegins == Wire!Init => WireInv
<1> SUFFICES ASSUME Wire!Init PROVE WireInv
  OBVIOUS
<1>1. /\ \/ first \in {[form |-> "rfc3339", data |-> t] : t \in Times}
         \/ first \in {[form |-> "der", data |-> s] : s \in Signatures}
         \/ first \in {[form |-> "header", data |-> n] : n \in Headers}
      /\ form = first.form /\ data = first.data
  BY DEF Wire!Init
<1>2. CASE first \in {[form |-> "rfc3339", data |-> t] : t \in Times}
  <2>1. PICK t \in Times : first = [form |-> "rfc3339", data |-> t]
    BY <1>2
  <2>2. t \in TimeTexts
    BY WireAssumption DEF WireAssumption, TimeTexts, Digit
  <2>3. first.form = "rfc3339" /\ first.data = t /\ form = "rfc3339" /\ data = t
    BY <1>1, <2>1
  <2>4. TimesInv
    BY <2>2, <2>3 DEF TimesInv, Lossless
  <2> QED  BY <2>3, <2>4 DEF WireInv
<1>3. CASE first \in {[form |-> "der", data |-> s] : s \in Signatures}
  <2>1. PICK d \in Signatures : first = [form |-> "der", data |-> d]
    BY <1>3
  <2>2. first.form = "der" /\ first.data = d /\ form = "der" /\ data = d
    BY <1>1, <2>1
  <2>3. /\ Wire!IsDer(d)
        /\ Len(Wire!trimLeadingNullBytes(Wire!DerR(d))) \in 1..IntegerBytes
        /\ Len(Wire!trimLeadingNullBytes(Wire!DerS(d))) \in 1..IntegerBytes
    BY WireAssumption DEF WireAssumption
  <2>4. ASSUME NEW b \in Seq(Octet), Len(Wire!trimLeadingNullBytes(b)) \in 1..IntegerBytes
        PROVE  Unsigned(Wire!trimLeadingNullBytes(b))
    <3> DEFINE x == Wire!trimLeadingNullBytes(b)
    <3>1. x \in Seq(Octet) /\ (x # <<>> => x[1] # 0) /\ Len(x) \in 1..IntegerBytes
      BY <2>4, TrimmedBytes
    <3> HIDE DEF x
    <3>2. x # <<>>
      BY <3>1
    <3> QED  BY <3>1, <3>2 DEF Unsigned, x
  <2>5. Unsigned(FirstR) /\ Unsigned(FirstS)
    BY <2>2, <2>3, <2>4, DerIsRead DEF FirstR, FirstS
  <2>6. SignaturesInv
    BY <2>2, <2>3, <2>5 DEF SignaturesInv, FirstR, FirstS
  <2> QED  BY <2>2, <2>6 DEF WireInv
<1>4. CASE first \in {[form |-> "header", data |-> n] : n \in Headers}
  <2>1. PICK n \in Headers : first = [form |-> "header", data |-> n]
    BY <1>4
  <2>2. first.form = "header" /\ first.data = n /\ form = "header" /\ data = n
    BY <1>1, <2>1
  <2>3. n \in Nat \ {0}
    BY WireAssumption DEF WireAssumption
  <2> QED  BY <2>2, <2>3 DEF WireInv, HeadersInv
<1> QED  BY <1>1, <1>2, <1>3, <1>4

LEMMA WireStep == WireInv /\ [Wire!Next]_wire => WireInv'
<1> SUFFICES ASSUME WireInv, [Wire!Next]_wire PROVE WireInv'
  OBVIOUS
<1>1. CASE Wire!Next
  <2>1. first' = first
    BY <1>1, Zenon DEF Wire!Next, Wire!fromRfc3339WithNanoseconds, Wire!toRfc3339WithNanoseconds, Wire!toSeconds,
      Wire!fromSeconds, Wire!encodeTime, Wire!hashBlock, Wire!fromDer, Wire!toDer, Wire!toFixedLength,
      Wire!fromFixedLength, Wire!Becomes, Wire!Construct
  <2> QED  BY <1>1, <2>1, TimesStep, SignaturesStep, HeadersStep DEF WireInv
<1>2. CASE UNCHANGED wire
  <2>1. first' = first /\ form' = form /\ data' = data
    BY <1>2 DEF wire
  <2> QED  BY <2>1, Zenon DEF WireInv, TimesInv, SignaturesInv, HeadersInv, FirstR, FirstS
<1> QED  BY <1>1, <1>2

LEMMA WireAgrees == WireInv => Wire!FormsAgree
BY TimesAgree, SignaturesAgree, HeadersAgree DEF WireInv, Wire!FormsAgree

(* Times, signatures and headers mean the same in every form that they are    *)
(* given, however often they change it, and no form is refused: for any times *)
(* in RFC 3339 (but those of which the code keeps less, see Kept), for        *)
(* integers of any number of bytes up to 60, zeros in front or not, and for a *)
(* header of any number of fields.                                            *)
THEOREM FormsMeanTheSame == Wire!Spec => []Wire!FormsAgree
<1>1. WireInv /\ [Wire!Next]_(Wire!vars) => WireInv'
  BY WireStep DEF Wire!vars, wire
<1> QED  BY <1>1, WireBegins, WireAgrees, PTL DEF Wire!Spec

\* The same of the behaviours of all parts, of which the run looks at a few.
THEOREM FormsOfThePart == PartsSpec => []FormsAgree
<1> DEFINE Inv == part = "wire" => WireInv
<1>1. PartsInit => Inv
  BY WireBegins DEF PartsInit
<1>2. Inv /\ [PartsNext]_partsVars => Inv'
  <2> SUFFICES ASSUME Inv, [PartsNext]_partsVars, part' = "wire" PROVE WireInv'
    OBVIOUS
  <2>1. part = "wire" /\ [Wire!Next]_wire
    BY DEF PartsNext, partsVars
  <2> QED  BY <2>1, WireStep
<1>3. Inv => FormsAgree
  BY WireAgrees DEF FormsAgree
<1> QED  BY <1>1, <1>2, <1>3, PTL DEF PartsSpec, partsVars
=============================================================================
