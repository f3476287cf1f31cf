---------------------------- MODULE Faucet_proofs ----------------------------
(* Proofs about Faucet, for any requests, addresses, distributors, faults     *)
(* and restarts.                                                              *)
EXTENDS Faucet, TLAPS

Refusals == {400, 403, 422, 429}

(* The stage of a request, its transaction, its row and its answer agree.     *)
(* AnswersAreTrue is not inductive without the stages before the answer.      *)
StageTrue(r) ==
  /\ stage[r] \in {"idle", "verifying", "checking"} => ~Paid(r)
  /\ ~Paid(r) => executed[r] = "none"
  /\ stage[r] = "saving" => executed[r] = "ok"
  /\ stage[r] \in {"listing", "subscribing", "notifying"} => r \in rows
  /\ r \in rows => executed[r] = "ok"
  /\ status[r] = 200 => r \in rows
  /\ status[r] \in Refusals => ~Paid(r) /\ stage[r] = "done"

StagesTrue == \A r \in Requests : StageTrue(r)

\* The requests that the cooldown applies to.
Regular(r) == ~form[r].studio
Address(r) == form[r].address
PaidNow(r) == Paid(r) /\ Regular(r) /\ paidIn[r] = period[Address(r)]

(* Why two payments in a cooldown time overlapped: an entry lives as long as  *)
(* the period in which it was made, so a request that passes the check later  *)
(* in the period meets it.  One that passed before and is still checking      *)
(* overlapped with the payer.                                                 *)
Entries ==
  \A r \in Requests :
    /\ Paid(r) => paidIn[r] <= period[Address(r)]
    /\ PaidNow(r) => Address(r) \in cooling

Overlaps ==
  \A r, s \in Requests :
    r # s /\ stage[r] = "checking" /\ Address(r) = Address(s) =>
      /\ stage[s] = "checking" => s \in overlapped[r]
      /\ Regular(r) /\ PaidNow(s) => s \in overlapped[r] /\ r \in overlapped[s]

IInv == TypeOK /\ StagesTrue /\ Entries /\ Overlaps /\ CooldownUnlessRaced

LEMMA InitInv == Init => IInv
<1> SUFFICES ASSUME Init PROVE IInv
  OBVIOUS
<1> USE WorkloadsAssumption, NumbersAssumption
    DEF WorkloadsAssumption, NumbersAssumption, Init, Tx!Init
<1>1. TypeOK
  BY DEF TypeOK
<1>2. StagesTrue
  BY DEF StagesTrue, StageTrue, Paid, Refusals
<1>3. Entries /\ Overlaps /\ CooldownUnlessRaced
  BY DEF Entries, Overlaps, CooldownUnlessRaced, PaidNow, Paid
<1> QED  BY <1>1, <1>2, <1>3 DEF IInv

LEMMA NextTypeOK == TypeOK /\ [Next]_vars => TypeOK'
<1> SUFFICES ASSUME TypeOK, [Next]_vars PROVE TypeOK'
  OBVIOUS
<1> USE NumbersAssumption
    DEF NumbersAssumption, TypeOK, web, tables, lists, chain, history, bounds, Goto, Reply, Fault
<1>1. ASSUME NEW r \in Requests, Credit(r) PROVE TypeOK'
  BY <1>1 DEF Credit
<1>2. ASSUME NEW r \in Requests, EmailChecked(r) PROVE TypeOK'
  <2>1. form[r].email \in Emails
    BY DEF Forms
  <2>2. verified' \subseteq Emails
    BY <1>2, <2>1 DEF EmailChecked
  <2>3. CASE stage' = [stage EXCEPT ![r] = "checking"] /\ AskForTokens(r)
    BY <1>2, <2>2, <2>3 DEF EmailChecked, AskForTokens
  <2>4. CASE UNCHANGED history
    BY <1>2, <2>2, <2>4 DEF EmailChecked, AskForTokens, Refuse
  <2> QED  BY <1>2, <2>3, <2>4 DEF EmailChecked, AskForTokens, Refuse
<1>3. ASSUME NEW r \in Requests, TokensChecked(r) PROVE TypeOK'
  <2>1. form[r].address \in Addresses /\ creditCount % Distributors \in 0..(Distributors - 1)
    BY DEF Forms
  <2> QED  BY <1>3, <2>1 DEF TokensChecked, Refuse
<1>4. ASSUME NEW r \in Requests, Sent(r) PROVE TypeOK'
  BY <1>4 DEF Sent, Tx!TellDelivered, Tx!TellRefused, Tx!TellUnknown, Tx!Tell
<1>5. ASSUME NEW r \in Requests, Saved(r) PROVE TypeOK'
  BY <1>5 DEF Saved
<1>6. ASSUME NEW r \in Requests, Listed(r) PROVE TypeOK'
  BY <1>6 DEF Listed, Upsert, UpsertFails
<1>7. ASSUME NEW r \in Requests, Subscribed(r) PROVE TypeOK'
  BY <1>7 DEF Subscribed, Upsert, UpsertFails
<1>8. ASSUME NEW r \in Requests, Notified(r) PROVE TypeOK'
  BY <1>8 DEF Notified
<1>9. ASSUME NEW r \in Requests, ServiceFails(r) PROVE TypeOK'
  BY <1>9 DEF ServiceFails
<1>10. ASSUME NEW r \in Requests, SyncNext(r) PROVE TypeOK'
  BY <1>10 DEF SyncNext, Upsert, UpsertFails
<1>11. ASSUME NEW r \in Requests, Executes(r) PROVE TypeOK'
  BY <1>11 DEF Executes, Tx!Execute
<1>12. ASSUME NEW e \in Emails, VerifyOTP(e) PROVE TypeOK'
  BY <1>12 DEF VerifyOTP
<1>13. ASSUME NEW a \in Addresses, CoolsDown(a) PROVE TypeOK'
  BY <1>13 DEF CoolsDown
<1>14. CASE SyncStart
  BY <1>14 DEF SyncStart
<1>15. CASE Restart
  BY <1>15 DEF Restart
<1>16. CASE UNCHANGED vars
  BY <1>16 DEF vars
<1> QED
  BY <1>1, <1>2, <1>3, <1>4, <1>5, <1>6, <1>7, <1>8, <1>9, <1>10, <1>11, <1>12, <1>13,
     <1>14, <1>15, <1>16 DEF Next, Handle

(* Type correctness, through restarts and overlapping requests: creditCount  *)
(* always names an existing distributor.                                     *)
THEOREM TypeCorrect == Spec => []TypeOK
<1>1. Init => TypeOK
  BY InitInv DEF IInv
<1> QED  BY <1>1, NextTypeOK, PTL DEF Spec

LEMMA NextStagesTrue == TypeOK /\ StagesTrue /\ [Next]_vars => StagesTrue'
<1> SUFFICES ASSUME TypeOK, StagesTrue, [Next]_vars, NEW q \in Requests PROVE StageTrue(q)'
  BY DEF StagesTrue
<1>0. StageTrue(q)
  BY DEF StagesTrue, StageTrue
<1> USE NumbersAssumption DEF NumbersAssumption, TypeOK, StageTrue, Paid, Refusals, tables, lists, chain, history
<1>1. ASSUME NEW r \in Requests, Credit(r) PROVE StageTrue(q)'
  BY <1>0, <1>1 DEF Credit, Goto
<1>2. ASSUME NEW r \in Requests, EmailChecked(r) PROVE StageTrue(q)'
  BY <1>0, <1>2 DEF EmailChecked, AskForTokens, Refuse, Reply, Goto
<1>3. ASSUME NEW r \in Requests, TokensChecked(r) PROVE StageTrue(q)'
  BY <1>0, <1>3 DEF TokensChecked, Refuse, Reply, Goto
<1>4. ASSUME NEW r \in Requests, Sent(r) PROVE StageTrue(q)'
  BY <1>0, <1>4 DEF Sent, Reply, Goto, Tx!TellDelivered, Tx!TellRefused, Tx!TellUnknown, Tx!Tell
<1>5. ASSUME NEW r \in Requests, Saved(r) PROVE StageTrue(q)'
  BY <1>0, <1>5 DEF Saved, Goto
<1>6. ASSUME NEW r \in Requests, Listed(r) PROVE StageTrue(q)'
  BY <1>0, <1>6 DEF Listed, Upsert, UpsertFails, Goto
<1>7. ASSUME NEW r \in Requests, Subscribed(r) PROVE StageTrue(q)'
  BY <1>0, <1>7 DEF Subscribed, Upsert, UpsertFails, Goto
<1>8. ASSUME NEW r \in Requests, Notified(r) PROVE StageTrue(q)'
  BY <1>0, <1>8 DEF Notified, Reply
<1>9. ASSUME NEW r \in Requests, ServiceFails(r) PROVE StageTrue(q)'
  BY <1>0, <1>9 DEF ServiceFails, Reply, Fault
<1>10. ASSUME NEW r \in Requests, SyncNext(r) PROVE StageTrue(q)'
  BY <1>0, <1>10 DEF SyncNext, Upsert, UpsertFails, web
<1>11. ASSUME NEW r \in Requests, Executes(r) PROVE StageTrue(q)'
  BY <1>0, <1>11 DEF Executes, Tx!Execute, web
<1>12. ASSUME NEW e \in Emails, VerifyOTP(e) PROVE StageTrue(q)'
  BY <1>0, <1>12 DEF VerifyOTP, web
<1>13. ASSUME NEW a \in Addresses, CoolsDown(a) PROVE StageTrue(q)'
  BY <1>0, <1>13 DEF CoolsDown
<1>14. CASE SyncStart
  BY <1>0, <1>14 DEF SyncStart, web
<1>15. CASE Restart
  BY <1>0, <1>15 DEF Restart
<1>16. CASE UNCHANGED vars
  BY <1>0, <1>16 DEF vars, web
<1> QED
  BY <1>1, <1>2, <1>3, <1>4, <1>5, <1>6, <1>7, <1>8, <1>9, <1>10, <1>11, <1>12, <1>13, <1>14, <1>15, <1>16 DEF Next, Handle

(* What callers are told is true: "ok" means paid and recorded, a refusal     *)
(* means never paid, and no row exists without a payment.                     *)
THEOREM TrueAnswers == Spec => []AnswersAreTrue
<1>1. Init => TypeOK /\ StagesTrue
  BY InitInv DEF IInv
<1>2. TypeOK /\ StagesTrue /\ [Next]_vars => (TypeOK /\ StagesTrue)'
  BY NextTypeOK, NextStagesTrue
<1>3. StagesTrue => AnswersAreTrue
  BY DEF StagesTrue, StageTrue, AnswersAreTrue, Refusals
<1> QED  BY <1>1, <1>2, <1>3, PTL DEF Spec

LEMMA NextEntries == TypeOK /\ StagesTrue /\ Entries /\ [Next]_vars => Entries'
<1> SUFFICES ASSUME TypeOK, StagesTrue, Entries, [Next]_vars, NEW q \in Requests
             PROVE  /\ Paid(q)' => paidIn'[q] <= period'[Address(q)']
                    /\ PaidNow(q)' => Address(q)' \in cooling'
  BY DEF Entries
<1> DEFINE Entry == /\ Paid(q) => paidIn[q] <= period[Address(q)]
                    /\ PaidNow(q) => Address(q) \in cooling
<1>0. Entry /\ Address(q) \in Addresses /\ paidIn[q] \in Nat /\ period[Address(q)] \in Nat
  BY DEF Entries, TypeOK, Forms, Address
<1> USE DEF TypeOK, PaidNow, Paid, Regular, Address, tables, lists, chain, history, bounds
<1>1. CASE \E r \in Requests : TokensChecked(r)
  <2> PICK r \in Requests : TokensChecked(r)
    BY <1>1
  <2> QED  BY <1>0 DEF TokensChecked, Refuse
<1>2. CASE UNCHANGED <<sender, form, paidIn, period, cooling>>
  BY <1>0, <1>2
<1>3. ASSUME NEW a \in Addresses, CoolsDown(a) PROVE Entry'
  BY <1>0, <1>3 DEF CoolsDown
<1>4. CASE Restart
  BY <1>0, <1>4 DEF Restart
<1>5. ASSUME NEW r \in Requests, Credit(r) \/ (Handle(r) /\ ~TokensChecked(r)) \/ SyncNext(r) \/ Executes(r)
      PROVE  UNCHANGED <<sender, form, paidIn, period, cooling>>
  BY <1>5 DEF Credit, Handle, EmailChecked, AskForTokens, Refuse, Sent, Saved, Listed, Subscribed,
              Notified, ServiceFails, SyncNext, Executes, Fault, web
<1>6. ASSUME (\E e \in Emails : VerifyOTP(e)) \/ SyncStart \/ UNCHANGED vars
      PROVE  UNCHANGED <<sender, form, paidIn, period, cooling>>
  BY <1>6 DEF VerifyOTP, SyncStart, vars, web
<1> QED  BY <1>1, <1>2, <1>3, <1>4, <1>5, <1>6 DEF Next

\* Steps that keep payments and overlaps, and let no request pass the check of
\* the cooldown.
Calm ==
  /\ UNCHANGED <<sender, form, paidIn, period, overlapped>>
  /\ \A r \in Requests : stage'[r] = "checking" => stage[r] = "checking"

\* All other steps, of which the cooldown speaks.
Eventful ==
  \/ \E r \in Requests : EmailChecked(r) /\ Goto(r, "checking") /\ AskForTokens(r)
  \/ \E r \in Requests : TokensChecked(r) /\ Goto(r, "sending")
  \/ \E a \in Addresses : CoolsDown(a)
  \/ Restart

LEMMA CalmOrEventful == TypeOK /\ [Next]_vars => Calm \/ Eventful
<1> SUFFICES ASSUME TypeOK, [Next]_vars PROVE Calm \/ Eventful
  OBVIOUS
<1> USE DEF TypeOK, Calm, tables, lists, chain, history, bounds, Goto, Reply
<1>1. ASSUME NEW r \in Requests, EmailChecked(r) PROVE Calm \/ Eventful
  <2>1. CASE AskForTokens(r)
    BY <1>1, <2>1 DEF AskForTokens, Eventful
  <2>2. CASE ~AskForTokens(r)
    <3>1. (Refuse(r, 403) \/ Refuse(r, 400) \/ Refuse(r, 429)) /\ UNCHANGED <<sender, form>>
      BY <1>1, <2>2 DEF EmailChecked
    <3> QED  BY <3>1 DEF Refuse
  <2> QED  BY <2>1, <2>2
<1>2. ASSUME NEW r \in Requests, TokensChecked(r) PROVE Calm \/ Eventful
  BY <1>2 DEF TokensChecked, Refuse, Eventful
<1>3. ASSUME NEW r \in Requests,
             \/ Credit(r) \/ Sent(r) \/ Saved(r) \/ Listed(r) \/ Subscribed(r) \/ Notified(r)
             \/ ServiceFails(r) \/ SyncNext(r) \/ Executes(r)
      PROVE  Calm
  BY <1>3 DEF Credit, Sent, Saved, Listed, Subscribed, Notified, ServiceFails, SyncNext, Executes,
              Fault, web
<1>4. ASSUME (\E e \in Emails : VerifyOTP(e)) \/ SyncStart \/ UNCHANGED vars PROVE Calm
  BY <1>4 DEF VerifyOTP, SyncStart, vars, web
<1> QED  BY <1>1, <1>2, <1>3, <1>4 DEF Next, Handle, Eventful

\* One pair of requests, r still checking.
OverlapsWith(r, s) ==
  r # s /\ stage[r] = "checking" /\ Address(r) = Address(s) =>
    /\ stage[s] = "checking" => s \in overlapped[r]
    /\ Regular(r) /\ PaidNow(s) => s \in overlapped[r] /\ r \in overlapped[s]

LEMMA NextOverlaps == IInv /\ [Next]_vars => Overlaps'
<1> SUFFICES ASSUME IInv, [Next]_vars, NEW q \in Requests, NEW s \in Requests
             PROVE  OverlapsWith(q, s)'
  BY DEF Overlaps, OverlapsWith
<1>0. /\ TypeOK /\ StagesTrue /\ Entries /\ Overlaps
      /\ OverlapsWith(q, s) /\ OverlapsWith(s, q)
      /\ Address(s) \in Addresses /\ paidIn[s] \in Nat /\ period[Address(s)] \in Nat
  BY DEF IInv, Overlaps, OverlapsWith, TypeOK, Forms, Address
<1> USE DEF TypeOK, OverlapsWith, PaidNow, Paid, Regular, Address, bounds
<1>1. CASE Calm
  BY <1>0, <1>1 DEF Calm
<1>2. ASSUME NEW r \in Requests, EmailChecked(r), Goto(r, "checking"), AskForTokens(r)
      PROVE  OverlapsWith(q, s)'
  <2>1. Regular(r) => ~PaidNow(s) \/ Address(r) # Address(s)
    BY <1>0, <1>2 DEF EmailChecked, Entries, Refuse, Reply, Goto
  <2> QED  BY <1>0, <1>2, <2>1 DEF EmailChecked, AskForTokens, Goto
<1>3. ASSUME NEW r \in Requests, TokensChecked(r), Goto(r, "sending") PROVE OverlapsWith(q, s)'
  BY <1>0, <1>3 DEF TokensChecked, Refuse, Reply, Goto
<1>4. ASSUME NEW a \in Addresses, CoolsDown(a) PROVE OverlapsWith(q, s)'
  BY <1>0, <1>4 DEF CoolsDown, Entries
<1>5. CASE Restart
  BY <1>5 DEF Restart
<1> QED
  BY <1>0, <1>1, <1>2, <1>3, <1>4, <1>5, CalmOrEventful DEF Eventful

LEMMA NextCooldown == IInv /\ [Next]_vars => CooldownUnlessRaced'
<1> SUFFICES ASSUME IInv, [Next]_vars PROVE CooldownUnlessRaced'
  OBVIOUS
<1> USE DEF CooldownUnlessRaced, Paid, IInv, TypeOK
<1>1. CASE Calm
  BY <1>1 DEF Calm
<1>2. ASSUME NEW r \in Requests, EmailChecked(r), AskForTokens(r) PROVE CooldownUnlessRaced'
  BY <1>2 DEF EmailChecked, AskForTokens, bounds
<1>3. ASSUME NEW r \in Requests, TokensChecked(r), Goto(r, "sending") PROVE CooldownUnlessRaced'
  BY <1>3 DEF TokensChecked, Refuse, Reply, Goto, bounds, Overlaps, PaidNow, Regular, Address
<1>4. ASSUME NEW a \in Addresses, CoolsDown(a) PROVE CooldownUnlessRaced'
  BY <1>4 DEF CoolsDown, bounds
<1>5. CASE Restart
  BY <1>5 DEF Restart
<1> QED  BY <1>1, <1>2, <1>3, <1>4, <1>5, CalmOrEventful DEF Eventful

(* The cooldown holds but for requests that overlapped: whoever is paid       *)
(* twice for one address within one cooldown time had two requests await the  *)
(* available tokens together.                                                 *)
THEOREM CooldownHoldsUnlessRaced == Spec => []CooldownUnlessRaced
<1>1. IInv /\ [Next]_vars => IInv'
  BY NextTypeOK, NextStagesTrue, NextEntries, NextOverlaps, NextCooldown DEF IInv
<1>2. IInv => CooldownUnlessRaced
  BY DEF IInv
<1> QED  BY InitInv, <1>1, <1>2, PTL DEF Spec
=============================================================================
