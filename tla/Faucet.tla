------------------------------- MODULE Faucet -------------------------------
(* The faucet (packages/faucet/src): the /credit handler of webserver.ts,    *)
(* Faucet.credit, and the nightly job of jobs/scheduler.ts.  An action is the *)
(* code between two awaits.  Sending tokens is what TxReports promises (the  *)
(* clients of TxClient implement it); a call of the database takes effect as *)
(* a whole or not at all, as in FaucetRecords.                               *)
EXTENDS Naturals, FiniteSets

CONSTANTS
  Requests,       \* the requests to /credit; a bound on their number for TLC
  Addresses, Emails,
  Distributors,   \* number of distributor accounts
  Workloads,      \* bound: the forms filled in by the requests of a behaviour
  MaxFaults,      \* bound: failing calls of other services
  MaxRestarts     \* bound: restarts of the faucet

Forms == [ address : Addresses, valid : BOOLEAN,   \* is it an address of this chain?
           email : Emails,
           studio : BOOLEAN,                       \* company is "Requested via cheqd Studio"
           optin : BOOLEAN ]                       \* marketing_optin

ASSUME WorkloadsAssumption == Workloads \subseteq [Requests -> Forms]
ASSUME NumbersAssumption == Distributors \in Nat \ {0} /\ MaxFaults \in Nat /\ MaxRestarts \in Nat

VARIABLES
  form,        \* parameter: what each request asks for
  stage,       \* what each request awaits
  status,      \* the HTTP status it was answered with; 0 before
  cooling,     \* addresses with an addressCounter entry younger than the cooldown time
  creditCount, \* Faucet.creditCount
  sender,      \* index of the distributor that pays a request; Distributors before
  verified,    \* email addresses that the database has a verification for
  rows,        \* requests with a row in the table
  synced,      \* rows with mailchimp_synced
  product, newsletter,   \* requests whose email address is in these audiences
  syncing,     \* rows that the nightly job has selected and not yet handled
  executed, report,      \* the transactions: variables of TxReports
  \* history
  period,      \* number of cooldown times that have passed for each address
  paidIn,      \* the period in which a request was let through
  overlapped,  \* requests for one address that awaited the available tokens together
  skipped,     \* rows flagged as synced whose newsletter entry failed
  faults, restarts

web == <<stage, status, cooling, creditCount, sender>>
tables == <<verified, rows, synced>>
lists == <<product, newsletter, syncing, skipped>>
chain == <<executed, report>>
history == <<period, paidIn, overlapped>>
bounds == <<form, faults, restarts>>
vars == <<web, tables, lists, chain, history, bounds>>

Tx == INSTANCE TxReports WITH Jobs <- Requests

Init ==
  /\ form \in Workloads
  /\ stage = [r \in Requests |-> "idle"]
  /\ status = [r \in Requests |-> 0]
  /\ cooling = {} /\ creditCount = 0
  /\ sender = [r \in Requests |-> Distributors]
  /\ verified = {} /\ rows = {} /\ synced = {}
  /\ product = {} /\ newsletter = {} /\ syncing = {} /\ skipped = {}
  /\ Tx!Init
  /\ period = [a \in Addresses |-> 0]
  /\ paidIn = [r \in Requests |-> 0]
  /\ overlapped = [r \in Requests |-> {}]
  /\ faults = 0 /\ restarts = 0

Goto(r, s) == stage' = [stage EXCEPT ![r] = s] /\ UNCHANGED status
Reply(r, code) == stage' = [stage EXCEPT ![r] = "done"] /\ status' = [status EXCEPT ![r] = code]

Fault == faults < MaxFaults /\ faults' = faults + 1 /\ UNCHANGED <<form, restarts>>
-----------------------------------------------------------------------------
(* The handler of /credit, from the API key and the parsed body on.          *)
Credit(r) ==
  /\ stage[r] = "idle"
  /\ Goto(r, "verifying")
  /\ UNCHANGED <<cooling, creditCount, sender, tables, lists, chain, history, bounds>>

\* The database has answered; the tokens of the holder are asked for next.
AskForTokens(r) ==
  LET a == form[r].address
      others == {s \in Requests : stage[s] = "checking" /\ form[s].address = a}
  IN /\ Goto(r, "checking")
     /\ overlapped' = [s \in Requests |-> IF s = r THEN overlapped[r] \cup others
                                          ELSE IF s \in others THEN overlapped[s] \cup {r}
                                          ELSE overlapped[s]]
     /\ UNCHANGED <<period, paidIn>>

Refuse(r, code) == Reply(r, code) /\ UNCHANGED history

\* autoVerifyEmail or isEmailVerified has answered; then the address and,
\* unless the request comes from the studio, the cooldown are checked.
EmailChecked(r) ==
  LET f == form[r] IN
  /\ stage[r] = "verifying"
  /\ verified' = IF f.studio THEN verified \cup {f.email} ELSE verified
  /\ \/ ~f.studio /\ f.email \notin verified /\ Refuse(r, 403)
     \/ /\ f.studio \/ f.email \in verified
        /\ \/ ~f.valid /\ Refuse(r, 400)
           \/ f.valid /\ ~f.studio /\ f.address \in cooling /\ Refuse(r, 429)
           \/ f.valid /\ (f.studio \/ f.address \notin cooling) /\ AskForTokens(r)
  /\ UNCHANGED <<cooling, creditCount, sender, rows, synced, lists, chain, bounds>>

\* Faulty: the entry is made when the credit is done.
TokensCheckedLate(r) ==
  /\ stage[r] = "checking"
  /\ \/ Refuse(r, 422) /\ UNCHANGED <<cooling, creditCount, sender>>
     \/ /\ Goto(r, "sending")
        /\ sender' = [sender EXCEPT ![r] = creditCount % Distributors]
        /\ creditCount' = creditCount + 1
        /\ paidIn' = [paidIn EXCEPT ![r] = period[form[r].address]]
        /\ UNCHANGED <<cooling, period, overlapped>>
  /\ UNCHANGED <<tables, lists, chain, bounds>>

\* availableTokens() has answered: the denom is there or not.  credit() takes
\* the next distributor and sends.
TokensChecked(r) ==
  /\ stage[r] = "checking"
  /\ \/ Refuse(r, 422) /\ UNCHANGED <<cooling, creditCount, sender>>
     \/ /\ Goto(r, "sending")
        /\ cooling' = IF form[r].studio THEN cooling ELSE cooling \cup {form[r].address}
        /\ sender' = [sender EXCEPT ![r] = creditCount % Distributors]
        /\ creditCount' = creditCount + 1
        /\ paidIn' = [paidIn EXCEPT ![r] = period[form[r].address]]
        /\ UNCHANGED <<period, overlapped>>
  /\ UNCHANGED <<tables, lists, chain, bounds>>

\* Faulty: a transaction that failed counts as sent.
SentAnyhow(r) ==
  /\ stage[r] = "sending"
  /\ \/ Tx!TellDelivered(r) /\ Goto(r, "saving")
     \/ (Tx!TellRefused(r) \/ Tx!TellUnknown(r)) /\ Reply(r, 500)
  /\ UNCHANGED <<cooling, creditCount, sender, tables, lists, history, bounds>>

\* Faulty: waits for a block without a timeout.
SentWhenIncluded(r) ==
  /\ stage[r] = "sending"
  /\ Tx!TellDelivered(r)
  /\ \/ report'[r] = "ok" /\ Goto(r, "saving")
     \/ report'[r] = "failed" /\ Reply(r, 500)
  /\ UNCHANGED <<cooling, creditCount, sender, tables, lists, history, bounds>>

\* sendTokens has answered; assertIsDeliverTxSuccess throws for a failed one.
Sent(r) ==
  /\ stage[r] = "sending"
  /\ \/ /\ Tx!TellDelivered(r)
        /\ \/ report'[r] = "ok" /\ Goto(r, "saving")
           \/ report'[r] = "failed" /\ Reply(r, 500)
     \/ (Tx!TellRefused(r) \/ Tx!TellUnknown(r)) /\ Reply(r, 500)
  /\ UNCHANGED <<cooling, creditCount, sender, tables, lists, history, bounds>>

Saved(r) ==
  /\ stage[r] = "saving"
  /\ rows' = rows \cup {r}
  /\ Goto(r, IF form[r].studio THEN "notifying" ELSE "listing")
  /\ UNCHANGED <<cooling, creditCount, sender, verified, synced, lists, chain, history, bounds>>

\* upsertSubscriber for one audience: the member is set, then the row flagged.
Upsert(r, audience, new) == new = audience \cup {r} /\ synced' = synced \cup {r}

\* What a failing upsert leaves behind: nothing, or a member without the flag.
UpsertFails(r, audience, new) == new \in {audience, audience \cup {r}} /\ UNCHANGED synced

\* The product audience comes first, then the newsletter for who opted in.
Listed(r) ==
  /\ stage[r] = "listing"
  /\ \/ /\ Upsert(r, product, product')
        /\ Goto(r, IF form[r].optin THEN "subscribing" ELSE "notifying")
        /\ UNCHANGED bounds
     \/ UpsertFails(r, product, product') /\ Goto(r, "notifying") /\ Fault
  /\ UNCHANGED <<cooling, creditCount, sender, verified, rows, newsletter, syncing, skipped, chain, history>>

Subscribed(r) ==
  /\ stage[r] = "subscribing"
  /\ \/ Upsert(r, newsletter, newsletter') /\ UNCHANGED <<skipped, bounds>>
     \/ UpsertFails(r, newsletter, newsletter') /\ skipped' = skipped \cup {r} /\ Fault
  /\ Goto(r, "notifying")
  /\ UNCHANGED <<cooling, creditCount, sender, verified, rows, product, syncing, chain, history>>

\* The webhook may fail or not; the user is told "ok".
Notified(r) ==
  /\ stage[r] = "notifying"
  /\ Reply(r, 200)
  /\ UNCHANGED <<cooling, creditCount, sender, tables, lists, chain, history, bounds>>

\* The database or the query of the tokens fails: the request is answered with 500.
ServiceFails(r) ==
  /\ stage[r] \in {"verifying", "checking", "saving"}
  /\ Reply(r, 500) /\ Fault
  /\ UNCHANGED <<cooling, creditCount, sender, tables, lists, chain, history>>
-----------------------------------------------------------------------------
(* The nightly job: the rows are selected once, then handled one by one.     *)

\* Faulty: the rows are flagged when they are selected.
SyncStartFlags ==
  /\ syncing = {}
  /\ syncing' = {r \in rows : form[r].optin /\ r \notin synced}
  /\ synced' = synced \cup syncing'
  /\ UNCHANGED <<web, verified, rows, product, newsletter, skipped, chain, history, bounds>>

SyncStart ==
  /\ syncing = {}
  /\ syncing' = {r \in rows : form[r].optin /\ r \notin synced}
  /\ UNCHANGED <<web, tables, product, newsletter, skipped, chain, history, bounds>>

SyncNext(r) ==
  /\ r \in syncing
  /\ syncing' = syncing \ {r}
  /\ \/ Upsert(r, newsletter, newsletter') /\ UNCHANGED bounds
     \/ UpsertFails(r, newsletter, newsletter') /\ Fault
  /\ UNCHANGED <<web, verified, rows, product, skipped, chain, history>>

\* The process ends and starts again: requests in progress get no answer, and
\* the addressCounter and creditCount start afresh.
Restart ==
  /\ restarts < MaxRestarts /\ restarts' = restarts + 1
  /\ stage' = [r \in Requests |-> IF stage[r] \in {"idle", "done"} THEN stage[r] ELSE "dropped"]
  /\ skipped' = skipped \cup {r \in Requests : stage[r] = "subscribing"}
  /\ cooling' = {} /\ creditCount' = 0 /\ syncing' = {}
  /\ period' = [a \in Addresses |-> period[a] + 1]
  /\ UNCHANGED <<status, sender, tables, product, newsletter, chain, paidIn, overlapped, form, faults>>
-----------------------------------------------------------------------------
(* The world.                                                                *)

\* A user enters the code that was sent to the address.
VerifyOTP(e) ==
  /\ e \notin verified
  /\ verified' = verified \cup {e}
  /\ UNCHANGED <<web, rows, synced, lists, chain, history, bounds>>

\* The cooldown time passes.
CoolsDown(a) ==
  /\ a \in cooling
  /\ cooling' = cooling \ {a}
  /\ period' = [period EXCEPT ![a] = @ + 1]
  /\ UNCHANGED <<stage, status, creditCount, sender, tables, lists, chain, paidIn, overlapped, bounds>>

\* A transaction that was sent is executed, also after a restart.
Executes(r) ==
  /\ sender[r] # Distributors
  /\ Tx!Execute(r)
  /\ UNCHANGED <<web, tables, lists, history, bounds>>

Handle(r) ==
  \/ EmailChecked(r) \/ TokensChecked(r) \/ Sent(r) \/ Saved(r)
  \/ Listed(r) \/ Subscribed(r) \/ Notified(r) \/ ServiceFails(r)

Next ==
  \/ \E r \in Requests : Credit(r) \/ Handle(r) \/ SyncNext(r) \/ Executes(r)
  \/ \E e \in Emails : VerifyOTP(e)
  \/ \E a \in Addresses : CoolsDown(a)
  \/ SyncStart \/ Restart

Spec == Init /\ [][Next]_vars

(* Services answer or fail, and the job runs every night.                    *)
FairSpec ==
  /\ Spec
  /\ \A r \in Requests : WF_vars(Handle(r)) /\ WF_vars(SyncNext(r))
  /\ WF_vars(SyncStart)
-----------------------------------------------------------------------------
(* Type invariant.                                                           *)
TypeOK ==
  /\ form \in [Requests -> Forms]
  /\ stage \in [Requests -> {"idle", "verifying", "checking", "sending", "saving", "listing",
                             "subscribing", "notifying", "done", "dropped"}]
  /\ status \in [Requests -> {0, 200, 400, 403, 422, 429, 500}]
  /\ cooling \subseteq Addresses /\ creditCount \in Nat
  /\ sender \in [Requests -> 0..Distributors]
  /\ verified \subseteq Emails
  /\ {rows, synced, product, newsletter, syncing, skipped} \subseteq SUBSET Requests
  /\ executed \in [Requests -> {"none", "ok", "failed"}]
  /\ report \in [Requests -> {"none", "ok", "failed", "refused", "unknown"}]
  /\ period \in [Addresses -> Nat] /\ paidIn \in [Requests -> Nat]
  /\ overlapped \in [Requests -> SUBSET Requests]
  /\ faults \in Nat /\ restarts \in Nat

(* What a caller is told agrees with the chain and the table, through late   *)
(* inclusions, failing services and restarts: "ok" means paid and recorded,  *)
(* a refusal (4xx) means never paid, and no row exists without a payment.    *)
AnswersAreTrue ==
  \A r \in Requests :
    /\ status[r] = 200 => executed[r] = "ok" /\ r \in rows
    /\ status[r] \in {400, 403, 422, 429} => executed[r] = "none"
    /\ r \in rows => executed[r] = "ok"

Paid(r) == sender[r] # Distributors

(* Two requests for one address are paid within one cooldown time and one    *)
(* life of the process only if they overlapped: both had passed the check of *)
(* the cooldown and awaited the available tokens when the first of them set  *)
(* the entry.  Requests from the studio are exempt.                          *)
CooldownUnlessRaced ==
  \A r, s \in Requests :
    ( /\ r # s /\ Paid(r) /\ Paid(s)
      /\ form[r].address = form[s].address /\ ~form[r].studio /\ ~form[s].studio
      /\ paidIn[r] = paidIn[s] )
    => s \in overlapped[r]

(* Who is in the table and opted in gets on the newsletter, at once or with   *)
(* a nightly job, through failures and restarts; except for a row that the   *)
(* product audience had flagged as synced when the newsletter failed.        *)
OptedInIsListed ==
  \A r \in Requests : (r \in rows /\ form[r].optin) ~> (r \in newsletter \/ r \in skipped)

(* Every request is answered, unless the process was restarted meanwhile.    *)
EveryRequestAnswered ==
  \A r \in Requests : stage[r] = "verifying" ~> stage[r] \in {"done", "dropped"}
=============================================================================
