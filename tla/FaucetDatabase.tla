--------------------------- MODULE FaucetDatabase ---------------------------
(* DatabaseService (packages/faucet/src/database/index.ts) on the single pg   *)
(* connection of client.ts.  A call is a sequence of awaited statements; the  *)
(* statements of concurrent calls interleave on the one connection, and so    *)
(* does their transaction control.  The server behaves like PostgreSQL:       *)
(* BEGIN inside a transaction and COMMIT or ROLLBACK outside one only warn,   *)
(* and after a failed statement a transaction accepts nothing but its end,    *)
(* where COMMIT rolls back without an error.                                  *)
EXTENDS FaucetRecords, Naturals, FiniteSets

CONSTANTS
  Workloads,       \* bound: the sets of calls of which one is made in a behaviour
  MaxConcurrent,   \* bound: calls in progress at the same time
  Failures         \* may statements fail?

ASSUME RequestsAssumption ==
  /\ IsFiniteSet(Requests)
  /\ kind \in [Requests -> {"save", "otp", "verify", "auto", "check"}]
  /\ Wrong \notin Requests
  /\ Workloads \subseteq SUBSET Requests
ASSUME ConcurrencyAssumption == MaxConcurrent \in Nat \ {0} /\ Failures \in BOOLEAN

VARIABLES
  txn,     \* transaction state of the connection: idle, active or failed
  base,    \* the tables when the open transaction began
  pc,      \* pc[p]: the statement that call p executes next
  load     \* parameter: the calls made and the number that the web server may overlap

dbVars == <<db, txn, base>>
allVars == <<vars, dbVars, pc, load>>

InProgress == {p \in Requests : pc[p] \notin {"idle", "done"}}

\* What other connections see, and what survives the open transaction.
Committed == IF txn = "idle" THEN db ELSE base

DBInit ==
  /\ Init
  /\ txn = "idle" /\ base = EmptyTables
  /\ pc = [p \in Requests |-> "idle"]
  /\ load \in [calls : Workloads, limit : 1..MaxConcurrent]
-----------------------------------------------------------------------------
Goto(p, label) == pc' = [pc EXCEPT ![p] = label]

\* A statement of call p at label "at" that turns the tables into d.
Runs(p, at, d, next) ==
  /\ pc[p] = at /\ txn # "failed"
  /\ db' = d
  /\ Goto(p, next)
  /\ UNCHANGED <<txn, base, result, presented, stale, load>>

Statements ==
  {"insertRequest", "invalidatePending", "insertCode", "expire", "select",
   "markVerified", "invalidateOthers", "checkVerified", "insertVerified"}

\* Faulty: the error is thrown without ROLLBACK.
StatementFailsNoRollback(p) ==
  /\ pc[p] \in Statements
  /\ Failures \/ txn = "failed"
  /\ txn' = IF txn = "idle" THEN "idle" ELSE "failed"
  /\ Goto(p, "done")
  /\ UNCHANGED <<db, base, result, presented, stale, load>>

(* A statement throws: the server is in trouble or the transaction has        *)
(* already failed.  The catch block goes on to ROLLBACK.                      *)
StatementFails(p) ==
  /\ pc[p] \in Statements
  /\ Failures \/ txn = "failed"
  /\ txn' = IF txn = "idle" THEN "idle" ELSE "failed"
  /\ Goto(p, "rollback")
  /\ UNCHANGED <<db, base, result, presented, stale, load>>

FirstStatement ==
  [save |-> "insertRequest", otp |-> "invalidatePending", verify |-> "expire",
   auto |-> "checkVerified"]

(* BEGIN is outside the try block: in a failed transaction it throws and the  *)
(* call ends without ROLLBACK.                                                *)
Begin(p) ==
  /\ pc[p] = "idle" /\ kind[p] # "check"
  /\ p \in load.calls /\ Cardinality(InProgress) < load.limit
  /\ \/ /\ txn # "failed"
        /\ txn' = "active"
        /\ base' = IF txn = "idle" THEN db ELSE base
        /\ Goto(p, FirstStatement[kind[p]])
        /\ UNCHANGED result
     \/ /\ txn = "failed"
        /\ Goto(p, "done")
        /\ result' = [result EXCEPT ![p] = "error"]
        /\ UNCHANGED <<txn, base>>
  /\ IF kind[p] = "verify"
     THEN \E c \in Codes \cup {Wrong} : presented' = [presented EXCEPT ![p] = c]
     ELSE UNCHANGED presented
  /\ UNCHANGED <<db, stale, load>>

Finish(p, r) == Goto(p, "done") /\ result' = [result EXCEPT ![p] = r]

EndTransaction == txn' = "idle" /\ base' = EmptyTables

\* COMMIT; of a failed transaction, it rolls back and reports no error.
Commit(p) ==
  /\ pc[p] \in {"commitOk", "commitNo"}
  /\ db' = IF txn = "failed" THEN base ELSE db
  /\ EndTransaction
  /\ Finish(p, IF pc[p] = "commitOk" THEN "ok" ELSE "no")
  /\ UNCHANGED <<presented, stale, load>>

\* Faulty: the error is swallowed.
RollbackSwallows(p) ==
  /\ pc[p] = "rollback"
  /\ db' = Committed
  /\ EndTransaction
  /\ Finish(p, "ok")
  /\ UNCHANGED <<presented, stale, load>>

Rollback(p) ==
  /\ pc[p] = "rollback"
  /\ db' = Committed
  /\ EndTransaction
  /\ Finish(p, "error")
  /\ UNCHANGED <<presented, stale, load>>
-----------------------------------------------------------------------------
SaveRequest(p) ==
  Runs(p, "insertRequest", [db EXCEPT !.saved = @ \cup {p}], "commitOk")

\* Faulty: earlier codes stay open.
CreateEmailVerificationKeeps(p) ==
  \/ Runs(p, "invalidatePending", db, "insertCode")
  \/ Runs(p, "insertCode", Mark(db, {p}, "pending"), "commitOk")

CreateEmailVerification(p) ==
  \/ Runs(p, "invalidatePending", Mark(db, PendingFor(db, email[p]), "invalidated"), "insertCode")
  \/ Runs(p, "insertCode", Mark(db, {p}, "pending"), "commitOk")

\* Faulty: returns without COMMIT when no code matches.
VerifyOTPNoCommit(p) ==
  LET pending == PendingFor(db, email[p]) IN
  \/ Runs(p, "expire", Mark(db, pending \cap stale, "expired"), "select")
  \/ Runs(p, "select", db, IF presented[p] \in pending THEN "markVerified" ELSE "done")
  \/ Runs(p, "markVerified", Mark(db, {presented[p]} \cap pending, "verified"), "invalidateOthers")
  \/ Runs(p, "invalidateOthers", Mark(db, pending, "invalidated"), "commitOk")

\* Faulty: verifies every open code of the address.
VerifyOTPAny(p) ==
  LET pending == PendingFor(db, email[p]) IN
  \/ Runs(p, "expire", Mark(db, pending \cap stale, "expired"), "select")
  \/ Runs(p, "select", db, IF pending # {} THEN "markVerified" ELSE "commitNo")
  \/ Runs(p, "markVerified", Mark(db, pending, "verified"), "invalidateOthers")
  \/ Runs(p, "invalidateOthers", db, "commitOk")

(* The code matched by the SELECT is the presented one: codes differ, and a   *)
(* row is found by its hash.  The UPDATE of the match goes by its id alone    *)
(* and changes nothing if the row has meanwhile been rolled back.             *)
VerifyOTP(p) ==
  LET c == presented[p]
      pending == PendingFor(db, email[p])
      Existing == {d \in Codes : db.codes[d] # "absent"}
  IN \/ Runs(p, "expire", Mark(db, pending \cap stale, "expired"), "select")
     \/ Runs(p, "select", db, IF c \in pending THEN "markVerified" ELSE "commitNo")
     \/ Runs(p, "markVerified", Mark(db, {c} \cap Existing, "verified"), "invalidateOthers")
     \/ Runs(p, "invalidateOthers", Mark(db, pending, "invalidated"), "commitOk")

\* Faulty: stores the wrong column.
AutoVerifyEmailColumn(p) ==
  \/ Runs(p, "checkVerified", db, "insertVerified")
  \/ Runs(p, "insertVerified", [db EXCEPT !.auto = @ \cup {p}], "commitOk")

AutoVerifyEmail(p) ==
  \/ Runs(p, "checkVerified", db,
          IF IsVerified(db, email[p]) THEN "commitOk" ELSE "insertVerified")
  \/ Runs(p, "insertVerified", [db EXCEPT !.auto = @ \cup {email[p]}], "commitOk")

\* isEmailVerified called by /credit: one SELECT outside any transaction of its own
IsEmailVerified(p) ==
  /\ pc[p] = "idle" /\ kind[p] = "check"
  /\ p \in load.calls /\ Cardinality(InProgress) < load.limit
  /\ \/ /\ txn # "failed"
        /\ Finish(p, IF IsVerified(db, email[p]) THEN "ok" ELSE "no")
        /\ UNCHANGED txn
     \/ /\ Failures \/ txn = "failed"
        /\ txn' = IF txn = "idle" THEN "idle" ELSE "failed"
        /\ Finish(p, "error")
  /\ UNCHANGED <<db, base, presented, stale, load>>

CodeExpires(c) ==
  /\ db.codes[c] # "absent" /\ c \notin stale
  /\ stale' = stale \cup {c}
  /\ UNCHANGED <<dbVars, pc, result, presented, load>>
-----------------------------------------------------------------------------
Call(p) ==
  \/ Begin(p) \/ SaveRequest(p) \/ CreateEmailVerification(p) \/ VerifyOTP(p)
  \/ AutoVerifyEmail(p) \/ IsEmailVerified(p)
  \/ StatementFails(p) \/ Commit(p) \/ Rollback(p)

DBNext == (\E p \in Requests : Call(p)) \/ (\E c \in Codes : CodeExpires(c))

DBSpec == DBInit /\ [][DBNext]_allVars

\* The connection keeps answering the statements of the calls that have begun.
FairDBSpec == DBSpec /\ WF_allVars(\E p \in InProgress : Call(p))
-----------------------------------------------------------------------------
(* Type invariant.                                                           *)
TypeOK ==
  /\ db \in Tables /\ base \in Tables
  /\ result \in [Requests -> {"none", "ok", "no", "error"}]
  /\ presented \in [Requests -> Codes \cup {Wrong}]
  /\ stale \subseteq Codes
  /\ txn \in {"idle", "active", "failed"}
  /\ load \in [calls : Workloads, limit : 1..MaxConcurrent]
  /\ pc \in [Requests -> Statements \cup {"idle", "done", "commitOk", "commitNo", "rollback"}]

(* As long as the web server serves one call at a time, every call is an      *)
(* atomic transaction: it does all it should, or throws and does nothing.     *)
Records == INSTANCE FaucetRecords WITH db <- Committed
AtomicCalls == Records!Init /\ [][load.limit = 1 => Records!Next]_(Records!vars)

(* However calls interleave and fail, the connection is inside a transaction  *)
(* only while some call that opened or joined it has still to end it.        *)
NoDanglingTransaction == txn # "idle" => InProgress # {}

(* A failed transaction, which makes every call fail, ends.                  *)
FailedTransactionEnds == (txn = "failed") ~> (txn # "failed")

(* Even when the statements of several calls share a transaction, a code is   *)
(* verified only if a call presented this very code for the address it was    *)
(* issued to, and never if the caller of createEmailVerification was told     *)
(* that it failed (the code was not sent then).                               *)
VerifiedByItsCode ==
  \A c \in Codes : db.codes[c] = "verified" =>
    /\ result[c] # "error"
    /\ \E p \in Of("verify") : presented[p] = c /\ email[p] = email[c]

(* "Save request info into database" (faucet.ts:137): a credit whose          *)
(* saveRequest returned an id is recorded.                                    *)
SavedIsRecorded ==
  \A p \in Of("save") : result[p] = "ok" => p \in Committed.saved
=============================================================================
