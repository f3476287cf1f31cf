------------------------ MODULE FaucetDatabase_proofs ------------------------
(* Proofs about FaucetDatabase, for any calls, addresses, numbers of          *)
(* concurrent calls and failures.                                             *)
EXTENDS FaucetDatabase, FiniteSetTheorems, TLAPS

\* The kind of call that executes a statement.
KindOf ==
  [ insertRequest |-> "save", invalidatePending |-> "otp", insertCode |-> "otp",
    expire |-> "verify", select |-> "verify", markVerified |-> "verify",
    invalidateOthers |-> "verify", checkVerified |-> "auto", insertVerified |-> "auto" ]

Labels ==
  \A p \in Requests :
    /\ pc[p] \in Statements => kind[p] = KindOf[pc[p]]
    /\ pc[p] # "done" => result[p] = "none"
    /\ pc[p] = "markVerified" => presented[p] \in Codes /\ email[presented[p]] = email[p]

(* A row exists only if its INSERT was the last statement of its call before  *)
(* COMMIT, which reports no error whatever becomes of the transaction; and a  *)
(* verified row was presented.  Both hold of the tables and of what a         *)
(* rollback restores.                                                         *)
Earned(d, c) ==
  /\ d.codes[c] # "absent" => pc[c] = "commitOk" \/ result[c] = "ok"
  /\ d.codes[c] = "verified" => \E p \in Of("verify") : presented[p] = c /\ email[p] = email[c]
                                                        /\ pc[p] # "idle"

AllEarned == \A c \in Codes : Earned(db, c) /\ Earned(base, c)

IInv == TypeOK /\ Labels /\ AllEarned /\ NoDanglingTransaction

\* What Mark does to the tables.
LEMMA MarkTables ==
  ASSUME NEW d \in Tables, NEW S, NEW new \in CodeStatus
  PROVE  /\ Mark(d, S, new) \in Tables
         /\ \A c \in Codes : Mark(d, S, new).codes[c] = IF c \in S THEN new ELSE d.codes[c]
BY DEF Mark, Tables

LEMMA InitInv == DBInit => IInv
<1> SUFFICES ASSUME DBInit PROVE IInv
  OBVIOUS
<1> USE RequestsAssumption, ConcurrencyAssumption
    DEF RequestsAssumption, ConcurrencyAssumption, DBInit, Init
<1>1. EmptyTables \in Tables /\ \A c \in Codes : EmptyTables.codes[c] = "absent"
  BY DEF EmptyTables, Tables, CodeStatus
<1>2. TypeOK
  BY <1>1 DEF TypeOK
<1>3. Labels
  BY DEF Labels, Statements
<1>4. AllEarned /\ NoDanglingTransaction
  BY <1>1 DEF AllEarned, Earned, NoDanglingTransaction
<1> QED  BY <1>2, <1>3, <1>4 DEF IInv

(* The statements of each call, as steps from one label to the next that turn *)
(* the tables into others.                                                    *)
Legal(p, d, next) ==
  /\ d \in Tables
  /\ next \in {"commitOk", "commitNo"} \/ (next \in Statements /\ kind[p] = KindOf[next])
  /\ next = "markVerified" => presented[p] \in Codes /\ email[presented[p]] = email[p]
  /\ \A c \in Codes :
       /\ d.codes[c] # "absent" => db.codes[c] # "absent" \/ (c = p /\ next = "commitOk")
       /\ d.codes[c] = "verified" =>
            db.codes[c] = "verified" \/ (kind[p] = "verify" /\ presented[p] = c /\ email[p] = email[c])

LEMMA LegalRun ==
  ASSUME IInv, NEW p \in Requests, NEW at \in Statements, NEW d, NEW next,
         Runs(p, at, d, next), pc[p] = at => Legal(p, d, next)
  PROVE  IInv'
<1> USE DEF TypeOK, Labels, AllEarned, Earned, NoDanglingTransaction, InProgress, IInv,
            Runs, Legal, Goto, Statements
<1>1. Legal(p, d, next) /\ next \in Statements \cup {"commitOk", "commitNo"}
  OBVIOUS
<1>2. TypeOK' /\ Labels' /\ NoDanglingTransaction'
  BY <1>1
<1>3. AllEarned'
  BY <1>1 DEF Of
<1> QED  BY <1>2, <1>3

LEMMA StatementInv ==
  ASSUME IInv, NEW p \in Requests,
         SaveRequest(p) \/ CreateEmailVerification(p) \/ VerifyOTP(p) \/ AutoVerifyEmail(p)
  PROVE  IInv'
<1> USE DEF IInv, Labels, KindOf, Statements
<1>0. db \in Tables /\ p \in Requests /\ db.codes \in [Codes -> CodeStatus]
  BY DEF TypeOK, Tables
<1>1. ASSUME SaveRequest(p) PROVE IInv'
  <2> DEFINE d == [db EXCEPT !.saved = @ \cup {p}]
  <2>1. kind[p] = "save" /\ d \in Tables /\ d.codes = db.codes
    BY <1>0, <1>1 DEF SaveRequest, Runs, Tables, Of
  <2>2. Legal(p, d, "commitOk")
    BY <2>1 DEF Legal
  <2> QED  BY <1>1, <2>2, LegalRun DEF SaveRequest
<1>2. ASSUME CreateEmailVerification(p) PROVE IInv'
  <2> DEFINE closed == Mark(db, PendingFor(db, email[p]), "invalidated")
             issued == Mark(db, {p}, "pending")
  <2>1. closed \in Tables /\ issued \in Tables
    BY <1>0, MarkTables DEF CodeStatus
  <2>2. ASSUME pc[p] = "invalidatePending" PROVE Legal(p, closed, "insertCode")
    <3>1. \A c \in Codes : closed.codes[c] # "absent" => db.codes[c] # "absent"
      BY <1>0, MarkTables DEF CodeStatus, PendingFor
    <3>2. \A c \in Codes : closed.codes[c] = "verified" => db.codes[c] = "verified"
      BY <1>0, MarkTables DEF CodeStatus
    <3> QED  BY <2>1, <2>2, <3>1, <3>2 DEF Legal
  <2>3. Legal(p, issued, "commitOk")
    <3>1. \A c \in Codes : issued.codes[c] # "absent" => db.codes[c] # "absent" \/ c = p
      BY <1>0, MarkTables DEF CodeStatus
    <3>2. \A c \in Codes : issued.codes[c] = "verified" => db.codes[c] = "verified"
      BY <1>0, MarkTables DEF CodeStatus
    <3> QED  BY <2>1, <3>1, <3>2 DEF Legal
  <2>4. CASE Runs(p, "invalidatePending", closed, "insertCode")
    BY <2>2, <2>4, LegalRun
  <2>5. CASE Runs(p, "insertCode", issued, "commitOk")
    BY <2>3, <2>5, LegalRun
  <2> QED  BY <1>2, <2>4, <2>5 DEF CreateEmailVerification
<1>3. ASSUME VerifyOTP(p) PROVE IInv'
  <2> DEFINE c == presented[p]
             pending == PendingFor(db, email[p])
             Existing == {x \in Codes : db.codes[x] # "absent"}
             expired == Mark(db, pending \cap stale, "expired")
             found == IF c \in pending THEN "markVerified" ELSE "commitNo"
             marked == Mark(db, {c} \cap Existing, "verified")
             closed == Mark(db, pending, "invalidated")
  <2>1. expired \in Tables /\ marked \in Tables /\ closed \in Tables
    BY <1>0, MarkTables DEF CodeStatus
  <2>2. ASSUME pc[p] = "expire" PROVE Legal(p, expired, "select")
    <3>1. \A x \in Codes : expired.codes[x] # "absent" => db.codes[x] # "absent"
      BY <1>0, MarkTables DEF CodeStatus, PendingFor
    <3>2. \A x \in Codes : expired.codes[x] = "verified" => db.codes[x] = "verified"
      BY <1>0, MarkTables DEF CodeStatus
    <3>3. kind[p] = "verify"
      BY <1>0, <2>2
    <3> QED  BY <2>1, <3>1, <3>2, <3>3 DEF Legal
  <2>3. ASSUME pc[p] = "select" PROVE Legal(p, db, found)
    BY <1>0, <2>3 DEF Legal, PendingFor
  <2>4. ASSUME pc[p] = "markVerified" PROVE Legal(p, marked, "invalidateOthers")
    <3>1. \A x \in Codes : marked.codes[x] # "absent" => db.codes[x] # "absent"
      BY <1>0, MarkTables DEF CodeStatus
    <3>2. \A x \in Codes : marked.codes[x] = "verified" => db.codes[x] = "verified" \/ x = c
      BY <1>0, MarkTables DEF CodeStatus
    <3> QED  BY <2>1, <2>4, <3>1, <3>2 DEF Legal
  <2>5. Legal(p, closed, "commitOk")
    <3>1. \A x \in Codes : closed.codes[x] # "absent" => db.codes[x] # "absent"
      BY <1>0, MarkTables DEF CodeStatus, PendingFor
    <3>2. \A x \in Codes : closed.codes[x] = "verified" => db.codes[x] = "verified"
      BY <1>0, MarkTables DEF CodeStatus
    <3> QED  BY <2>1, <3>1, <3>2 DEF Legal
  <2>6. CASE Runs(p, "expire", expired, "select")
    BY <2>2, <2>6, LegalRun
  <2>7. CASE Runs(p, "select", db, found)
    BY <2>3, <2>7, LegalRun
  <2>8. CASE Runs(p, "markVerified", marked, "invalidateOthers")
    BY <2>4, <2>8, LegalRun
  <2>9. CASE Runs(p, "invalidateOthers", closed, "commitOk")
    BY <2>5, <2>9, LegalRun
  <2> QED  BY <1>3, <2>6, <2>7, <2>8, <2>9 DEF VerifyOTP
<1>4. ASSUME AutoVerifyEmail(p) PROVE IInv'
  <2> DEFINE d == [db EXCEPT !.auto = @ \cup {email[p]}]
             next == IF IsVerified(db, email[p]) THEN "commitOk" ELSE "insertVerified"
  <2>1. d \in Tables /\ d.codes = db.codes
    BY <1>0 DEF Tables, Emails
  <2>2. ASSUME pc[p] = "checkVerified" PROVE Legal(p, db, next)
    BY <1>0, <2>2 DEF Legal
  <2>3. Legal(p, d, "commitOk")
    BY <2>1 DEF Legal
  <2>4. CASE Runs(p, "checkVerified", db, next)
    BY <2>2, <2>4, LegalRun
  <2>5. CASE Runs(p, "insertVerified", d, "commitOk")
    BY <2>3, <2>5, LegalRun
  <2> QED  BY <1>4, <2>4, <2>5 DEF AutoVerifyEmail
<1> QED  BY <1>1, <1>2, <1>3, <1>4

LEMMA NextInv == IInv /\ [DBNext]_allVars => IInv'
<1> SUFFICES ASSUME TypeOK, Labels, AllEarned, NoDanglingTransaction, [DBNext]_allVars PROVE IInv'
  BY DEF IInv
<1> USE RequestsAssumption, ConcurrencyAssumption DEF RequestsAssumption, ConcurrencyAssumption
<1>0. /\ EmptyTables \in Tables /\ \A c \in Codes : EmptyTables.codes[c] = "absent"
      /\ Codes \subseteq Requests /\ Committed \in Tables
      /\ \A c \in Codes : Earned(Committed, c) /\ Earned(EmptyTables, c)
  BY DEF EmptyTables, Tables, CodeStatus, Codes, Of, TypeOK, Committed, AllEarned, Earned
<1> USE DEF TypeOK, Labels, AllEarned, Earned, NoDanglingTransaction, InProgress, dbVars, IInv,
            Goto, Finish, EndTransaction
<1>1. ASSUME NEW p \in Requests,
             SaveRequest(p) \/ CreateEmailVerification(p) \/ VerifyOTP(p) \/ AutoVerifyEmail(p)
      PROVE  IInv'
  BY <1>1, StatementInv DEF IInv
<1>2. ASSUME NEW p \in Requests, Begin(p) PROVE IInv'
  <2>1. kind[p] \in {"save", "otp", "verify", "auto"} /\ pc[p] = "idle"
    BY <1>2 DEF Begin
  <2>2. /\ FirstStatement[kind[p]] \in Statements \ {"markVerified"}
        /\ KindOf[FirstStatement[kind[p]]] = kind[p]
    BY <2>1 DEF FirstStatement, Statements, KindOf
  <2>3. /\ presented' \in [Requests -> Codes \cup {Wrong}]
        /\ \A q \in Requests : q # p => presented'[q] = presented[q]
    BY <1>2 DEF Begin
  <2>4. pc' = [pc EXCEPT ![p] = FirstStatement[kind[p]]] \/ pc' = [pc EXCEPT ![p] = "done"]
    BY <1>2 DEF Begin
  <2>5. result' = result \/ (result' = [result EXCEPT ![p] = "error"] /\ pc'[p] = "done")
    BY <1>2 DEF Begin
  <2>6. db' = db /\ load' = load /\ stale' = stale /\ base' \in {db, base}
    BY <1>2 DEF Begin
  <2>7. TypeOK' /\ Labels'
    <3>1. /\ txn' \in {"idle", "active", "failed"}
          /\ pc' \in [Requests -> Statements \cup {"idle", "done", "commitOk", "commitNo", "rollback"}]
          /\ result' \in [Requests -> {"none", "ok", "no", "error"}]
      BY <1>2, <2>2, <2>4, <2>5 DEF Begin
    <3>2. TypeOK'
      BY <2>3, <2>6, <3>1
    <3>3. ASSUME NEW q \in Requests, q # p
          PROVE  pc'[q] = pc[q] /\ result'[q] = result[q] /\ presented'[q] = presented[q]
      BY <2>3, <2>4, <2>5, <3>3
    <3>4. /\ pc'[p] \in Statements => pc'[p] = FirstStatement[kind[p]]
          /\ pc'[p] # "done" => result'[p] = "none"
          /\ pc'[p] # "markVerified"
      BY <2>1, <2>2, <2>4, <2>5 DEF Statements
    <3> QED  BY <2>2, <3>2, <3>3, <3>4
  <2>8. NoDanglingTransaction'
    BY <1>2, <2>2 DEF Begin, Statements
  <2>9. AllEarned'
    <3> SUFFICES ASSUME NEW c \in Codes, NEW d \in {db, base} PROVE Earned(d, c)'
      BY <1>0, <2>6
    <3>1. d.codes[c] # "absent" => c # p
      BY <1>0, <2>1
    <3>2. ASSUME NEW q \in Requests, q # p
          PROVE  pc'[q] = pc[q] /\ result'[q] = result[q] /\ presented'[q] = presented[q]
      BY <2>3, <2>4, <2>5, <3>2
    <3>3. pc'[p] # "idle"
      BY <2>2, <2>4 DEF Statements
    <3>4. Earned(d, c)
      OBVIOUS
    <3>5. d.codes[c] # "absent" => (pc[c] = "commitOk" \/ result[c] = "ok")'
      BY <1>0, <3>1, <3>2, <3>4
    <3>6. ASSUME NEW q \in Of("verify"), presented[q] = c /\ email[q] = email[c] /\ pc[q] # "idle"
          PROVE  presented'[q] = c /\ pc'[q] # "idle"
      BY <2>1, <3>2, <3>6 DEF Of
    <3> QED  BY <3>4, <3>5, <3>6
  <2> QED  BY <2>7, <2>8, <2>9
<1>3. ASSUME NEW p \in Requests, StatementFails(p) PROVE IInv'
  BY <1>0, <1>3 DEF StatementFails, Statements
<1>4. ASSUME NEW p \in Requests, Commit(p) PROVE IInv'
  <2>1. db' \in {db, Committed} /\ base' = EmptyTables
    BY <1>4 DEF Commit, Committed
  <2>2. TypeOK' /\ Labels' /\ NoDanglingTransaction'
    BY <1>0, <1>4, <2>1 DEF Commit, Statements
  <2>3. AllEarned'
    BY <1>0, <1>4, <2>1 DEF Commit, Of
  <2> QED  BY <2>2, <2>3
<1>5. ASSUME NEW p \in Requests, Rollback(p) PROVE IInv'
  <2>1. TypeOK' /\ Labels' /\ NoDanglingTransaction'
    BY <1>0, <1>5 DEF Rollback, Statements
  <2>2. AllEarned'
    BY <1>0, <1>5 DEF Rollback, Of
  <2> QED  BY <2>1, <2>2
<1>6. ASSUME NEW p \in Requests, IsEmailVerified(p) PROVE IInv'
  <2>1. /\ pc[p] = "idle" /\ pc' = [pc EXCEPT ![p] = "done"]
        /\ \E r \in {"ok", "no", "error"} : result' = [result EXCEPT ![p] = r]
        /\ txn' \in {"idle", "active", "failed"} /\ (txn' = "idle" <=> txn = "idle")
        /\ UNCHANGED <<db, base, presented, stale, load>>
    BY <1>6 DEF IsEmailVerified
  <2>2. TypeOK' /\ Labels' /\ NoDanglingTransaction'
    BY <2>1 DEF Statements
  <2>3. AllEarned'
    BY <1>0, <2>1
  <2> QED  BY <2>2, <2>3
<1>7. ASSUME NEW c \in Codes, CodeExpires(c) PROVE IInv'
  BY <1>7 DEF CodeExpires
<1>8. CASE UNCHANGED allVars
  BY <1>8 DEF allVars, vars
<1> QED
  BY <1>1, <1>2, <1>3, <1>4, <1>5, <1>6, <1>7, <1>8 DEF DBNext, Call

LEMMA Invariance == DBSpec => []IInv
<1> QED  BY InitInv, NextInv, PTL DEF DBSpec

(* Type correctness of the tables and of the calls, however their statements  *)
(* interleave and fail.                                                       *)
THEOREM TypeCorrect == DBSpec => []TypeOK
<1>1. IInv => TypeOK
  BY DEF IInv
<1> QED  BY <1>1, Invariance, PTL

(* No transaction is left open on the shared connection when no call is in    *)
(* progress: each one is ended by a call that began or joined it.             *)
THEOREM EveryTransactionIsEnded == DBSpec => []NoDanglingTransaction
<1>1. IInv => NoDanglingTransaction
  BY DEF IInv
<1> QED  BY <1>1, Invariance, PTL

(* A code is verified only if it was presented for the address it was issued  *)
(* to, and never if the call that issued it was told that it failed, even     *)
(* when several calls share and break one another's transactions.             *)
THEOREM OnlyPresentedCodesAreVerified == DBSpec => []VerifiedByItsCode
<1>1. IInv => VerifiedByItsCode
  <2> SUFFICES ASSUME IInv, NEW c \in Codes, db.codes[c] = "verified"
               PROVE  /\ result[c] # "error"
                      /\ \E p \in Of("verify") : presented[p] = c /\ email[p] = email[c]
    BY DEF VerifiedByItsCode
  <2>1. pc[c] = "commitOk" \/ result[c] = "ok"
    BY DEF IInv, AllEarned, Earned
  <2>2. result[c] # "error"
    BY <2>1 DEF IInv, Labels, Codes, Of
  <2> QED  BY <2>2 DEF IInv, AllEarned, Earned
<1> QED  BY <1>1, Invariance, PTL
-----------------------------------------------------------------------------
(* One call at a time.  What a call that returns r makes of tables b, in one  *)
(* transaction: d.                                                            *)
Effect(p, b, d, r) ==
  /\ kind[p] = "save" => r = "ok" /\ d = [b EXCEPT !.saved = @ \cup {p}]
  /\ kind[p] = "otp" =>
       r = "ok" /\ d = Mark(Mark(b, PendingFor(b, email[p]), "invalidated"), {p}, "pending")
  /\ kind[p] = "auto" =>
       r = "ok" /\ d = IF IsVerified(b, email[p]) THEN b ELSE [b EXCEPT !.auto = @ \cup {email[p]}]
  /\ kind[p] = "verify" =>
       \E gone \in SUBSET (stale \cap PendingFor(b, email[p])) :
         LET open == PendingFor(b, email[p]) \ gone
             e    == Mark(b, gone, "expired")
         IN IF presented[p] \in open
            THEN r = "ok" /\ d = Mark(Mark(e, open, "invalidated"), {presented[p]}, "verified")
            ELSE r = "no" /\ d = e

(* What the statements executed so far have made of the tables at BEGIN.      *)
Halfway(p) ==
  /\ pc[p] \in {"insertRequest", "invalidatePending", "expire", "checkVerified", "insertVerified"} => db = base
  /\ pc[p] = "insertCode" => db = Mark(base, PendingFor(base, email[p]), "invalidated")
  /\ pc[p] = "insertVerified" => ~IsVerified(base, email[p])
  /\ pc[p] \in {"select", "markVerified", "invalidateOthers"} =>
       \E gone \in SUBSET (stale \cap PendingFor(base, email[p])) :
         LET open == PendingFor(base, email[p]) \ gone
             e    == Mark(base, gone, "expired")
         IN /\ pc[p] # "select" => presented[p] \in open
            /\ db = IF pc[p] = "invalidateOthers" THEN Mark(e, {presented[p]}, "verified") ELSE e
  /\ pc[p] = "commitOk" => kind[p] # "check" /\ Effect(p, base, db, "ok")
  /\ pc[p] = "commitNo" => kind[p] # "check" /\ Effect(p, base, db, "no")

(* Then a transaction has one call, and fails only to be rolled back.         *)
OneAtATime ==
  load.limit = 1 =>
    \A p \in InProgress :
      /\ \A q \in InProgress : q = p
      /\ IF pc[p] = "rollback" THEN txn = "failed" ELSE txn = "active" /\ Halfway(p)

LEMMA TablesEqual ==
  ASSUME NEW a \in Tables, NEW b \in Tables, a.saved = b.saved, a.auto = b.auto,
         \A c \in Codes : a.codes[c] = b.codes[c]
  PROVE  a = b
<1>1. a.codes \in [Codes -> CodeStatus] /\ b.codes \in [Codes -> CodeStatus]
  BY DEF Tables
<1>2. a.codes = b.codes
  BY <1>1
<1> QED  BY <1>2 DEF Tables

LEMMA MarkRest ==
  ASSUME NEW d \in Tables, NEW S, NEW new \in CodeStatus
  PROVE  Mark(d, S, new).saved = d.saved /\ Mark(d, S, new).auto = d.auto
BY DEF Mark, Tables

(* The statements of verify mark the matching row before the other open ones; *)
(* the result is the same.                                                    *)
LEMMA MarkOrder ==
  ASSUME NEW e \in Tables, NEW open \in SUBSET Codes, NEW c \in open
  PROVE  Mark(Mark(e, {c}, "verified"), open \ {c}, "invalidated")
           = Mark(Mark(e, open, "invalidated"), {c}, "verified")
<1> DEFINE a == Mark(e, {c}, "verified")
           a2 == Mark(a, open \ {c}, "invalidated")
           b == Mark(e, open, "invalidated")
           b2 == Mark(b, {c}, "verified")
<1>0. "verified" \in CodeStatus /\ "invalidated" \in CodeStatus
  BY DEF CodeStatus
<1>1. /\ a \in Tables /\ a.saved = e.saved /\ a.auto = e.auto
      /\ \A x \in Codes : a.codes[x] = IF x \in {c} THEN "verified" ELSE e.codes[x]
  BY <1>0, MarkTables, MarkRest
<1>2. /\ b \in Tables /\ b.saved = e.saved /\ b.auto = e.auto
      /\ \A x \in Codes : b.codes[x] = IF x \in open THEN "invalidated" ELSE e.codes[x]
  BY <1>0, MarkTables, MarkRest
<1> HIDE DEF a, b
<1>3. /\ a2 \in Tables /\ a2.saved = a.saved /\ a2.auto = a.auto
      /\ \A x \in Codes : a2.codes[x] = IF x \in open \ {c} THEN "invalidated" ELSE a.codes[x]
  BY <1>0, <1>1, MarkTables, MarkRest
<1>4. /\ b2 \in Tables /\ b2.saved = b.saved /\ b2.auto = b.auto
      /\ \A x \in Codes : b2.codes[x] = IF x \in {c} THEN "verified" ELSE b.codes[x]
  BY <1>0, <1>2, MarkTables, MarkRest
<1> HIDE DEF a2, b2
<1>5. \A x \in Codes : a2.codes[x] = b2.codes[x]
  BY <1>1, <1>2, <1>3, <1>4
<1>6. a2 = b2
  BY <1>1, <1>2, <1>3, <1>4, <1>5, TablesEqual
<1> QED  BY <1>6 DEF a, a2, b, b2

\* What is open after some codes expired,
LEMMA OpenAfter ==
  ASSUME NEW b \in Tables, NEW m, NEW gone \in SUBSET PendingFor(b, m)
  PROVE  /\ Mark(b, gone, "expired") \in Tables
         /\ PendingFor(Mark(b, gone, "expired"), m) = PendingFor(b, m) \ gone
<1> DEFINE e == Mark(b, gone, "expired")
<1>1. e \in Tables /\ \A x \in Codes : e.codes[x] = IF x \in gone THEN "expired" ELSE b.codes[x]
  BY MarkTables DEF CodeStatus
<1> HIDE DEF e
<1>2. PendingFor(e, m) = PendingFor(b, m) \ gone
  BY <1>1 DEF PendingFor
<1> QED  BY <1>1, <1>2 DEF e

\* and after one code was verified.
LEMMA OpenAfterMatch ==
  ASSUME NEW e \in Tables, NEW m, NEW c \in Codes
  PROVE  PendingFor(Mark(e, {c}, "verified"), m) = PendingFor(e, m) \ {c}
<1> DEFINE f == Mark(e, {c}, "verified")
<1>1. \A x \in Codes : f.codes[x] = IF x \in {c} THEN "verified" ELSE e.codes[x]
  BY MarkTables DEF CodeStatus
<1> HIDE DEF f
<1>2. PendingFor(f, m) = PendingFor(e, m) \ {c}
  BY <1>1 DEF PendingFor
<1> QED  BY <1>2 DEF f

LEMMA Alone ==
  ASSUME IInv, OneAtATime, load.limit = 1
  PROVE  /\ \A p \in InProgress : InProgress = {p}
         /\ Cardinality(InProgress) < load.limit => InProgress = {} /\ txn = "idle"
<1>1. \A p \in InProgress : InProgress = {p}
  BY DEF OneAtATime
<1>2. ASSUME Cardinality(InProgress) < load.limit PROVE InProgress = {} /\ txn = "idle"
  <2>1. IsFiniteSet(InProgress)
    BY FS_Subset, RequestsAssumption DEF RequestsAssumption, InProgress
  <2>2. Cardinality(InProgress) \in Nat /\ Cardinality(InProgress) < 1
    BY <1>2, <2>1, FS_CardinalityType
  <2>3. Cardinality(InProgress) = 0
    BY <2>2
  <2>4. InProgress = {}
    BY <2>1, <2>3, FS_EmptySet
  <2> QED  BY <2>4 DEF IInv, NoDanglingTransaction
<1> QED  BY <1>1, <1>2

\* A statement takes the one call from one label to the next.
LEMMA RunAlone ==
  ASSUME IInv, OneAtATime, load.limit = 1, NEW p \in Requests, NEW at \in Statements, NEW d, NEW next,
         Runs(p, at, d, next), txn = "active" /\ Halfway(p) => Halfway(p)',
         next \in Statements \cup {"commitOk", "commitNo"}
  PROVE  OneAtATime'
<1>1. p \in InProgress /\ pc[p] = at /\ pc[p] # "rollback"
  BY DEF InProgress, Runs, Statements
<1>2. InProgress = {p} /\ txn = "active" /\ Halfway(p)
  BY <1>1, Alone DEF OneAtATime
<1>3. InProgress' = {p} /\ pc'[p] = next /\ next # "rollback" /\ UNCHANGED <<txn, load>>
  BY <1>2 DEF InProgress, Runs, Goto, Statements, IInv, TypeOK
<1> QED  BY <1>2, <1>3 DEF OneAtATime

LEMMA StatementAlone ==
  ASSUME IInv, OneAtATime, load.limit = 1, NEW p \in Requests,
         SaveRequest(p) \/ CreateEmailVerification(p) \/ VerifyOTP(p) \/ AutoVerifyEmail(p)
  PROVE  OneAtATime'
<1>1. /\ db \in Tables /\ base \in Tables /\ pc \in [Requests -> Statements \cup {"idle", "done", "commitOk", "commitNo", "rollback"}]
      /\ \A at \in Statements : pc[p] = at => kind[p] = KindOf[at]
      /\ pc[p] = "markVerified" => presented[p] \in Codes
  BY DEF IInv, TypeOK, Labels
<1>2. /\ {"insertRequest", "invalidatePending", "insertCode", "expire", "select", "markVerified",
          "invalidateOthers", "checkVerified", "insertVerified"} \subseteq Statements
      /\ {"commitOk", "commitNo"} \cap Statements = {}
  BY DEF Statements
<1>3. ASSUME NEW at \in Statements, NEW d, NEW next, Runs(p, at, d, next)
      PROVE  pc[p] = at /\ pc'[p] = next /\ db' = d /\ UNCHANGED <<txn, base, presented, stale>>
  BY <1>1, <1>3 DEF Runs, Goto
<1>4. CASE SaveRequest(p)
  <2> DEFINE d == [db EXCEPT !.saved = @ \cup {p}]
  <2>1. Runs(p, "insertRequest", d, "commitOk")
    BY <1>4 DEF SaveRequest
  <2>2. pc[p] = "insertRequest" /\ pc'[p] = "commitOk" /\ db' = d /\ UNCHANGED <<base, presented, stale>>
    BY <1>2, <1>3, <2>1
  <2>3. kind[p] = "save"
    BY <1>1, <1>2, <2>2 DEF KindOf
  <2>4. Halfway(p) => Halfway(p)'
    BY <2>2, <2>3 DEF Halfway, Effect
  <2> QED  BY <1>2, <2>1, <2>4, RunAlone
<1>5. CASE CreateEmailVerification(p)
  <2> DEFINE closed == Mark(db, PendingFor(db, email[p]), "invalidated")
             issued == Mark(db, {p}, "pending")
  <2>1. CASE Runs(p, "invalidatePending", closed, "insertCode")
    <3>1. pc[p] = "invalidatePending" /\ pc'[p] = "insertCode" /\ db' = closed /\ UNCHANGED <<base, presented, stale>>
      BY <1>2, <1>3, <2>1
    <3>2. Halfway(p) => Halfway(p)'
      BY <3>1 DEF Halfway
    <3> QED  BY <1>2, <2>1, <3>2, RunAlone
  <2>2. CASE Runs(p, "insertCode", issued, "commitOk")
    <3>1. pc[p] = "insertCode" /\ pc'[p] = "commitOk" /\ db' = issued /\ UNCHANGED <<base, presented, stale>>
      BY <1>2, <1>3, <2>2
    <3>2. kind[p] = "otp"
      BY <1>1, <1>2, <3>1 DEF KindOf
    <3>3. Halfway(p) => Halfway(p)'
      BY <3>1, <3>2 DEF Halfway, Effect
    <3> QED  BY <1>2, <2>2, <3>3, RunAlone
  <2> QED  BY <1>5, <2>1, <2>2 DEF CreateEmailVerification
<1>6. CASE VerifyOTP(p)
  <2> DEFINE c == presented[p]
             pending == PendingFor(db, email[p])
             Existing == {x \in Codes : db.codes[x] # "absent"}
             expired == Mark(db, pending \cap stale, "expired")
             found == IF c \in pending THEN "markVerified" ELSE "commitNo"
             marked == Mark(db, {c} \cap Existing, "verified")
             closed == Mark(db, pending, "invalidated")
             Seen(gone) == Mark(base, gone, "expired")
             Gone == SUBSET (stale \cap PendingFor(base, email[p]))
             Open(gone) == PendingFor(base, email[p]) \ gone
  <2>0. \A gone \in Gone :
          /\ Seen(gone) \in Tables /\ PendingFor(Seen(gone), email[p]) = Open(gone)
          /\ Open(gone) \in SUBSET Codes
          /\ \A x \in Open(gone) :
               /\ PendingFor(Mark(Seen(gone), {x}, "verified"), email[p]) = Open(gone) \ {x}
               /\ Mark(Mark(Seen(gone), {x}, "verified"), Open(gone) \ {x}, "invalidated")
                    = Mark(Mark(Seen(gone), Open(gone), "invalidated"), {x}, "verified")
    <3> SUFFICES ASSUME NEW gone \in Gone
                 PROVE  /\ Seen(gone) \in Tables /\ PendingFor(Seen(gone), email[p]) = Open(gone)
                        /\ Open(gone) \in SUBSET Codes
                        /\ \A x \in Open(gone) :
                             /\ PendingFor(Mark(Seen(gone), {x}, "verified"), email[p]) = Open(gone) \ {x}
                             /\ Mark(Mark(Seen(gone), {x}, "verified"), Open(gone) \ {x}, "invalidated")
                                  = Mark(Mark(Seen(gone), Open(gone), "invalidated"), {x}, "verified")
      OBVIOUS
    <3>1. gone \in SUBSET PendingFor(base, email[p]) /\ Open(gone) \in SUBSET Codes
      BY DEF PendingFor
    <3>2. Seen(gone) \in Tables /\ PendingFor(Seen(gone), email[p]) = Open(gone)
      BY <1>1, <3>1, OpenAfter
    <3>3. ASSUME NEW x \in Open(gone)
          PROVE  /\ PendingFor(Mark(Seen(gone), {x}, "verified"), email[p]) = Open(gone) \ {x}
                 /\ Mark(Mark(Seen(gone), {x}, "verified"), Open(gone) \ {x}, "invalidated")
                      = Mark(Mark(Seen(gone), Open(gone), "invalidated"), {x}, "verified")
      <4>1. PendingFor(Mark(Seen(gone), {x}, "verified"), email[p]) = PendingFor(Seen(gone), email[p]) \ {x}
        BY <3>1, <3>2, OpenAfterMatch
      <4>2. Mark(Mark(Seen(gone), {x}, "verified"), Open(gone) \ {x}, "invalidated")
              = Mark(Mark(Seen(gone), Open(gone), "invalidated"), {x}, "verified")
        BY <3>1, <3>2, MarkOrder
      <4> QED  BY <3>2, <4>1, <4>2
    <3> QED  BY <3>1, <3>2, <3>3
  <2>1. CASE Runs(p, "expire", expired, "select")
    <3>1. pc[p] = "expire" /\ pc'[p] = "select" /\ db' = expired /\ UNCHANGED <<base, presented, stale>>
      BY <1>2, <1>3, <2>1
    <3>2. ASSUME Halfway(p) PROVE Halfway(p)'
      <4>1. db = base /\ pending \cap stale \in Gone
        BY <3>1, <3>2 DEF Halfway
      <4>2. db' = Seen(pending \cap stale)
        BY <3>1, <4>1
      <4> QED  BY <3>1, <4>1, <4>2 DEF Halfway
    <3> QED  BY <1>2, <2>1, <3>2, RunAlone
  <2>2. CASE Runs(p, "select", db, found)
    <3>1. /\ pc[p] = "select" /\ pc'[p] = found /\ UNCHANGED <<db, base, presented, stale>>
          /\ found \in Statements \cup {"commitOk", "commitNo"}
      BY <1>2, <1>3, <2>2
    <3>2. kind[p] = "verify"
      BY <1>1, <1>2, <3>1 DEF KindOf
    <3>3. ASSUME Halfway(p) PROVE Halfway(p)'
      <4> PICK gone \in Gone : db = Seen(gone)
        BY <3>1, <3>3 DEF Halfway
      <4>1. pending = Open(gone)
        BY <2>0
      <4>2. CASE c \in pending
        BY <3>1, <4>1, <4>2 DEF Halfway
      <4>3. CASE c \notin pending
        <5>1. Effect(p, base, db, "no")'
          BY <3>1, <3>2, <4>1, <4>3 DEF Effect
        <5> QED  BY <3>1, <3>2, <4>3, <5>1 DEF Halfway
      <4> QED  BY <4>2, <4>3
    <3> QED  BY <1>2, <2>2, <3>1, <3>3, RunAlone
  <2>3. CASE Runs(p, "markVerified", marked, "invalidateOthers")
    <3>1. pc[p] = "markVerified" /\ pc'[p] = "invalidateOthers" /\ db' = marked /\ UNCHANGED <<base, presented, stale>>
      BY <1>2, <1>3, <2>3
    <3>2. ASSUME Halfway(p) PROVE Halfway(p)'
      <4> PICK gone \in Gone : db = Seen(gone) /\ c \in Open(gone)
        BY <3>1, <3>2 DEF Halfway
      <4>1. c \in Existing
        BY <2>0 DEF PendingFor
      <4>2. db' = Mark(Seen(gone), {c}, "verified")
        BY <3>1, <4>1
      <4> QED  BY <3>1, <4>2 DEF Halfway
    <3> QED  BY <1>2, <2>3, <3>2, RunAlone
  <2>4. CASE Runs(p, "invalidateOthers", closed, "commitOk")
    <3>1. pc[p] = "invalidateOthers" /\ pc'[p] = "commitOk" /\ db' = closed /\ UNCHANGED <<base, presented, stale>>
      BY <1>2, <1>3, <2>4
    <3>2. kind[p] = "verify"
      BY <1>1, <1>2, <3>1 DEF KindOf
    <3>3. ASSUME Halfway(p) PROVE Halfway(p)'
      <4> PICK gone \in Gone : db = Mark(Seen(gone), {c}, "verified") /\ c \in Open(gone)
        BY <3>1, <3>3 DEF Halfway
      <4>1. db' = Mark(Mark(Seen(gone), Open(gone), "invalidated"), {c}, "verified")
        BY <2>0, <3>1
      <4>2. Effect(p, base, db, "ok")'
        BY <3>1, <3>2, <4>1 DEF Effect
      <4> QED  BY <3>1, <3>2, <4>2 DEF Halfway
    <3> QED  BY <1>2, <2>4, <3>3, RunAlone
  <2> QED  BY <1>6, <2>1, <2>2, <2>3, <2>4 DEF VerifyOTP
<1>7. CASE AutoVerifyEmail(p)
  <2> DEFINE next == IF IsVerified(db, email[p]) THEN "commitOk" ELSE "insertVerified"
             d == [db EXCEPT !.auto = @ \cup {email[p]}]
  <2>1. CASE Runs(p, "checkVerified", db, next)
    <3>1. /\ pc[p] = "checkVerified" /\ pc'[p] = next /\ UNCHANGED <<db, base, presented, stale>>
          /\ next \in Statements \cup {"commitOk", "commitNo"}
      BY <1>2, <1>3, <2>1
    <3>2. kind[p] = "auto"
      BY <1>1, <1>2, <3>1 DEF KindOf
    <3>3. Halfway(p) => Halfway(p)'
      BY <3>1, <3>2 DEF Halfway, Effect, IsVerified
    <3> QED  BY <1>2, <2>1, <3>1, <3>3, RunAlone
  <2>2. CASE Runs(p, "insertVerified", d, "commitOk")
    <3>1. pc[p] = "insertVerified" /\ pc'[p] = "commitOk" /\ db' = d /\ UNCHANGED <<base, presented, stale>>
      BY <1>2, <1>3, <2>2
    <3>2. kind[p] = "auto"
      BY <1>1, <1>2, <3>1 DEF KindOf
    <3>3. Halfway(p) => Halfway(p)'
      BY <3>1, <3>2 DEF Halfway, Effect
    <3> QED  BY <1>2, <2>2, <3>3, RunAlone
  <2> QED  BY <1>7, <2>1, <2>2 DEF AutoVerifyEmail
<1> QED  BY <1>4, <1>5, <1>6, <1>7

LEMMA AloneInit == DBInit => OneAtATime
BY DEF DBInit, OneAtATime, InProgress

LEMMA AloneStep == IInv /\ OneAtATime /\ [DBNext]_allVars => OneAtATime'
<1> SUFFICES ASSUME IInv, OneAtATime, [DBNext]_allVars, load.limit = 1 PROVE OneAtATime'
  <2>1. CASE \E p \in Requests : Begin(p) \/ IsEmailVerified(p) \/ StatementFails(p) \/ Commit(p) \/ Rollback(p)
    BY <2>1 DEF Begin, IsEmailVerified, StatementFails, Commit, Rollback, OneAtATime
  <2>2. CASE \E p \in Requests :
               SaveRequest(p) \/ CreateEmailVerification(p) \/ VerifyOTP(p) \/ AutoVerifyEmail(p)
    <3>1. load' = load
      BY <2>2 DEF SaveRequest, CreateEmailVerification, VerifyOTP, AutoVerifyEmail, Runs
    <3> QED  BY <3>1 DEF OneAtATime
  <2>3. CASE (\E c \in Codes : CodeExpires(c)) \/ UNCHANGED allVars
    BY <2>3 DEF CodeExpires, allVars, OneAtATime
  <2> QED  BY <2>1, <2>2, <2>3 DEF DBNext, Call
<1>1. pc \in [Requests -> Statements \cup {"idle", "done", "commitOk", "commitNo", "rollback"}]
  BY DEF IInv, TypeOK
<1>2. ASSUME NEW p \in Requests, Begin(p) PROVE OneAtATime'
  <2>1. InProgress = {} /\ txn = "idle"
    BY <1>2, Alone DEF Begin
  <2>2. /\ txn' = "active" /\ base' = db /\ db' = db /\ load' = load
        /\ pc' = [pc EXCEPT ![p] = FirstStatement[kind[p]]]
    BY <1>2, <2>1 DEF Begin, Goto
  <2>3. kind[p] \in {"save", "otp", "verify", "auto"}
    BY <1>2, RequestsAssumption DEF Begin, RequestsAssumption
  <2>4. FirstStatement[kind[p]] \in {"insertRequest", "invalidatePending", "expire", "checkVerified"}
    BY <2>3 DEF FirstStatement
  <2>5. InProgress' \subseteq {p} /\ pc'[p] \in {"insertRequest", "invalidatePending", "expire", "checkVerified"}
    BY <1>1, <2>1, <2>2, <2>4 DEF InProgress
  <2>6. Halfway(p)'
    BY <2>2, <2>5 DEF Halfway
  <2> QED  BY <2>2, <2>5, <2>6 DEF OneAtATime
<1>3. ASSUME NEW p \in Requests,
             SaveRequest(p) \/ CreateEmailVerification(p) \/ VerifyOTP(p) \/ AutoVerifyEmail(p)
      PROVE  OneAtATime'
  BY <1>3, StatementAlone
<1>4. ASSUME NEW p \in Requests, StatementFails(p) PROVE OneAtATime'
  <2>1. p \in InProgress /\ pc[p] # "rollback"
    BY <1>4 DEF StatementFails, InProgress, Statements
  <2>2. InProgress = {p} /\ txn = "active"
    BY <2>1, Alone DEF OneAtATime
  <2>3. InProgress' = {p} /\ pc'[p] = "rollback" /\ txn' = "failed"
    BY <1>1, <1>4, <2>2 DEF StatementFails, InProgress, Goto
  <2> QED  BY <2>3 DEF OneAtATime
<1>5. ASSUME NEW p \in Requests, Commit(p) \/ Rollback(p) PROVE OneAtATime'
  <2>1. InProgress = {p}
    BY <1>5, Alone DEF Commit, Rollback, InProgress
  <2>2. InProgress' = {}
    BY <1>1, <1>5, <2>1 DEF Commit, Rollback, Finish, Goto, InProgress
  <2> QED  BY <2>2 DEF OneAtATime
<1>6. ASSUME NEW p \in Requests, IsEmailVerified(p) PROVE OneAtATime'
  <2>1. InProgress = {}
    BY <1>6, Alone DEF IsEmailVerified
  <2>2. InProgress' = {}
    BY <1>1, <1>6, <2>1 DEF IsEmailVerified, Finish, Goto, InProgress
  <2> QED  BY <2>2 DEF OneAtATime
<1>7. ASSUME NEW c \in Codes, CodeExpires(c) PROVE OneAtATime'
  <2>1. stale \subseteq stale' /\ UNCHANGED <<db, base, txn, pc, presented, load>>
    BY <1>7 DEF CodeExpires, dbVars
  <2>2. InProgress' = InProgress
    BY <2>1 DEF InProgress
  <2>3. ASSUME NEW p \in Requests, NEW r, Effect(p, base, db, r) PROVE Effect(p, base, db, r)'
    BY <2>1, <2>3 DEF Effect
  <2>4. ASSUME NEW p \in Requests, Halfway(p) PROVE Halfway(p)'
    <3>1. /\ pc[p] = "commitOk" => Effect(p, base, db, "ok")'
          /\ pc[p] = "commitNo" => Effect(p, base, db, "no")'
      BY <2>3, <2>4 DEF Halfway
    <3>2. pc[p] \in {"select", "markVerified", "invalidateOthers"} =>
            \E gone \in SUBSET (stale' \cap PendingFor(base, email[p])) :
              LET open == PendingFor(base, email[p]) \ gone
                  e    == Mark(base, gone, "expired")
              IN /\ pc[p] # "select" => presented[p] \in open
                 /\ db = IF pc[p] = "invalidateOthers" THEN Mark(e, {presented[p]}, "verified") ELSE e
      BY <2>1, <2>4 DEF Halfway
    <3> QED  BY <2>1, <2>4, <3>1, <3>2 DEF Halfway
  <2> QED  BY <2>1, <2>2, <2>4 DEF OneAtATime, InProgress
<1>8. CASE UNCHANGED allVars
  <2>1. UNCHANGED <<db, base, txn, pc, presented, stale, load>>
    BY <1>8 DEF allVars, vars, dbVars
  <2>2. InProgress' = InProgress /\ \A p \in Requests : Halfway(p)' <=> Halfway(p)
    BY <2>1 DEF InProgress, Halfway, Effect
  <2> QED  BY <2>1, <2>2 DEF OneAtATime, InProgress
<1> QED  BY <1>2, <1>3, <1>4, <1>5, <1>6, <1>7, <1>8 DEF DBNext, Call

\* The abstract records talk about their tables as the detailed ones do.
LEMMA SameTables ==
  /\ Records!Codes = Codes /\ Records!EmptyTables = EmptyTables
  /\ \A d, S, new : Records!Mark(d, S, new) = Mark(d, S, new)
  /\ \A d, m : Records!PendingFor(d, m) = PendingFor(d, m)
  /\ \A d, m : Records!IsVerified(d, m) <=> IsVerified(d, m)
BY DEF Records!Codes, Records!EmptyTables, Records!Mark, Records!PendingFor, Records!IsVerified, Records!Of,
       Codes, EmptyTables, Mark, PendingFor, IsVerified, Of

\* COMMIT shows the others what the call did, as one step of the records.
LEMMA CommitIsAtomic ==
  ASSUME IInv, OneAtATime, load.limit = 1, NEW p \in Requests, Commit(p)
  PROVE  Records!Next
<1>1. p \in InProgress /\ pc[p] \in {"commitOk", "commitNo"}
  BY DEF Commit, InProgress
<1> DEFINE r == IF pc[p] = "commitOk" THEN "ok" ELSE "no"
<1>2. txn = "active" /\ kind[p] # "check" /\ Effect(p, base, db, r)
  BY <1>1 DEF OneAtATime, Halfway
<1>3. Committed = base /\ Committed' = db /\ UNCHANGED <<presented, stale>>
  BY <1>2 DEF Committed, Commit, EndTransaction
<1>4. result[p] = "none" /\ result' = [result EXCEPT ![p] = r]
  BY <1>1 DEF IInv, Labels, Commit, Finish
<1> HIDE DEF r
<1>5. Records!Return(p, r)
  BY <1>4 DEF Records!Return
<1>6. kind[p] \in {"save", "otp", "verify", "auto"}
  BY <1>2, RequestsAssumption DEF RequestsAssumption
<1>7. CASE kind[p] = "save"
  BY <1>2, <1>3, <1>5, <1>7 DEF Effect, Records!Save, Records!Next
<1>8. CASE kind[p] = "otp"
  BY <1>2, <1>3, <1>5, <1>8, SameTables DEF Effect, Records!IssueCode, Records!Next
<1>9. CASE kind[p] = "auto"
  BY <1>2, <1>3, <1>5, <1>9, SameTables DEF Effect, Records!AutoVerify, Records!Next
<1>10. CASE kind[p] = "verify"
  <2> DEFINE Gone == SUBSET (stale \cap PendingFor(base, email[p]))
             Seen(gone) == Mark(base, gone, "expired")
             Open(gone) == PendingFor(base, email[p]) \ gone
             c == presented[p]
  <2> PICK gone \in Gone :
         IF c \in Open(gone)
         THEN r = "ok" /\ db = Mark(Mark(Seen(gone), Open(gone), "invalidated"), {c}, "verified")
         ELSE r = "no" /\ db = Seen(gone)
    BY <1>2, <1>10 DEF Effect
  <2>1. Records!Verify(p)
    BY <1>3, <1>5, <1>10, SameTables DEF Records!Verify
  <2> QED  BY <2>1 DEF Records!Next
<1> QED  BY <1>6, <1>7, <1>8, <1>9, <1>10

LEMMA StepIsAtomic ==
  IInv /\ OneAtATime /\ [DBNext]_allVars => [load.limit = 1 => Records!Next]_(Records!vars)
<1> SUFFICES ASSUME IInv, OneAtATime, [DBNext]_allVars, load.limit = 1
             PROVE  Records!Next \/ UNCHANGED Records!vars
  OBVIOUS
<1> USE DEF Records!vars
<1>1. ASSUME NEW p \in Requests, Begin(p) PROVE Records!Next \/ UNCHANGED Records!vars
  <2>1. txn = "idle"
    BY <1>1, Alone DEF Begin
  <2>2. txn' = "active" /\ base' = db /\ UNCHANGED <<db, result, stale>>
    BY <1>1, <2>1 DEF Begin
  <2>3. Committed' = Committed
    BY <2>1, <2>2 DEF Committed
  <2>4. CASE kind[p] = "verify"
    <3>1. Records!Present(p)
      BY <1>1, <2>2, <2>3, <2>4, SameTables DEF Begin, Records!Present
    <3> QED  BY <3>1 DEF Records!Next
  <2>5. CASE kind[p] # "verify"
    BY <1>1, <2>2, <2>3, <2>5 DEF Begin
  <2> QED  BY <2>4, <2>5
<1>2. ASSUME NEW p \in Requests,
             SaveRequest(p) \/ CreateEmailVerification(p) \/ VerifyOTP(p) \/ AutoVerifyEmail(p)
      PROVE  UNCHANGED Records!vars
  <2>1. pc[p] \in Statements /\ UNCHANGED <<txn, base, result, presented, stale>>
    BY <1>2 DEF SaveRequest, CreateEmailVerification, VerifyOTP, AutoVerifyEmail, Runs, Statements
  <2>2. txn = "active"
    BY <2>1 DEF OneAtATime, InProgress, Statements
  <2> QED  BY <2>1, <2>2 DEF Committed
<1>3. ASSUME NEW p \in Requests, StatementFails(p) PROVE UNCHANGED Records!vars
  <2>1. txn = "active"
    BY <1>3 DEF StatementFails, OneAtATime, InProgress, Statements
  <2> QED  BY <1>3, <2>1 DEF StatementFails, Committed
<1>4. ASSUME NEW p \in Requests, Commit(p) PROVE Records!Next
  BY <1>4, CommitIsAtomic
<1>5. ASSUME NEW p \in Requests, Rollback(p) PROVE Records!Next
  <2>1. result[p] = "none"
    BY <1>5 DEF Rollback, IInv, Labels
  <2>2. Records!Fail(p)
    BY <1>5, <2>1 DEF Rollback, Finish, EndTransaction, Committed, Records!Fail, Records!Return
  <2> QED  BY <2>2 DEF Records!Next
<1>6. ASSUME NEW p \in Requests, IsEmailVerified(p) PROVE Records!Next
  <2>1. txn = "idle" /\ txn' = "idle"
    BY <1>6, Alone DEF IsEmailVerified
  <2>2. Committed = db /\ Committed' = db /\ UNCHANGED <<presented, stale>> /\ result[p] = "none"
    BY <1>6, <2>1 DEF IsEmailVerified, Committed, IInv, Labels
  <2>3. Records!Check(p) \/ Records!Fail(p)
    BY <1>6, <2>1, <2>2, SameTables DEF IsEmailVerified, Finish, Records!Check, Records!Fail, Records!Return
  <2> QED  BY <2>3 DEF Records!Next
<1>7. ASSUME NEW c \in Codes, CodeExpires(c) PROVE Records!Next
  <2>1. Records!GrowStale(c)
    BY <1>7 DEF CodeExpires, dbVars, Committed, Records!GrowStale
  <2> QED  BY <2>1, SameTables DEF Records!Next
<1>8. CASE UNCHANGED allVars
  BY <1>8 DEF allVars, vars, dbVars, Committed
<1> QED  BY <1>1, <1>2, <1>3, <1>4, <1>5, <1>6, <1>7, <1>8 DEF DBNext, Call

(* The database as the faucet uses it when its web server handles one call    *)
(* at a time: what other connections see, what survives a rollback and what   *)
(* the caller is told change together, as one transaction of FaucetRecords,   *)
(* whichever statement fails.                                                 *)
THEOREM CallsAreAtomic == DBSpec => AtomicCalls
<1>1. DBInit => Records!Init
  BY SameTables DEF DBInit, Init, Committed, Records!Init
<1>2. IInv /\ OneAtATime /\ [DBNext]_allVars => OneAtATime'
  BY AloneStep
<1>3. IInv /\ OneAtATime /\ [DBNext]_allVars => [load.limit = 1 => Records!Next]_(Records!vars)
  BY StepIsAtomic
<1> QED  BY <1>1, <1>2, <1>3, AloneInit, Invariance, PTL DEF DBSpec, AtomicCalls
=============================================================================
