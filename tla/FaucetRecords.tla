---------------------------- MODULE FaucetRecords ----------------------------
(* What DatabaseService (packages/faucet/src/database) is for: every call is  *)
(* one transaction that takes effect as a whole when it succeeds and not at   *)
(* all when it throws.                                                        *)
CONSTANTS
  Requests,    \* calls of the database service
  kind,        \* kind[p]: save, otp, verify, auto or check
  email,       \* email[p]: the address that call p is about
  Wrong        \* a code that was never issued

VARIABLES
  db,          \* the tables
  result,      \* result[p]: none, ok, no or error
  presented,   \* the code that a verify call presents, named by the call that issued it
  stale        \* codes older than five minutes

vars == <<db, result, presented, stale>>

Of(k)  == {p \in Requests : kind[p] = k}
Codes  == Of("otp")
Emails == {email[p] : p \in Requests}

CodeStatus == {"absent", "pending", "verified", "invalidated", "expired"}

Tables ==
  [ saved : SUBSET Of("save"),        \* rows of requests
    codes : [Codes -> CodeStatus],    \* rows of email_verifications with a code
    auto  : SUBSET Emails ]           \* verified rows without a usable code

EmptyTables == [saved |-> {}, codes |-> [c \in Codes |-> "absent"], auto |-> {}]

PendingFor(d, e) == {c \in Codes : email[c] = e /\ d.codes[c] = "pending"}

IsVerified(d, e) ==
  e \in d.auto \/ \E c \in Codes : email[c] = e /\ d.codes[c] = "verified"

\* Set the status of a set of codes.
Mark(d, S, status) == [d EXCEPT !.codes = [c \in Codes |-> IF c \in S THEN status ELSE @[c]]]

Init ==
  /\ db = EmptyTables
  /\ result = [p \in Requests |-> "none"]
  /\ presented = [p \in Requests |-> Wrong]
  /\ stale = {}

Return(p, r) == result[p] = "none" /\ result' = [result EXCEPT ![p] = r]

Save(p) ==
  /\ kind[p] = "save" /\ Return(p, "ok")
  /\ db' = [db EXCEPT !.saved = @ \cup {p}]
  /\ UNCHANGED <<presented, stale>>

IssueCode(p) ==
  /\ kind[p] = "otp" /\ Return(p, "ok")
  /\ db' = Mark(Mark(db, PendingFor(db, email[p]), "invalidated"), {p}, "pending")
  /\ UNCHANGED <<presented, stale>>

\* Which of the codes that grow stale during the call it still sees is open.
Verify(p) ==
  LET c == presented[p] IN
  /\ kind[p] = "verify"
  /\ \E gone \in SUBSET (stale \cap PendingFor(db, email[p])) :
       LET open == PendingFor(db, email[p]) \ gone
           d    == Mark(db, gone, "expired")
       IN \/ c \in open /\ Return(p, "ok")
             /\ db' = Mark(Mark(d, open, "invalidated"), {c}, "verified")
          \/ c \notin open /\ Return(p, "no") /\ db' = d
  /\ UNCHANGED <<presented, stale>>

AutoVerify(p) ==
  /\ kind[p] = "auto" /\ Return(p, "ok")
  /\ db' = IF IsVerified(db, email[p]) THEN db ELSE [db EXCEPT !.auto = @ \cup {email[p]}]
  /\ UNCHANGED <<presented, stale>>

Check(p) ==
  /\ kind[p] = "check"
  /\ Return(p, IF IsVerified(db, email[p]) THEN "ok" ELSE "no")
  /\ UNCHANGED <<db, presented, stale>>

Fail(p) == Return(p, "error") /\ UNCHANGED <<db, presented, stale>>

\* A user enters a code; time passes.
Present(p) ==
  /\ kind[p] = "verify"
  /\ \E c \in Codes \cup {Wrong} : presented' = [presented EXCEPT ![p] = c]
  /\ UNCHANGED <<db, result, stale>>

GrowStale(c) == stale' = stale \cup {c} /\ UNCHANGED <<db, result, presented>>

Next ==
  \/ \E p \in Requests :
       Save(p) \/ IssueCode(p) \/ Verify(p) \/ AutoVerify(p) \/ Check(p) \/ Fail(p) \/ Present(p)
  \/ \E c \in Codes : GrowStale(c)

Spec == Init /\ [][Next]_vars
=============================================================================
