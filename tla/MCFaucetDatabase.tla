-------------------------- MODULE MCFaucetDatabase --------------------------
(* Small instances of FaucetDatabase: which calls are made, all about one     *)
(* address unless stated otherwise.                                           *)
EXTENDS FaucetDatabase, TLC

CONSTANTS s1, o1, o2, o3, v1, v2, a1, k1

MCKind == [p \in Requests |->
  CASE p = s1 -> "save" [] p \in {o1, o2, o3} -> "otp"
    [] p \in {v1, v2} -> "verify" [] p = a1 -> "auto" [] OTHER -> "check"]

\* o3 is about an address of its own
MCEmail == [p \in Requests |-> IF p = o3 THEN "bob" ELSE "alice"]
=============================================================================
