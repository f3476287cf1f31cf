------------------------------ MODULE MCFaucet ------------------------------
(* Small instances of Faucet.                                                *)
EXTENDS Faucet

CONSTANTS r1, r2, a1, e1

Form(valid, studio, optin) ==
  [address |-> a1, email |-> e1, valid |-> valid, studio |-> studio, optin |-> optin]

\* Two regular requests for one address; one of them, one from the studio and
\* one for a wrong address.
MCWorkloads ==
  { [r \in Requests |-> Form(TRUE, FALSE, r = r1)],
    [r \in Requests |-> Form(r # r2, r = r1, r = r1)] }
=============================================================================
