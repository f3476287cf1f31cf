---------------------------- MODULE LedgerSigner ----------------------------
(* LedgerSigner and LedgerConnector (packages/ledger-amino/src): calls that  *)
(* talk to one device, a command at a time and interleaved with each other,  *)
(* while the user opens and closes apps and locks the device.                *)
EXTENDS Naturals, Sequences

CONSTANTS
  Calls,             \* calls of getAccounts() and signAmino()
  Paths,             \* length of hdPaths
  testModeAllowed,
  MaxSwitches        \* bound: what the user does to the device

VARIABLES
  asked,     \* parameter: the account each call signs for, counted from 1; 0 is getAccounts
  goal,      \* what the call wants of the device next: a key or a signature
  step,      \* the command it awaits: idle, app, version, again, command, done or failed
  pubkeys,   \* what its getPubkeys() has collected; keys are named by their path
  accounts,  \* LedgerSigner.accounts; empty before they are known
  signature, \* the key that made the signature of a call; 0 before
  device,    \* the open app, whether it is outdated or in test mode, the lock
  \* history
  switches,
  checkedAt, \* switches when the call has last read the version
  signedIn   \* the device and the number of switches when a call was signed

calls == <<asked, goal, step, pubkeys, accounts, signature>>
history == <<switches, checkedAt, signedIn>>
vars == <<calls, device, history>>

Devices == [app : {"Cosmos", "other"}, outdated : BOOLEAN, test : BOOLEAN, locked : BOOLEAN]

Init ==
  /\ asked \in [Calls -> 0..Paths]
  /\ goal = [c \in Calls |-> "key"]
  /\ step = [c \in Calls |-> "idle"]
  /\ pubkeys = [c \in Calls |-> <<>>]
  /\ accounts = <<>>
  /\ signature = [c \in Calls |-> 0]
  /\ device \in {d \in Devices : ~d.locked /\ d.app = "Cosmos"}
  /\ switches = 0
  /\ checkedAt = [c \in Calls |-> 0]
  /\ signedIn = [c \in Calls |-> [device |-> device, switches |-> 0]]

Goto(c, s) == step' = [step EXCEPT ![c] = s]
-----------------------------------------------------------------------------
\* Accounts that are known are not asked for again.
Invoke(c) ==
  /\ step[c] = "idle"
  /\ Goto(c, IF accounts # <<>> /\ asked[c] = 0 THEN "done" ELSE "app")
  /\ goal' = [goal EXCEPT ![c] = IF accounts # <<>> THEN "sign" ELSE "key"]
  /\ UNCHANGED <<asked, pubkeys, accounts, signature, device, history>>

\* A locked device and one without the app are errors, to every command.
AppIsOpen == ~device.locked /\ device.app = "Cosmos"

\* verifyCosmosAppIsOpen, before the version is read and again after it.
CheckApp(c) ==
  /\ step[c] \in {"app", "again"}
  /\ Goto(c, IF ~AppIsOpen THEN "failed" ELSE IF step[c] = "app" THEN "version" ELSE "command")
  /\ UNCHANGED <<asked, goal, pubkeys, accounts, signature, device, history>>

\* Faulty: the mode is not looked at.
CheckVersionOnly(c) ==
  /\ step[c] = "version"
  /\ Goto(c, IF AppIsOpen /\ ~device.outdated THEN "again" ELSE "failed")
  /\ checkedAt' = [checkedAt EXCEPT ![c] = switches]
  /\ UNCHANGED <<asked, goal, pubkeys, accounts, signature, device, switches, signedIn>>

\* getVersion, verifyAppMode and verifyAppVersion.
CheckVersion(c) ==
  /\ step[c] = "version"
  /\ Goto(c, IF AppIsOpen /\ (device.test => testModeAllowed) /\ ~device.outdated THEN "again" ELSE "failed")
  /\ checkedAt' = [checkedAt EXCEPT ![c] = switches]
  /\ UNCHANGED <<asked, goal, pubkeys, accounts, signature, device, switches, signedIn>>

\* publicKey for the next path: getPubkeys goes through them one by one, with
\* all the checks for each.  The last one makes the accounts known.
GetKey(c) ==
  LET keys == Append(pubkeys[c], Len(pubkeys[c]) + 1) IN
  /\ step[c] = "command" /\ goal[c] = "key"
  /\ \/ /\ ~AppIsOpen /\ Goto(c, "failed")
        /\ UNCHANGED <<goal, pubkeys, accounts>>
     \/ /\ AppIsOpen /\ Len(keys) < Paths
        /\ pubkeys' = [pubkeys EXCEPT ![c] = keys]
        /\ Goto(c, "app")
        /\ UNCHANGED <<goal, accounts>>
     \/ /\ AppIsOpen /\ Len(keys) = Paths
        /\ pubkeys' = [pubkeys EXCEPT ![c] = keys]
        /\ accounts' = keys
        /\ Goto(c, IF asked[c] = 0 THEN "done" ELSE "app")
        /\ goal' = [goal EXCEPT ![c] = "sign"]
  /\ UNCHANGED <<asked, signature, device, history>>

\* sign with the path of the account, unless the user refuses.
Sign(c) ==
  /\ step[c] = "command" /\ goal[c] = "sign"
  /\ \/ Goto(c, "failed") /\ UNCHANGED <<signature, signedIn>>
     \/ /\ AppIsOpen
        /\ \E i \in DOMAIN accounts : accounts[i] = asked[c] /\ signature' = [signature EXCEPT ![c] = i]
        /\ signedIn' = [signedIn EXCEPT ![c] = [device |-> device, switches |-> switches]]
        /\ Goto(c, "done")
  /\ UNCHANGED <<asked, goal, pubkeys, accounts, device, switches, checkedAt>>

\* The user opens or closes an app, or locks or unlocks the device.
Switch ==
  /\ switches < MaxSwitches /\ switches' = switches + 1
  /\ device' \in Devices /\ device' # device
  /\ UNCHANGED <<calls, checkedAt, signedIn>>

Handle(c) == CheckApp(c) \/ CheckVersion(c) \/ GetKey(c) \/ Sign(c)

Next == Switch \/ \E c \in Calls : Invoke(c) \/ Handle(c)

Spec == Init /\ [][Next]_vars

(* The device and its user answer.                                           *)
FairSpec == Spec /\ \A c \in Calls : WF_vars(Handle(c))
-----------------------------------------------------------------------------
(* A signature is made with the key of the account that was asked for,       *)
(* however calls overlap; and by an app in the mode and version that the     *)
(* signer accepts, unless the user switched after the version was read.      *)
SignaturesAreChecked ==
  \A c \in Calls : signature[c] # 0 =>
    /\ signature[c] = asked[c] /\ accounts = [i \in 1..Paths |-> i]
    /\ checkedAt[c] = signedIn[c].switches =>
         ~signedIn[c].device.outdated /\ (signedIn[c].device.test => testModeAllowed)
=============================================================================
