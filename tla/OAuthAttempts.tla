---------------------------- MODULE OAuthAttempts ---------------------------
(***************************************************************************)
(* What the Copilot authorization of an account promises, whatever queue,  *)
(* browser and network lie between the start of an authorization and its   *)
(* token: authorizations are numbered in the order they start, an account  *)
(* waits for one at most, and only the one it waits for can give it a      *)
(* credential, once.                                                       *)
(***************************************************************************)
EXTENDS Naturals

CONSTANTS
  Identities,  \* the accounts
  Imported     \* stands for a token an operator imported; no authorization's number

VARIABLES
  last,       \* the number of the last authorization that was started
  awaited,    \* the authorization an account waits for, 0 when it is none
  credential  \* what the account's usable token came from: an authorization,
              \* Imported, or 0 when it has no usable token

attempts == <<last, awaited, credential>>

Init == /\ last = 0
        /\ awaited = [i \in Identities |-> 0]
        /\ credential = [i \in Identities |-> 0]

Assign(i, wanted, from) ==
  /\ awaited' = [awaited EXCEPT ![i] = wanted]
  /\ credential' = [credential EXCEPT ![i] = from]

\* A new authorization takes the place of the one before, and of its credential.
Start(i) == last' = last + 1 /\ Assign(i, last', 0)

\* An authorization that starts for an account that does not wait for it.
StartInVain == last' = last + 1 /\ UNCHANGED <<awaited, credential>>

Grant(i) == awaited[i] # 0 /\ Assign(i, 0, awaited[i]) /\ UNCHANGED last

Import(i) == Assign(i, 0, Imported) /\ UNCHANGED last

Withdraw(i) == Assign(i, 0, 0) /\ UNCHANGED last

Next == StartInVain \/ \E i \in Identities : Start(i) \/ Grant(i) \/ Import(i) \/ Withdraw(i)

Spec == Init /\ [][Next]_attempts
=============================================================================
