---------------------------- MODULE TokenLedger ----------------------------
(***************************************************************************)
(* What an enrolment token promises, without requests, cancellation or       *)
(* restarts: a minted token can be taken by one enrolment at a time, is       *)
(* given back only if nothing was issued for it, and yields one certificate.  *)
(***************************************************************************)
EXTENDS Naturals

CONSTANT Token

VARIABLES
  minted,     \* tokens that exist
  available,  \* tokens an enrolment may take
  certs       \* certificates issued for each token

ledger == <<minted, available, certs>>

LedgerInit == minted = {} /\ available = {} /\ certs = [t \in Token |-> 0]

Mint(t) ==
  /\ t \notin minted
  /\ minted' = minted \cup {t} /\ available' = available \cup {t}
  /\ UNCHANGED certs

Take(t) ==
  /\ t \in available
  /\ available' = available \ {t}
  /\ UNCHANGED <<minted, certs>>

GiveBack(t) ==
  /\ t \in minted \ available /\ certs[t] = 0
  /\ available' = available \cup {t}
  /\ UNCHANGED <<minted, certs>>

Issue(t) ==
  /\ t \in minted \ available /\ certs[t] = 0
  /\ certs' = [certs EXCEPT ![t] = 1]
  /\ UNCHANGED <<minted, available>>

LedgerNext == \E t \in Token : Mint(t) \/ Take(t) \/ GiveBack(t) \/ Issue(t)

LedgerSpec == LedgerInit /\ [][LedgerNext]_ledger
=============================================================================
