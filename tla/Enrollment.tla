----------------------------- MODULE Enrollment -----------------------------
(***************************************************************************)
(* POST /v1/enroll: handlePublicEnroll and EnrollmentCoordinator.ProcessEnroll *)
(* around the enrollment_tokens table, the embedded CA's signing call, and     *)
(* the agent that stores what it receives.  A request is one HTTP attempt with *)
(* its own key pair; its context ends when the client goes away or the server  *)
(* stops.  Every SQL statement is one step.                                   *)
(***************************************************************************)
EXTENDS Naturals, FiniteSets

CONSTANTS
  Token,     \* enrollment_tokens rows
  Request,   \* POST /v1/enroll attempts
  Agent,     \* machines that enrol
  AgentOf,   \* the machine an attempt is made from
  NoRequest, \* no file on the agent's disk
  DbFaults,  \* TRUE: an SQL statement may fail although its context lives
  MaxStops   \* bound: server stops

ASSUME EnrollmentAssumption ==
  /\ AgentOf \in [Request -> Agent]
  /\ NoRequest \notin Request
  /\ DbFaults \in BOOLEAN
  /\ MaxStops \in Nat

VARIABLES
  exists,   \* token rows that were inserted
  used,     \* enrollment_tokens.is_used
  expired,  \* expires_at <= now()
  pc,       \* ProcessEnroll of a request
  tok,      \* the token row a request presents
  dead,     \* requests whose context is done
  issued,   \* requests the CA signed a certificate for
  outcome,  \* what the handler answered: "none", "created", "invalid", "badCSR", "signFailed", "error"
  reply,    \* requests whose 201 body reached the agent and is not stored yet
  store,    \* per agent: the file Enroll writes next, "key" when no enrolment is being stored
  key, crt, root, \* per agent: the attempt client.key, client.crt, root_ca.pem stem from
  stops     \* server stops so far

vars == <<exists, used, expired, pc, tok, dead, issued, outcome,
          reply, store, key, crt, root, stops>>
agentVars == <<reply, store, key, crt, root>>

Init ==
  /\ exists = {} /\ expired = {} /\ used = [t \in Token |-> FALSE]
  /\ pc = [r \in Request |-> "idle"]
  /\ tok \in [Request -> Token]
  /\ dead = {} /\ issued = {}
  /\ outcome = [r \in Request |-> "none"]
  /\ reply = {} /\ store = [a \in Agent |-> "key"]
  /\ key = [a \in Agent |-> NoRequest] /\ crt = key /\ root = key
  /\ stops = 0

\* The handler answers and the goroutine ends.
answer(r, o) ==
  /\ pc' = [pc EXCEPT ![r] = "done"]
  /\ outcome' = [outcome EXCEPT ![r] = o]

-----------------------------------------------------------------------------
(* Tokens                                                                   *)

RunCreateEnrollmentToken(t) ==
  /\ t \notin exists
  /\ exists' = exists \cup {t}
  /\ UNCHANGED <<used, expired, pc, tok, dead, issued, outcome, agentVars, stops>>

Expire(t) ==
  /\ t \in exists \ expired
  /\ expired' = expired \cup {t}
  /\ UNCHANGED <<exists, used, pc, tok, dead, issued, outcome, agentVars, stops>>

\* WHERE is_used = false AND expires_at > now()
Claimable(t) == t \in exists /\ ~used[t] /\ t \notin expired

-----------------------------------------------------------------------------
(* ProcessEnroll                                                            *)

\* Body, token and CSR are validated before anything is claimed.
Post(r) ==
  /\ pc[r] = "idle" /\ r \notin dead
  /\ \/ pc' = [pc EXCEPT ![r] = "claim"] /\ UNCHANGED outcome
     \/ answer(r, "badCSR")
  /\ UNCHANGED <<exists, used, expired, tok, dead, issued, agentVars, stops>>

\* The request's context ends: the client disconnects or times out.
Cancel(r) ==
  /\ pc[r] \notin {"idle", "done"} /\ r \notin dead
  /\ dead' = dead \cup {r}
  /\ UNCHANGED <<exists, used, expired, pc, tok, issued, outcome, agentVars, stops>>

\* Mutant: the UPDATE has lost its is_used = false condition.
ClaimBlind(r) ==
  /\ pc[r] = "claim" /\ tok[r] \in exists
  /\ used' = [used EXCEPT ![tok[r]] = TRUE] /\ pc' = [pc EXCEPT ![r] = "sign"]
  /\ UNCHANGED <<exists, expired, tok, dead, issued, outcome, agentVars, stops>>

\* ClaimByPresentationHash: one conditional UPDATE.  When the context ends while it runs,
\* the statement may have committed although the caller gets an error.
Claim(r) ==
  LET t == tok[r] IN
  /\ pc[r] = "claim"
  /\ \/ /\ r \notin dead /\ Claimable(t)
        /\ used' = [used EXCEPT ![t] = TRUE]
        /\ pc' = [pc EXCEPT ![r] = "sign"] /\ UNCHANGED outcome
     \/ /\ r \notin dead /\ ~Claimable(t)
        /\ answer(r, "invalid") /\ UNCHANGED used
     \/ /\ r \in dead \/ DbFaults
        /\ answer(r, "error")
        /\ \/ UNCHANGED used
           \/ Claimable(t) /\ used' = [used EXCEPT ![t] = TRUE]
  /\ UNCHANGED <<exists, expired, tok, dead, issued, agentVars, stops>>

\* IssueClientCertificate gives up on a finished context and on keys it does not support.
\* What it returns is never empty, so BuildEnrollAPIResponse cannot fail after it.
Sign(r) ==
  /\ pc[r] = "sign"
  /\ \/ /\ r \notin dead
        /\ issued' = issued \cup {r}
        /\ pc' = [pc EXCEPT ![r] = "respond"]
     \/ pc' = [pc EXCEPT ![r] = "release"] /\ UNCHANGED issued
  /\ UNCHANGED <<exists, used, expired, tok, dead, outcome, agentVars, stops>>

\* ReleaseClaim runs under the request's own context.
Release(r) ==
  /\ pc[r] = "release"
  /\ answer(r, "signFailed")
  /\ \/ r \notin dead /\ used' = [used EXCEPT ![tok[r]] = FALSE]
     \/ (r \in dead \/ DbFaults) /\ UNCHANGED used
  /\ UNCHANGED <<exists, expired, tok, dead, issued, agentVars, stops>>

\* Mutant: the claim is also released when the answer cannot be delivered.
RespondReleases(r) ==
  /\ pc[r] = "respond"
  /\ answer(r, "created")
  /\ \/ r \notin dead /\ reply' = reply \cup {r} /\ UNCHANGED used
     \/ used' = [used EXCEPT ![tok[r]] = FALSE] /\ UNCHANGED reply
  /\ UNCHANGED <<exists, expired, tok, dead, issued, store, key, crt, root, stops>>

\* 201 with the chain and the root; nothing is undone when it does not reach the client.
Respond(r) ==
  /\ pc[r] = "respond"
  /\ answer(r, "created")
  /\ \/ r \notin dead /\ reply' = reply \cup {r}
     \/ UNCHANGED reply
  /\ UNCHANGED <<exists, used, expired, tok, dead, issued, store, key, crt, root, stops>>

\* The server process ends: requests in flight are gone, their rows stay as they are.
ServerStop ==
  /\ stops < MaxStops
  /\ stops' = stops + 1
  /\ dead' = dead \cup {r \in Request : pc[r] \notin {"idle", "done"}}
  /\ pc' = [r \in Request |-> IF pc[r] = "idle" THEN "idle" ELSE "done"]
  /\ UNCHANGED <<exists, used, expired, tok, issued, outcome, agentVars>>

-----------------------------------------------------------------------------
(* The agent's Enroll: client.key, client.crt, root_ca.pem, one after another.      *)
(* writeFileAtomic removes the old file before it renames the new one into place, so *)
(* an enrolment that dies there leaves no file.                                      *)

serverVars == <<exists, used, expired, pc, tok, dead, issued, outcome, stops>>

\* Enroll is over for good: the reply it was storing exists nowhere else.
endStore(a, r) ==
  /\ store' = [store EXCEPT ![a] = "key"]
  /\ reply' = reply \ {r}

\* Mutant: the key is stored as soon as it is generated, before the server answered.
WriteKeyEarly(a) ==
  /\ store[a] = "key"
  /\ \E r \in Request : /\ AgentOf[r] = a /\ pc[r] # "idle"
                       /\ key' = [key EXCEPT ![a] = r]
                       /\ store' = [store EXCEPT ![a] = "crt"]
  /\ UNCHANGED <<serverVars, reply, crt, root>>

WriteKey(a) ==
  /\ store[a] = "key"
  /\ \E r \in reply :
       /\ AgentOf[r] = a
       /\ \/ /\ key' = [key EXCEPT ![a] = r]
             /\ store' = [store EXCEPT ![a] = "crt"] /\ UNCHANGED reply
          \/ key' = [key EXCEPT ![a] = NoRequest] /\ endStore(a, r)
  /\ UNCHANGED <<serverVars, crt, root>>

WriteCert(a) ==
  /\ store[a] = "crt"
  /\ \/ /\ crt' = [crt EXCEPT ![a] = key[a]]
        /\ store' = [store EXCEPT ![a] = "root"] /\ UNCHANGED reply
     \/ crt' = [crt EXCEPT ![a] = NoRequest] /\ endStore(a, key[a])
  /\ UNCHANGED <<serverVars, key, root>>

WriteRoot(a) ==
  /\ store[a] = "root"
  /\ root' \in {[root EXCEPT ![a] = r] : r \in {key[a], NoRequest}}
  /\ endStore(a, key[a])
  /\ UNCHANGED <<serverVars, key, crt>>

\* The enrolling process dies between two writes.
AgentDies(a) ==
  /\ store[a] # "key"
  /\ endStore(a, key[a])
  /\ UNCHANGED <<serverVars, key, crt, root>>

-----------------------------------------------------------------------------

Next ==
  \/ \E t \in Token : RunCreateEnrollmentToken(t) \/ Expire(t)
  \/ \E r \in Request : \/ Post(r) \/ Cancel(r) \/ Claim(r) \/ Sign(r)
                        \/ Release(r) \/ Respond(r)
  \/ ServerStop
  \/ \E a \in Agent : WriteKey(a) \/ WriteCert(a) \/ WriteRoot(a) \/ AgentDies(a)

Spec == Init /\ [][Next]_vars

-----------------------------------------------------------------------------
(* Properties                                                               *)

TypeOK ==
  /\ exists \subseteq Token /\ expired \subseteq Token /\ used \in [Token -> BOOLEAN]
  /\ pc \in [Request -> {"idle", "claim", "sign", "release", "respond", "done"}]
  /\ tok \in [Request -> Token]
  /\ dead \subseteq Request /\ issued \subseteq Request /\ reply \subseteq Request
  /\ outcome \in [Request -> {"none", "created", "invalid", "badCSR", "signFailed", "error"}]
  /\ store \in [Agent -> {"key", "crt", "root"}]
  /\ {key, crt, root} \subseteq [Agent -> Request \cup {NoRequest}]
  /\ stops \in Nat

\* A token yields at most one certificate, whatever requests race for it, fail, are
\* cancelled or are cut off by a restart.
SingleUse == \A r, q \in issued : tok[r] = tok[q] => r = q

\* No request that still may sign or release shares its claim: the unconditional
\* ReleaseClaim of one attempt can never free a row another attempt holds or has used.
Holds(r) == pc[r] \in {"sign", "release"}
ClaimExclusive ==
  \A r \in Request : Holds(r) =>
    /\ used[tok[r]]
    /\ \A q \in Request \ {r} : Holds(q) \/ q \in issued => tok[q] # tok[r]

\* What every state of the token table satisfies: types, one certificate a token, and claims that
\* nobody shares.
TokenInv == TypeOK /\ SingleUse /\ ClaimExclusive

\* MTLSClientConfig: the key pair matches and the root is there.
Loads(a) == key[a] # NoRequest /\ key[a] = crt[a] /\ root[a] # NoRequest

\* Material the agent can open mutual TLS with stems from an attempt of this machine that
\* the CA signed, and the token of that attempt stays spent.
UsableMaterial ==
  \A a \in Agent : Loads(a) =>
    key[a] \in issued /\ used[tok[key[a]]] /\ AgentOf[key[a]] = a

\* A machine that can open mutual TLS loses that only while it stores a newer certificate
\* it was issued: refused, failed and unanswered re-enrolments leave its identity alone.
IdentityKept ==
  [][\A a \in Agent : Loads(a) /\ ~Loads(a)' =>
        \E r \in reply \cap issued : AgentOf[r] = a]_vars

\* The table, read through what it means for a token, behaves as the ledger promises.
Ledger == INSTANCE TokenLedger WITH
  minted    <- exists,
  available <- {t \in exists : ~used[t]},
  certs     <- [t \in Token |-> Cardinality({r \in issued : tok[r] = t})]

ImplementsLedger == Ledger!LedgerSpec
=============================================================================
