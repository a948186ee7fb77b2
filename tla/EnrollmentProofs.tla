-------------------------- MODULE EnrollmentProofs --------------------------
(***************************************************************************)
(* A token yields one certificate, for every number of tokens, attempts and   *)
(* machines, and the token table implements TokenLedger.                      *)
(***************************************************************************)
EXTENDS Enrollment, FiniteSetTheorems, TLAPS

\* A signed attempt keeps its token marked used: what ReleaseClaim must never undo.
Spent == \A r \in issued : used[tok[r]]

\* Nothing is signed for an attempt that may still sign or release, and only a signed one
\* is answered with 201.
SignedOnce ==
  \A r \in Request : /\ pc[r] \in {"idle", "claim", "sign", "release"} => r \notin issued
                     /\ pc[r] = "respond" => r \in issued

\* A claimed row exists.
UsedExists == \A t \in Token : used[t] => t \in exists

\* Replies and stored keys stem from signed attempts of the machine.
KeysSigned ==
  /\ reply \subseteq issued
  /\ \A a \in Agent : key[a] # NoRequest => key[a] \in issued /\ AgentOf[key[a]] = a

TokInv == TypeOK /\ SingleUse /\ ClaimExclusive /\ Spent /\ SignedOnce /\ UsedExists
EnrollInv == TokInv /\ KeysSigned

\* Every action of the request, the tokens and the server keeps the token invariant.
LEMMA TokInvStep == TokInv /\ [Next]_vars => TokInv'
<1> SUFFICES ASSUME TokInv, [Next]_vars PROVE TokInv' OBVIOUS
<1> USE EnrollmentAssumption
<1>a. TypeOK /\ SingleUse /\ ClaimExclusive /\ Spent /\ SignedOnce /\ UsedExists BY DEF TokInv
<1>1. ASSUME UNCHANGED <<exists, used, pc, tok, issued>>, TypeOK' PROVE TokInv'
  BY <1>a, <1>1 DEF TokInv, SingleUse, ClaimExclusive, Holds, Spent, SignedOnce, UsedExists
<1>2. CASE UNCHANGED vars BY <1>2, <1>1, <1>a DEF vars, TypeOK
<1>3. ASSUME NEW t \in Token, RunCreateEnrollmentToken(t) PROVE TokInv'
  BY <1>a, <1>3 DEF RunCreateEnrollmentToken, agentVars, TokInv, TypeOK, SingleUse, ClaimExclusive, Holds, Spent,
     SignedOnce, UsedExists
<1>4. ASSUME NEW t \in Token, Expire(t) PROVE TokInv'
  BY <1>a, <1>4, <1>1 DEF Expire, agentVars, TypeOK
<1>5. ASSUME NEW r \in Request, Post(r) PROVE TokInv'
  BY <1>a, <1>5 DEF Post, answer, agentVars, TokInv, TypeOK, SingleUse, ClaimExclusive, Holds, Spent, SignedOnce,
     UsedExists
<1>6. ASSUME NEW r \in Request, Cancel(r) PROVE TokInv'
  BY <1>a, <1>6, <1>1 DEF Cancel, agentVars, TypeOK
<1>7. ASSUME NEW r \in Request, Claim(r) PROVE TokInv'
  <2>1. TypeOK' BY <1>a, <1>7 DEF Claim, answer, agentVars, TypeOK
  <2>2. /\ UNCHANGED <<exists, tok, issued>> /\ pc[r] = "claim" /\ tok[r] \in Token
        /\ \A q \in Request \ {r} : pc'[q] = pc[q]
    BY <1>a, <1>7 DEF Claim, answer, TypeOK
  <2>3. CASE UNCHANGED used /\ pc'[r] = "done"
    BY <1>a, <2>1, <2>2, <2>3 DEF TokInv, SingleUse, ClaimExclusive, Holds, Spent, SignedOnce, UsedExists
  <2>4. CASE /\ Claimable(tok[r]) /\ used' = [used EXCEPT ![tok[r]] = TRUE]
             /\ pc'[r] \in {"sign", "done"}
    <3>1. \A t \in Token : used'[t] = (used[t] \/ t = tok[r]) BY <1>a, <2>4 DEF TypeOK
    <3>2. \A q \in Request : Holds(q) \/ q \in issued => tok[q] # tok[r]
      BY <1>a, <2>4 DEF Claimable, ClaimExclusive, Spent, TypeOK
    <3>3. \A q \in Request : Holds(q)' => Holds(q) \/ q = r BY <2>2 DEF Holds
    <3>4. ClaimExclusive' BY <1>a, <3>1, <3>2, <3>3, <2>2 DEF ClaimExclusive, TypeOK
    <3>5. SignedOnce' BY <1>a, <2>2, <2>4 DEF SignedOnce
    <3>6. UsedExists' BY <1>a, <3>1, <2>2, <2>4 DEF UsedExists, Claimable
    <3>7. SingleUse' /\ Spent' BY <1>a, <3>1, <2>2 DEF SingleUse, Spent, TypeOK
    <3> QED BY <2>1, <3>4, <3>5, <3>6, <3>7 DEF TokInv
  <2> QED BY <1>a, <1>7, <2>3, <2>4 DEF Claim, answer, TypeOK
<1>8. ASSUME NEW r \in Request, Sign(r) PROVE TokInv'
  <2>1. TypeOK' BY <1>a, <1>8 DEF Sign, agentVars, TypeOK
  <2>2. /\ UNCHANGED <<exists, used, tok>> /\ pc[r] = "sign"
        /\ \A q \in Request \ {r} : pc'[q] = pc[q]
        /\ \/ issued' = issued /\ pc'[r] = "release"
           \/ issued' = issued \cup {r} /\ pc'[r] = "respond"
    BY <1>a, <1>8 DEF Sign, TypeOK
  <2> QED BY <1>a, <2>1, <2>2 DEF TokInv, TypeOK, SingleUse, ClaimExclusive, Holds, Spent, SignedOnce, UsedExists
<1>9. ASSUME NEW r \in Request, Release(r) PROVE TokInv'
  <2>1. TypeOK' BY <1>a, <1>9 DEF Release, answer, agentVars, TypeOK
  <2>2. /\ UNCHANGED <<exists, tok, issued>> /\ pc[r] = "release" /\ pc'[r] = "done" /\ tok[r] \in Token
        /\ \A q \in Request \ {r} : pc'[q] = pc[q]
        /\ \A t \in Token : t # tok[r] => used'[t] = used[t]
        /\ \A t \in Token : used'[t] => used[t]
    BY <1>a, <1>9 DEF Release, answer, TypeOK
  <2>3. \A q \in Request \ {r} : Holds(q) \/ q \in issued => tok[q] # tok[r]
    BY <1>a, <2>2 DEF ClaimExclusive, Holds
  <2>4. r \notin issued BY <1>a, <2>2 DEF SignedOnce
  <2> QED BY <1>a, <2>1, <2>2, <2>3, <2>4 DEF TokInv, TypeOK, SingleUse, ClaimExclusive, Holds, Spent, SignedOnce,
     UsedExists
<1>10. ASSUME NEW r \in Request, Respond(r) PROVE TokInv'
  BY <1>a, <1>10 DEF Respond, answer, TokInv, TypeOK, SingleUse, ClaimExclusive, Holds, Spent, SignedOnce,
     UsedExists
<1>11. CASE ServerStop
  BY <1>a, <1>11 DEF ServerStop, agentVars, TokInv, TypeOK, SingleUse, ClaimExclusive, Holds, Spent, SignedOnce,
     UsedExists
<1>12. ASSUME NEW a \in Agent, WriteKey(a) \/ WriteCert(a) \/ WriteRoot(a) \/ AgentDies(a) PROVE TokInv'
  <2>1. UNCHANGED serverVars BY <1>12 DEF WriteKey, WriteCert, WriteRoot, AgentDies
  <2>2. /\ key' \in [Agent -> Request \cup {NoRequest}] /\ crt' \in [Agent -> Request \cup {NoRequest}]
        /\ root' \in [Agent -> Request \cup {NoRequest}] /\ reply' \subseteq Request
        /\ store' \in [Agent -> {"key", "crt", "root"}]
    BY <1>a, <1>12 DEF WriteKey, WriteCert, WriteRoot, AgentDies, endStore, TypeOK
  <2> QED BY <1>a, <1>1, <2>1, <2>2 DEF serverVars, TypeOK
<1> QED BY <1>2, <1>3, <1>4, <1>5, <1>6, <1>7, <1>8, <1>9, <1>10, <1>11, <1>12 DEF Next

\* Nothing is stored that was not signed.
LEMMA KeysStep == EnrollInv /\ [Next]_vars => KeysSigned'
<1> SUFFICES ASSUME EnrollInv, [Next]_vars PROVE KeysSigned' OBVIOUS
<1> USE EnrollmentAssumption
<1>a. TypeOK /\ SignedOnce /\ KeysSigned BY DEF EnrollInv, TokInv
<1>1. CASE UNCHANGED <<reply, key>> /\ issued \subseteq issued'
  BY <1>a, <1>1 DEF KeysSigned
<1>2. ASSUME NEW r \in Request, Respond(r) PROVE KeysSigned'
  BY <1>a, <1>2 DEF Respond, KeysSigned, SignedOnce
<1>3. ASSUME NEW a \in Agent, WriteKey(a) PROVE KeysSigned'
  <2>1. PICK r \in reply : AgentOf[r] = a /\ key' \in {[key EXCEPT ![a] = r], [key EXCEPT ![a] = NoRequest]}
                           /\ reply' \subseteq reply
    BY <1>3 DEF WriteKey, endStore
  <2>2. issued' = issued BY <1>3 DEF WriteKey, serverVars
  <2> QED BY <1>a, <2>1, <2>2 DEF KeysSigned, TypeOK
<1>4. ASSUME NEW a \in Agent, WriteCert(a) \/ WriteRoot(a) \/ AgentDies(a) PROVE KeysSigned'
  <2>1. key' = key /\ reply' \subseteq reply /\ issued' = issued
    BY <1>4 DEF WriteCert, WriteRoot, AgentDies, endStore, serverVars
  <2> QED BY <1>a, <2>1 DEF KeysSigned
<1>5. CASE UNCHANGED vars BY <1>5, <1>1 DEF vars
<1>6. CASE \E t \in Token : RunCreateEnrollmentToken(t) \/ Expire(t)
  BY <1>6, <1>1 DEF RunCreateEnrollmentToken, Expire, agentVars
<1>7. CASE \E r \in Request : Post(r) \/ Cancel(r) \/ Claim(r) \/ Sign(r) \/ Release(r)
  BY <1>7, <1>1 DEF Post, Cancel, Claim, Sign, Release, agentVars
<1>8. CASE ServerStop BY <1>8, <1>1 DEF ServerStop, agentVars
<1> QED BY <1>2, <1>3, <1>4, <1>5, <1>6, <1>7, <1>8 DEF Next

\* The inductive invariant holds in every reachable state of the enrolment service.
THEOREM EnrollInvariant == Spec => []EnrollInv
<1>1. Init => EnrollInv
  BY EnrollmentAssumption DEF Init, EnrollInv, TokInv, TypeOK, SingleUse, ClaimExclusive, Holds, Spent, SignedOnce,
     UsedExists, KeysSigned
<1>2. EnrollInv /\ [Next]_vars => EnrollInv' BY TokInvStep, KeysStep DEF EnrollInv
<1> QED BY <1>1, <1>2, PTL DEF Spec

\* The variables of the enrolment service keep their types; ClaimByPresentationHash and
\* ReleaseClaim together let at most one attempt per token reach the CA, for any number of racing,
\* failing, cancelled and cut-off attempts; and the release of one attempt never frees a row
\* another attempt holds or was signed for.
THEOREM TokensAreSafe == Spec => []TokenInv
<1>1. EnrollInv => TokenInv BY DEF EnrollInv, TokInv, TokenInv
<1> QED BY <1>1, EnrollInvariant, PTL

\* Material that opens mutual TLS was signed for this machine, and its token stays spent.
THEOREM MaterialIsSigned == Spec => []UsableMaterial
<1>1. EnrollInv => UsableMaterial
  BY EnrollmentAssumption DEF EnrollInv, TokInv, Spent, KeysSigned, UsableMaterial, Loads, TypeOK
<1> QED BY <1>1, EnrollInvariant, PTL

\* What a machine is storing is a reply it received and has not stored yet.
Storing == \A a \in Agent : store[a] # "key" => key[a] \in reply /\ AgentOf[key[a]] = a

\* Every step keeps that, since a machine only drops replies to its own attempts.
LEMMA StoringStep == EnrollInv /\ Storing /\ [Next]_vars => Storing'
<1> SUFFICES ASSUME EnrollInv, Storing, [Next]_vars PROVE Storing' OBVIOUS
<1> USE EnrollmentAssumption
<1>a. TypeOK BY DEF EnrollInv, TokInv
<1>1. CASE UNCHANGED <<store, key>> /\ reply \subseteq reply'  BY <1>1 DEF Storing
<1>2. ASSUME NEW a \in Agent, WriteKey(a) PROVE Storing'
  <2>1. PICK r \in reply :
          /\ AgentOf[r] = a /\ store[a] = "key"
          /\ \/ key' = [key EXCEPT ![a] = r] /\ reply' = reply
             \/ store' = [store EXCEPT ![a] = "key"] /\ reply' = reply \ {r} /\ key' = [key EXCEPT ![a] = NoRequest]
          /\ \E l \in {"crt", "key"} : store' = [store EXCEPT ![a] = l]
    BY <1>2 DEF WriteKey, endStore
  <2>2. \A b \in Agent \ {a} : store'[b] = store[b] /\ key'[b] = key[b]  BY <1>a, <2>1 DEF TypeOK
  <2>3. \A b \in Agent \ {a} : store'[b] # "key" => key'[b] \in reply' /\ AgentOf[key'[b]] = b
    BY <2>1, <2>2 DEF Storing
  <2>4. store'[a] # "key" => key'[a] \in reply' /\ AgentOf[key'[a]] = a  BY <1>a, <2>1 DEF TypeOK
  <2> QED BY <2>3, <2>4 DEF Storing
<1>3. ASSUME NEW a \in Agent, WriteCert(a) \/ WriteRoot(a) \/ AgentDies(a) PROVE Storing'
  <2>1. /\ key' = key /\ store[a] # "key"
        /\ \/ reply' = reply /\ store' = [store EXCEPT ![a] = "root"]
           \/ reply' = reply \ {key[a]} /\ store' = [store EXCEPT ![a] = "key"]
    BY <1>3 DEF WriteCert, WriteRoot, AgentDies, endStore
  <2>2. \A b \in Agent \ {a} : store'[b] = store[b]  BY <1>a, <2>1 DEF TypeOK
  <2>3. \A b \in Agent \ {a} : store'[b] # "key" => key'[b] \in reply' /\ AgentOf[key'[b]] = b
    BY <2>1, <2>2 DEF Storing
  <2>4. store'[a] # "key" => key'[a] \in reply' /\ AgentOf[key'[a]] = a  BY <1>a, <2>1 DEF TypeOK, Storing
  <2> QED BY <2>3, <2>4 DEF Storing
<1>4. CASE UNCHANGED vars  BY <1>4, <1>1 DEF vars
<1>5. CASE \E t \in Token : RunCreateEnrollmentToken(t) \/ Expire(t)
  BY <1>5, <1>1 DEF RunCreateEnrollmentToken, Expire, agentVars
<1>6. CASE \E r \in Request : Post(r) \/ Cancel(r) \/ Claim(r) \/ Sign(r) \/ Release(r) \/ Respond(r)
  BY <1>6, <1>1 DEF Post, Cancel, Claim, Sign, Release, Respond, agentVars
<1>7. CASE ServerStop  BY <1>7, <1>1 DEF ServerStop, agentVars
<1> QED BY <1>2, <1>3, <1>4, <1>5, <1>6, <1>7 DEF Next

\* A machine that can open mutual TLS loses that only while it stores a certificate it was
\* issued: no refused, failed, cancelled or unanswered attempt touches the files of Enroll.
THEOREM IdentityStays == Spec => IdentityKept
<1> DEFINE I == EnrollInv /\ Storing
<1> DEFINE Kept == [\A a \in Agent : Loads(a) /\ ~Loads(a)' => \E r \in reply \cap issued : AgentOf[r] = a]_vars
<1>1. Init => Storing  BY DEF Init, Storing
<1>2. I /\ [Next]_vars => Kept
  <2> SUFFICES ASSUME EnrollInv, Storing, Next, NEW a \in Agent, Loads(a), ~Loads(a)'
               PROVE  \E r \in reply \cap issued : AgentOf[r] = a
    OBVIOUS
  <2>1. TypeOK /\ reply \subseteq issued  BY DEF EnrollInv, TokInv, KeysSigned
  <2>2. ~(key'[a] = key[a] /\ crt'[a] = crt[a] /\ root'[a] = root[a])  BY DEF Loads
  <2>3. ASSUME NEW b \in Agent, WriteKey(b) \/ WriteCert(b) \/ WriteRoot(b) \/ AgentDies(b)
        PROVE  \E r \in reply \cap issued : AgentOf[r] = a
    <3>1. /\ key' = key \/ \E k : key' = [key EXCEPT ![b] = k]
          /\ crt' = crt \/ \E k : crt' = [crt EXCEPT ![b] = k]
          /\ root' = root \/ \E k : root' = [root EXCEPT ![b] = k]
      BY <2>3 DEF WriteKey, WriteCert, WriteRoot, AgentDies
    <3>2. b = a  BY <2>1, <2>2, <3>1 DEF TypeOK
    <3>3. CASE WriteKey(b)  BY <2>1, <3>2, <3>3 DEF WriteKey
    <3>4. CASE WriteCert(b) \/ WriteRoot(b) \/ AgentDies(b)
      <4>1. store[a] # "key"  BY <3>2, <3>4 DEF WriteCert, WriteRoot, AgentDies
      <4> QED BY <2>1, <4>1 DEF Storing
    <3> QED BY <2>3, <3>3, <3>4
  <2>4. ASSUME UNCHANGED agentVars PROVE FALSE  BY <2>2, <2>4 DEF agentVars
  <2>5. CASE \E t \in Token : RunCreateEnrollmentToken(t) \/ Expire(t)
    BY <2>4, <2>5 DEF RunCreateEnrollmentToken, Expire
  <2>6. CASE \E r \in Request : Post(r) \/ Cancel(r) \/ Claim(r) \/ Sign(r) \/ Release(r) \/ Respond(r)
    <3>1. UNCHANGED <<key, crt, root>>
      BY <2>6 DEF Post, Cancel, Claim, Sign, Release, Respond, agentVars
    <3> QED BY <2>2, <3>1
  <2>7. CASE ServerStop  BY <2>4, <2>7 DEF ServerStop
  <2> QED BY <2>3, <2>5, <2>6, <2>7 DEF Next
<1>3. Spec => []Storing  BY <1>1, StoringStep, EnrollInvariant, PTL DEF Spec
<1> QED BY <1>2, <1>3, EnrollInvariant, PTL DEF Spec, IdentityKept

\* The refinement step: the claim takes, the release gives back, the signature issues.
LEMMA LedgerStep == EnrollInv /\ [Next]_vars => [Ledger!LedgerNext]_(Ledger!ledger)
<1> DEFINE C(t) == {r \in issued : tok[r] = t}
           avail == {t \in exists : ~used[t]}
           certs == [t \in Token |-> Cardinality(C(t))]
<1> SUFFICES ASSUME EnrollInv, [Next]_vars PROVE [Ledger!LedgerNext]_(Ledger!ledger) OBVIOUS
<1> USE EnrollmentAssumption
<1>a. TypeOK /\ ClaimExclusive /\ Spent /\ SignedOnce /\ UsedExists BY DEF EnrollInv, TokInv
<1>b. ASSUME UNCHANGED <<exists, used, tok, issued>> PROVE UNCHANGED Ledger!ledger
  BY <1>b DEF Ledger!ledger
<1>c. ASSUME UNCHANGED <<tok, issued>> PROVE certs' = certs BY <1>c
<1>1. CASE UNCHANGED vars BY <1>1, <1>b DEF vars
<1>2. ASSUME NEW t \in Token, RunCreateEnrollmentToken(t) PROVE Ledger!LedgerNext
  <2>1. exists' = exists \cup {t} /\ t \notin exists /\ UNCHANGED <<used, tok, issued>>
    BY <1>2 DEF RunCreateEnrollmentToken
  <2>2. avail' = avail \cup {t} BY <2>1, <1>a DEF UsedExists
  <2>3. Ledger!Mint(t) BY <2>1, <2>2, <1>c DEF Ledger!Mint
  <2> QED BY <2>3 DEF Ledger!LedgerNext
<1>3. ASSUME NEW r \in Request, Claim(r) PROVE [Ledger!LedgerNext]_(Ledger!ledger)
  <2>1. UNCHANGED <<exists, tok, issued>> /\ tok[r] \in Token BY <1>a, <1>3 DEF Claim, TypeOK
  <2>2. CASE UNCHANGED used BY <2>1, <2>2, <1>b
  <2>3. CASE Claimable(tok[r]) /\ used' = [used EXCEPT ![tok[r]] = TRUE]
    <3>u. PICK u \in Token : u = tok[r] BY <2>1
    <3>1. \A t \in Token : used'[t] = (used[t] \/ t = tok[r]) BY <1>a, <2>3 DEF TypeOK
    <3>2. avail' = avail \ {tok[r]} /\ tok[r] \in avail
      BY <1>a, <2>1, <2>3, <3>1 DEF Claimable, TypeOK
    <3>3. Ledger!Take(u) BY <3>u, <2>1, <3>2, <1>c DEF Ledger!Take
    <3>9. Ledger!LedgerNext BY <3>3 DEF Ledger!LedgerNext
    <3> QED BY <3>9
  <2> QED BY <1>3, <2>2, <2>3 DEF Claim
<1>4. ASSUME NEW r \in Request, Sign(r) PROVE [Ledger!LedgerNext]_(Ledger!ledger)
  <2>1. UNCHANGED <<exists, used, tok>> /\ tok[r] \in Token /\ pc[r] = "sign" BY <1>a, <1>4 DEF Sign, TypeOK
  <2>2. CASE UNCHANGED issued BY <2>1, <2>2, <1>b
  <2>3. CASE issued' = issued \cup {r}
    <3>u. PICK u \in Token : u = tok[r] BY <2>1
    <3>1. tok[r] \in exists \ avail /\ avail' = avail
      BY <1>a, <2>1 DEF ClaimExclusive, Holds, UsedExists, TypeOK
    <3>2. C(tok[r]) = {} BY <1>a, <2>1 DEF ClaimExclusive, Holds, SignedOnce, TypeOK
    <3>3. C(tok[r])' = {r} BY <2>1, <2>3, <3>2
    <3>4. \A t \in Token : t # tok[r] => C(t)' = C(t) BY <2>1, <2>3
    <3>5. Cardinality({}) = 0 /\ Cardinality({r}) = 1 BY FS_EmptySet, FS_Singleton
    <3>6. certs' = [certs EXCEPT ![tok[r]] = 1]
      <4>1. certs'[tok[r]] = 1 BY <3>3, <3>5, <2>1
      <4>2. \A t \in Token : t # tok[r] => certs'[t] = certs[t] BY <3>4
      <4> HIDE DEF C
      <4> QED BY <4>1, <4>2
    <3>7. certs[tok[r]] = 0 BY <3>2, <3>5, <2>1
    <3>8. Ledger!Issue(u) BY <3>u, <2>1, <3>1, <3>6, <3>7 DEF Ledger!Issue
    <3>9. Ledger!LedgerNext BY <3>8 DEF Ledger!LedgerNext
    <3> QED BY <3>9
  <2> QED BY <1>4, <2>2, <2>3 DEF Sign
<1>5. ASSUME NEW r \in Request, Release(r) PROVE [Ledger!LedgerNext]_(Ledger!ledger)
  <2>1. UNCHANGED <<exists, tok, issued>> /\ tok[r] \in Token /\ pc[r] = "release"
    BY <1>a, <1>5 DEF Release, TypeOK
  <2>2. CASE UNCHANGED used BY <2>1, <2>2, <1>b
  <2>3. CASE used' = [used EXCEPT ![tok[r]] = FALSE]
    <3>u. PICK u \in Token : u = tok[r] BY <2>1
    <3>1. used[tok[r]] /\ tok[r] \in exists BY <1>a, <2>1 DEF ClaimExclusive, Holds, UsedExists
    <3>2. \A t \in Token : used'[t] = (used[t] /\ t # tok[r]) BY <1>a, <2>3 DEF TypeOK
    <3>7. exists' = exists /\ exists \subseteq Token BY <1>a, <2>1 DEF TypeOK
    <3>8. avail' = avail \cup {tok[r]} BY <3>1, <3>2, <3>7
    <3>3. avail' = avail \cup {tok[r]} /\ tok[r] \in exists \ avail BY <3>1, <3>8
    <3>4. C(tok[r]) = {} BY <1>a, <2>1 DEF ClaimExclusive, Holds, SignedOnce, TypeOK
    <3>5. certs[tok[r]] = 0 BY <3>4, <2>1, FS_EmptySet
    <3>6. Ledger!GiveBack(u) BY <3>u, <2>1, <3>3, <3>5, <1>c DEF Ledger!GiveBack
    <3>9. Ledger!LedgerNext BY <3>6 DEF Ledger!LedgerNext
    <3> QED BY <3>9
  <2> QED BY <1>5, <2>2, <2>3 DEF Release
<1>6. CASE \E t \in Token : Expire(t) BY <1>6, <1>b DEF Expire
<1>7. CASE \E r \in Request : Post(r) \/ Cancel(r) \/ Respond(r)
  BY <1>7, <1>b DEF Post, Cancel, Respond
<1>8. CASE ServerStop BY <1>8, <1>b DEF ServerStop
<1>9. CASE \E a \in Agent : WriteKey(a) \/ WriteCert(a) \/ WriteRoot(a) \/ AgentDies(a)
  BY <1>9, <1>b DEF WriteKey, WriteCert, WriteRoot, AgentDies, serverVars
<1> QED BY <1>1, <1>2, <1>3, <1>4, <1>5, <1>6, <1>7, <1>8, <1>9 DEF Next

\* The token table, driven by ProcessEnroll, implements the ledger.
THEOREM TableImplementsLedger == Spec => ImplementsLedger
<1>1. Init => Ledger!LedgerInit
  <2> SUFFICES ASSUME Init PROVE Ledger!LedgerInit OBVIOUS
  <2>1. exists = {} /\ issued = {} BY DEF Init
  <2>2. \A t \in Token : {r \in issued : tok[r] = t} = {} BY <2>1
  <2>3. \A t \in Token : Cardinality({r \in issued : tok[r] = t}) = 0 BY <2>2, FS_EmptySet
  <2> QED BY <2>1, <2>3 DEF Ledger!LedgerInit
<1>2. EnrollInv /\ [Next]_vars => [Ledger!LedgerNext]_(Ledger!ledger) BY LedgerStep
<1> QED BY <1>1, <1>2, EnrollInvariant, PTL DEF Spec, ImplementsLedger, Ledger!LedgerSpec
=============================================================================
