---------------------------- MODULE Deployments -----------------------------
(***************************************************************************)
(* Packages and their deployments: the rows operators edit, the requests and   *)
(* scheduled jobs that insert a deployment, dispatch it and then store what    *)
(* the dispatch answered, the agents that run it and report, and the read      *)
(* pump that stores the report.  A certificate is its number in the asset's    *)
(* history (0: not enrolled), a package the question whether it can be run.    *)
(***************************************************************************)
EXTENDS Naturals, FiniteSets, Sequences

CONSTANTS
  Pkg,       \* packages that may be created
  Asset,     \* devices of one operating system
  Handler,   \* requests in progress at once
  Job,       \* scheduled jobs in progress at once
  MaxDep,    \* bound: deployments
  MaxCert    \* bound: certificates of an asset

ASSUME DepAssumption == MaxDep \in Nat /\ MaxCert \in Nat \ {0} /\ Handler \cap Job = {}

VARIABLES
  pkg,    \* packages row: "none", "ok", "nocmd" (custom without install_cmd), "deleted"
  cert,   \* assets.cert_serial
  sess,   \* certificate of the agent's registered session, 0 for none
  dep,    \* deployments by number, with the command they sent
  iss     \* handleCreateDeployment and dispatchDeploy in progress

depVars == <<pkg, cert, sess, dep, iss>>

Issuer == Handler \cup Job

\* A column or field that has no value, and the origin of what no automation asked for
Unset == ""
NoOrigin == <<>>

\* first is where the work for a target starts, todo the targets still to come, origin the
\* automation and the instant a job stands for, ser the certificate the dispatch looked up.
Idle == [pc |-> "idle", first |-> "read", asset |-> Unset, pkg |-> Unset, can |-> FALSE, trig |-> FALSE,
         dep |-> 0, ser |-> 0, todo |-> {}, origin |-> NoOrigin]

Present == {p \in Pkg : pkg[p] \in {"ok", "nocmd"}}
DepRows == {"pending", "dispatched", "succeeded", "failed"}

\* A deployment: its row, who wrote a failure, and the command on its way: "no" before a
\* dispatch, "wire", "run", "cut" (running, its connection is gone), "ok" or "err" reported,
\* "end".  ran is what the agent did.
NewDep(i) == [row |-> "pending", by |-> Unset, asset |-> iss[i].asset, pkg |-> iss[i].pkg,
              can |-> iss[i].can, origin |-> iss[i].origin, cmd |-> "no", ser |-> 0, ran |-> "no"]

DepInit ==
  /\ pkg = [p \in Pkg |-> "none"]
  /\ cert \in [Asset -> {0, 1}] /\ sess = [a \in Asset |-> 0]
  /\ dep = <<>> /\ iss = [i \in Issuer |-> Idle]

advance(i, pc) == iss' = [iss EXCEPT ![i].pc = pc]

-----------------------------------------------------------------------------
(* Packages                                                                 *)

\* handleCreatePackage: "install_cmd is required for custom packages"
CreatePackage(p) ==
  /\ pkg[p] = "none"
  /\ pkg' = [pkg EXCEPT ![p] = "ok"] /\ UNCHANGED <<cert, sess, dep, iss>>

\* handlePatchPackage checks each field by itself, so a custom package can lose its command.
PatchPackage(p) ==
  /\ p \in Present
  /\ pkg' \in {[pkg EXCEPT ![p] = c] : c \in {"ok", "nocmd"}}
  /\ UNCHANGED <<cert, sess, dep, iss>>

\* handleDeletePackage; deployments.package_id is ON DELETE CASCADE.
DeletePackage(p) ==
  /\ p \in Present
  /\ pkg' = [pkg EXCEPT ![p] = "deleted"]
  /\ dep' = [d \in DOMAIN dep |-> IF dep[d].pkg = p THEN [dep[d] EXCEPT !.row = "deleted"] ELSE dep[d]]
  /\ UNCHANGED <<cert, sess, iss>>

-----------------------------------------------------------------------------
(* Issuing a deployment                                                     *)

\* handleCreateDeployment, the request: asset, package, trigger_deploy
RequestDeployment(i) ==
  /\ iss[i].pc = "idle"
  /\ \E a \in Asset, p \in Pkg, t \in BOOLEAN :
       iss' = [iss EXCEPT ![i] = [Idle EXCEPT !.pc = "read", !.asset = a, !.pkg = p, !.trig = t]]
  /\ UNCHANGED <<pkg, cert, sess, dep>>

\* Done with one target: a job goes on to the next one, a request ends.
endTarget(i) ==
  LET s == iss[i]  a == CHOOSE x \in s.todo : TRUE IN
  iss' = [iss EXCEPT ![i] = IF s.todo = {} THEN Idle
                            ELSE [s EXCEPT !.pc = s.first, !.asset = a, !.todo = @ \ {a}, !.dep = 0, !.ser = 0]]

\* SELECT asset, SELECT package
ReadPackage(i) ==
  /\ iss[i].pc = "read"
  /\ IF iss[i].pkg \in Present
     THEN iss' = [iss EXCEPT ![i].pc = "insert", ![i].can = (pkg[iss[i].pkg] = "ok")]
     ELSE endTarget(i)
  /\ UNCHANGED <<pkg, cert, sess, dep>>

\* INSERT INTO deployments; the foreign key refuses a package deleted meanwhile.
InsertDeployment(i) ==
  /\ iss[i].pc = "insert" /\ Len(dep) < MaxDep
  /\ IF iss[i].pkg \in Present
     THEN /\ dep' = Append(dep, NewDep(i))
          /\ IF iss[i].trig
             THEN iss' = [iss EXCEPT ![i].pc = "dispatch", ![i].dep = Len(dep) + 1]
             ELSE endTarget(i)
     ELSE endTarget(i) /\ UNCHANGED dep
  /\ UNCHANGED <<pkg, cert, sess>>

\* DispatchJSONByHumanID looks the certificate up; none, or a failing statement, refuses.
LookupSerial(i) ==
  /\ iss[i].pc = "dispatch"
  /\ \/ /\ cert[iss[i].asset] # 0
        /\ iss' = [iss EXCEPT ![i].pc = "reach", ![i].ser = cert[iss[i].asset]]
     \/ advance(i, "refused")
  /\ UNCHANGED <<pkg, cert, sess, dep>>

\* DispatchJSON: no session under that certificate, or a queue that stays full, refuses.
DispatchDeployment(i) ==
  /\ iss[i].pc = "reach"
  /\ LET d == iss[i].dep IN
     \/ /\ sess[iss[i].asset] = iss[i].ser
        /\ dep' = [dep EXCEPT ![d].cmd = "wire", ![d].ser = iss[i].ser]
        /\ advance(i, "sent")
     \/ advance(i, "refused") /\ UNCHANGED dep
  /\ UNCHANGED <<pkg, cert, sess>>

\* Mutant: the outcome of the dispatch is stored whatever it was.
StoreDispatchBlind(i) ==
  /\ iss[i].pc \in {"sent", "refused"}
  /\ dep' = [dep EXCEPT ![iss[i].dep].row = IF @ \in DepRows THEN "dispatched" ELSE @]
  /\ endTarget(i) /\ UNCHANGED <<pkg, cert, sess>>

\* UPDATE deployments SET status, without a condition on the status it replaces; its error is
\* ignored.
StoreDispatch(i) ==
  /\ iss[i].pc \in {"sent", "refused"}
  /\ LET d == iss[i].dep IN
     \/ /\ dep[d].row \in DepRows
        /\ dep' = IF iss[i].pc = "sent" THEN [dep EXCEPT ![d].row = "dispatched"]
                  ELSE [dep EXCEPT ![d].row = "failed", ![d].by = "dispatch"]
     \/ UNCHANGED dep
  /\ endTarget(i) /\ UNCHANGED <<pkg, cert, sess>>

\* A statement before the dispatch fails, or the request's context ends.
FailIssuer(i) ==
  /\ iss[i].pc \in {"read", "insert"}
  /\ endTarget(i) /\ UNCHANGED <<pkg, cert, sess, dep>>

Issue(i) ==
  \/ ReadPackage(i) \/ InsertDeployment(i) \/ LookupSerial(i) \/ DispatchDeployment(i)
  \/ StoreDispatch(i) \/ FailIssuer(i)

-----------------------------------------------------------------------------
(* The agent and its session                                                *)

Of(a) == {d \in DOMAIN dep : dep[d].asset = a}

\* A command needs its connection to arrive and to report; the goroutine outlives it.
cutOff(c) == CASE c \in {"wire", "ok", "err"} -> "end" [] c = "run" -> "cut" [] OTHER -> c

ConnectAgent(a) ==
  /\ cert[a] # 0 /\ sess[a] = 0
  /\ sess' = [sess EXCEPT ![a] = cert[a]] /\ UNCHANGED <<pkg, cert, dep, iss>>

\* The session ends, by itself or replaced; the old read pump may still apply the reports that
\* have arrived.
DropAgent(a) ==
  /\ sess[a] # 0
  /\ sess' = [sess EXCEPT ![a] = 0]
  /\ \E kept \in SUBSET {d \in Of(a) : dep[d].cmd \in {"ok", "err"}} :
       dep' = [d \in DOMAIN dep |-> IF d \in Of(a) \ kept THEN [dep[d] EXCEPT !.cmd = cutOff(@)]
                                   ELSE dep[d]]
  /\ UNCHANGED <<pkg, cert, iss>>

\* The device enrols anew; the session it has keeps its old certificate.
EnrolAgain(a) ==
  /\ cert[a] < MaxCert
  /\ cert' = [cert EXCEPT ![a] = @ + 1] /\ UNCHANGED <<pkg, sess, dep, iss>>

\* handleDeployPackage starts a goroutine.
StartPackage(d) ==
  /\ dep[d].cmd = "wire"
  /\ dep' = [dep EXCEPT ![d].cmd = "run"] /\ UNCHANGED <<pkg, cert, sess, iss>>

\* runDeployPackage and its answer; what cannot be run fails, and a write to a connection
\* that is gone is ignored.
FinishPackage(d) ==
  /\ dep[d].cmd \in {"run", "cut"}
  /\ \E r \in {"ok", "err"} :
       /\ r = "ok" => dep[d].can
       /\ dep' = [dep EXCEPT ![d].ran = r, ![d].cmd = IF @ = "run" THEN r ELSE "end"]
  /\ UNCHANGED <<pkg, cert, sess, iss>>

\* Mutant: the report is stored for the package on the device.
ApplyPackageOutcomeAll(d) ==
  /\ dep[d].cmd \in {"ok", "err"}
  /\ dep' = [e \in DOMAIN dep |->
              IF dep[e].asset = dep[d].asset /\ dep[e].pkg = dep[d].pkg /\ dep[e].row \in DepRows
              THEN [dep[e] EXCEPT !.cmd = IF e = d THEN "end" ELSE @, !.by = "agent",
                                  !.row = IF dep[d].cmd = "ok" THEN "succeeded" ELSE "failed"]
              ELSE dep[e]]
  /\ UNCHANGED <<pkg, cert, sess, iss>>

\* ApplyPackageDeploymentOutcome: WHERE d.id = $1 AND a.cert_serial = the session's serial;
\* a failing statement loses the report.
ApplyPackageOutcome(d) ==
  /\ dep[d].cmd \in {"ok", "err"}
  /\ \/ /\ dep[d].row \in DepRows /\ cert[dep[d].asset] = dep[d].ser
        /\ dep' = [dep EXCEPT ![d].cmd = "end", ![d].by = "agent",
                              ![d].row = IF dep[d].cmd = "ok" THEN "succeeded" ELSE "failed"]
     \/ dep' = [dep EXCEPT ![d].cmd = "end"]
  /\ UNCHANGED <<pkg, cert, sess, iss>>

\* The server process ends: requests, jobs and sessions are gone.
StopIssuers ==
  /\ iss' = [i \in Issuer |-> Idle]
  /\ sess' = [a \in Asset |-> 0]
  /\ dep' = [d \in DOMAIN dep |-> [dep[d] EXCEPT !.cmd = cutOff(@)]]
  /\ UNCHANGED <<pkg, cert>>

DepNext ==
  \/ \E p \in Pkg : CreatePackage(p) \/ PatchPackage(p) \/ DeletePackage(p)
  \/ \E i \in Handler : RequestDeployment(i) \/ Issue(i)
  \/ \E a \in Asset : ConnectAgent(a) \/ DropAgent(a) \/ EnrolAgain(a)
  \/ \E d \in DOMAIN dep : StartPackage(d) \/ FinishPackage(d) \/ ApplyPackageOutcome(d)

-----------------------------------------------------------------------------

DepTypeOK ==
  /\ pkg \in [Pkg -> {"none", "ok", "nocmd", "deleted"}]
  /\ cert \in [Asset -> 0..MaxCert] /\ sess \in [Asset -> 0..MaxCert]
  /\ Len(dep) <= MaxDep /\ \A d \in DOMAIN dep : dep[d].row \in DepRows \cup {"deleted"}
  /\ DOMAIN iss = Issuer /\ \A i \in Issuer : iss[i].dep \in 0..Len(dep)

\* What a row says of the device is true of the device: a success was run, a failure the agent
\* reported happened, a deployment refused at dispatch never reached an agent, and one that
\* counts as dispatched was handed to a session.
HonestDeployments ==
  \A d \in DOMAIN dep :
    /\ dep[d].row = "succeeded" => dep[d].ran = "ok" /\ dep[d].can
    /\ dep[d].row = "failed" => IF dep[d].by = "agent" THEN dep[d].ran = "err"
                               ELSE dep[d].cmd = "no" /\ dep[d].ran = "no"
    /\ dep[d].row = "dispatched" => dep[d].ser # 0

DeployInv == DepTypeOK /\ HonestDeployments

\* "updates deployments when an agent reports completion": once the call that dispatched a
\* deployment has stored its answer, a stored outcome is final.
OutcomeStays ==
  [][\A d \in DOMAIN dep :
       dep[d].row \in {"succeeded", "failed"} /\ (\A i \in Issuer : iss[i].dep # d)
         => dep'[d].row \in {dep[d].row, "deleted"}]_depVars
=============================================================================
