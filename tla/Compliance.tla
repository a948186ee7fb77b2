----------------------------- MODULE Compliance -----------------------------
(***************************************************************************)
(* A device's compliance status and its quarantine.  The agent notes how the  *)
(* enforcement of its merged policy went and reports the note with telemetry;   *)
(* EvaluateAfterTelemetry turns it into a status and, on the way into           *)
(* non_compliant, queues a quarantine; operators switch the quarantine as well.  *)
(* Telemetry handlers (WebSocket and HTTP) run side by side, statement by       *)
(* statement; the agent runs every quarantine command in a goroutine.           *)
(***************************************************************************)
EXTENDS Naturals, Sequences, FiniteSets

CONSTANTS
  Reporter,   \* telemetry handlers that may work for the device at once
  MaxCmd,     \* bound: quarantine commands; further inserts count as failed
  MaxTurns   \* bound: operator calls, faults, changes of the environment

ASSUME ComplianceAssumption == MaxCmd \in Nat /\ MaxTurns \in Nat

VARIABLES
  broken,    \* enforcing the policy fails on this device
  critical,  \* the merged policy carries critical security controls
  sync,      \* the agent's sync: "idle", "enforcing"
  note,      \* mdmPolicyEnfLatest: "nil", "ok", "error", "critical"
  pc,        \* per handler: "idle", "read", "set", "auto", "insert", "flag", "dispatch", "mark"
  rep,       \* the note in the report being handled
  prev,      \* status read before, "" when the read failed
  new,       \* status the handler computed
  mine,      \* the command the handler inserted, an index of cmds
  status,    \* assets.compliance_status
  flag,      \* assets.quarantine_enabled
  auto,      \* tenant_settings.auto_quarantine_on_noncompliance
  op,        \* operator's PATCH: "idle", "resolve", "dispatch", "mark"
  opOn,      \* the value the operator sets
  opMine,    \* the command it inserted
  cmds,      \* device_commands of type quarantine, in order: enabled and status
  running,   \* commands handed to the agent whose goroutine has not finished
  orphan,    \* the same, of a connection that is gone: their result reaches nobody
  isolated,  \* the device's network is cut off
  online,    \* the agent is connected
  owed,      \* ghost: the status became non_compliant under auto and no command followed yet
  alone,     \* ghost: two handlers have never worked for the device at once
  apart,     \* ghost: each command was queued after the one before it had come to its end
  turns     \* turns so far

NoStatus == ""   \* of a handler that has none, or whose read failed

agentVars == <<broken, critical, sync, note>>
handlerVars == <<pc, rep, prev, new, mine>>
opVars == <<op, opOn, opMine>>
wireVars == <<cmds, running, orphan, isolated, online>>
ghosts == <<owed, alone, apart>>
complianceVars == <<agentVars, handlerVars, status, flag, auto, opVars, wireVars, ghosts, turns>>

ComplianceInit ==
  /\ broken \in BOOLEAN /\ critical \in BOOLEAN /\ sync = "idle" /\ note = "nil"
  /\ pc = [r \in Reporter |-> "idle"] /\ rep = [r \in Reporter |-> "nil"]
  /\ prev = [r \in Reporter |-> NoStatus] /\ new = [r \in Reporter |-> NoStatus] /\ mine = [r \in Reporter |-> 0]
  /\ status = "evaluating" /\ flag = FALSE /\ auto \in BOOLEAN
  /\ op = "idle" /\ opOn = FALSE /\ opMine = 0
  /\ cmds = << >> /\ running = {} /\ orphan = {} /\ isolated = FALSE /\ online = TRUE
  /\ owed = FALSE /\ alone = TRUE /\ apart = TRUE /\ turns = 0

turn == turns < MaxTurns /\ turns' = turns + 1

-----------------------------------------------------------------------------
(* The agent's sync loop                                                    *)

\* The loop of a connection: applyEffectivePolicyHTTPBody notes success before it enforces; a
\* failed fetch is an error it calls critical.
SyncStart ==
  /\ sync = "idle" /\ online
  /\ \/ note' = "ok" /\ sync' = "enforcing" /\ UNCHANGED turns
     \/ turn /\ note' = "critical" /\ UNCHANGED sync
  /\ UNCHANGED <<broken, critical, handlerVars, status, flag, auto, opVars, wireVars, ghosts>>

\* A body that cannot be decoded is critical; enforceEffectiveMergedPayload notes the outcome.
SyncEnd ==
  /\ sync = "enforcing"
  /\ sync' = "idle"
  /\ \/ turn /\ note' = "critical"
     \/ /\ note' = IF broken THEN (IF critical THEN "critical" ELSE "error") ELSE "ok"
        /\ UNCHANGED turns
  /\ UNCHANGED <<broken, critical, handlerVars, status, flag, auto, opVars, wireVars, ghosts>>

-----------------------------------------------------------------------------
(* EvaluateAfterTelemetry                                                   *)

Report(r) ==
  /\ pc[r] = "idle" /\ online
  /\ rep' = [rep EXCEPT ![r] = note] /\ pc' = [pc EXCEPT ![r] = "read"]
  /\ alone' = (alone /\ \A q \in Reporter : pc[q] = "idle")
  /\ UNCHANGED <<agentVars, prev, new, mine, status, flag, auto, opVars, wireVars, owed, apart, turns>>

ReadPrev(r) ==
  /\ pc[r] = "read"
  /\ pc' = [pc EXCEPT ![r] = "set"]
  /\ \/ prev' = [prev EXCEPT ![r] = status] /\ UNCHANGED turns
     \/ turn /\ prev' = [prev EXCEPT ![r] = NoStatus]
  /\ UNCHANGED <<agentVars, rep, new, mine, status, flag, auto, opVars, wireVars, ghosts>>

\* The switch over the reported state; its default is for states that no agent here reports.
Posture(n, hasCritical) ==
  CASE n = "nil" -> "evaluating"
    [] n = "ok" -> "compliant"
    [] n = "critical" -> "non_compliant"
    [] n = "error" -> IF hasCritical THEN "non_compliant" ELSE "compliant"
    [] OTHER -> IF hasCritical THEN "evaluating" ELSE "compliant"

\* Mutant: a non-compliant device stays so.
IgnoredSticky(r) == prev[r] = "non_compliant" \/ (rep[r] = "nil" /\ prev[r] \notin {NoStatus, "evaluating"})

\* A report without a note changes nothing once a status is known.
Ignored(r) == rep[r] = "nil" /\ prev[r] \notin {NoStatus, "evaluating"}

\* EffectiveMergedPayload: a merge that fails counts as critical.
Merged(hc) ==
  \/ hc = critical /\ UNCHANGED turns
  \/ hc /\ ~critical /\ turn

SetStatus(r) ==
  /\ pc[r] = "set"
  /\ \/ /\ Ignored(r)
        /\ pc' = [pc EXCEPT ![r] = "idle"] /\ prev' = [prev EXCEPT ![r] = NoStatus]
        /\ UNCHANGED <<new, status, owed, turns>>
     \/ /\ ~Ignored(r)
        /\ \E hc \in BOOLEAN : Merged(hc) /\ status' = Posture(rep[r], hc)
        /\ new' = [new EXCEPT ![r] = status'] /\ pc' = [pc EXCEPT ![r] = "auto"]
        /\ owed' = (owed \/ (auto /\ status' = "non_compliant" /\ status # "non_compliant"))
        /\ UNCHANGED prev
     \/ /\ ~Ignored(r) /\ turn
        /\ pc' = [pc EXCEPT ![r] = "idle"] /\ prev' = [prev EXCEPT ![r] = NoStatus]
        /\ UNCHANGED <<new, status, owed>>
  /\ rep' = [rep EXCEPT ![r] = "nil"]
  /\ UNCHANGED <<agentVars, mine, flag, auto, opVars, wireVars, alone, apart>>

\* Mutant: the status is compared with what the database says now.
EntersNow(r) == new[r] = "non_compliant" /\ status # "non_compliant"

\* The device enters non_compliant with this report.
Enters(r) == new[r] = "non_compliant" /\ prev[r] # "non_compliant"

\* TenantAutoQuarantine; a failed read counts as off.
CheckAuto(r) ==
  /\ pc[r] = "auto"
  /\ \/ /\ pc' = [pc EXCEPT ![r] = IF auto /\ Enters(r) THEN "insert" ELSE "idle"]
        /\ UNCHANGED <<owed, turns>>
     \/ turn /\ owed' = FALSE /\ pc' = [pc EXCEPT ![r] = "idle"]
  /\ prev' = [prev EXCEPT ![r] = NoStatus] /\ new' = [new EXCEPT ![r] = NoStatus]
  /\ UNCHANGED <<agentVars, rep, mine, status, flag, auto, opVars, wireVars, alone, apart>>

\* Every command queued so far has come to its end, at the server as well.
AtRest ==
  /\ running = {} /\ orphan = {} /\ opMine = 0 /\ \A r \in Reporter : mine[r] = 0
  /\ \A i \in DOMAIN cmds : cmds[i].st \in {"success", "failed"}

enqueue(on) ==
  /\ cmds' = Append(cmds, [on |-> on, st |-> "pending"])
  /\ apart' = (apart /\ AtRest)

\* InsertDeviceCommand; a failure is logged and the status stays.
Insert(r) ==
  /\ pc[r] = "insert" /\ owed' = FALSE
  /\ \/ /\ Len(cmds) < MaxCmd /\ enqueue(TRUE)
        /\ mine' = [mine EXCEPT ![r] = Len(cmds) + 1] /\ pc' = [pc EXCEPT ![r] = "flag"]
        /\ UNCHANGED turns
     \/ /\ \/ Len(cmds) = MaxCmd /\ UNCHANGED turns
           \/ Len(cmds) < MaxCmd /\ turn
        /\ pc' = [pc EXCEPT ![r] = "idle"] /\ UNCHANGED <<cmds, mine, apart>>
  /\ UNCHANGED <<agentVars, rep, prev, new, status, flag, auto, opVars, running, orphan, isolated, online, alone>>

SetFlag(r) ==
  /\ pc[r] = "flag"
  /\ pc' = [pc EXCEPT ![r] = "dispatch"]
  /\ \/ flag' = TRUE /\ UNCHANGED turns
     \/ turn /\ UNCHANGED flag
  /\ UNCHANGED <<agentVars, rep, prev, new, mine, status, auto, opVars, wireVars, ghosts>>

\* DispatchJSON: a session that is gone, or whose queue stays full, does not get the command.
reach(i, done) ==
  \/ done /\ online /\ running' = running \cup {i} /\ UNCHANGED turns
  \/ ~done /\ UNCHANGED running /\ ((~online /\ UNCHANGED turns) \/ (online /\ turn))

\* MarkDeviceCommandSent, whatever the row says by now; a failed update leaves it.
mark(i) ==
  \/ cmds' = [cmds EXCEPT ![i].st = "sent"] /\ UNCHANGED turns
  \/ turn /\ UNCHANGED cmds

Dispatch(r) ==
  /\ pc[r] = "dispatch"
  /\ \E done \in BOOLEAN : /\ reach(mine[r], done)
                           /\ pc' = [pc EXCEPT ![r] = IF done THEN "mark" ELSE "idle"]
                           /\ mine' = [mine EXCEPT ![r] = IF done THEN @ ELSE 0]
  /\ UNCHANGED <<agentVars, rep, prev, new, status, flag, auto, opVars, cmds, orphan, isolated, online, ghosts>>

Mark(r) ==
  /\ pc[r] = "mark"
  /\ mark(mine[r]) /\ pc' = [pc EXCEPT ![r] = "idle"] /\ mine' = [mine EXCEPT ![r] = 0]
  /\ UNCHANGED <<agentVars, rep, prev, new, status, flag, auto, opVars, running, orphan, isolated, online, ghosts>>

-----------------------------------------------------------------------------
(* Operators                                                                *)

\* handlePatch stores the flag before it resolves the certificate serial.
Patch(on) ==
  /\ op = "idle" /\ turn
  /\ flag' = on /\ op' = "resolve" /\ opOn' = on /\ UNCHANGED opMine
  /\ UNCHANGED <<agentVars, handlerVars, status, auto, wireVars, ghosts>>

Resolve ==
  /\ op = "resolve"
  /\ \/ /\ Len(cmds) < MaxCmd /\ enqueue(opOn)
        /\ op' = "dispatch" /\ opMine' = Len(cmds) + 1 /\ UNCHANGED turns
     \/ /\ \/ Len(cmds) = MaxCmd /\ UNCHANGED turns
           \/ Len(cmds) < MaxCmd /\ turn
        /\ op' = "idle" /\ UNCHANGED <<cmds, opMine, apart>>
  /\ opOn' = FALSE
  /\ UNCHANGED <<agentVars, handlerVars, status, flag, auto, running, orphan, isolated, online, owed, alone>>

\* QueueQuarantineCommand dispatches the row it inserted.
OpDispatch ==
  /\ op = "dispatch"
  /\ \E done \in BOOLEAN : /\ reach(opMine, done)
                           /\ op' = (IF done THEN "mark" ELSE "idle") /\ opMine' = (IF done THEN opMine ELSE 0)
  /\ UNCHANGED <<agentVars, handlerVars, status, flag, auto, opOn, cmds, orphan, isolated, online, ghosts>>

OpMark ==
  /\ op = "mark"
  /\ mark(opMine) /\ op' = "idle" /\ opMine' = 0
  /\ UNCHANGED <<agentVars, handlerVars, status, flag, auto, opOn, running, orphan, isolated, online, ghosts>>

\* PATCH /v1/tenant/compliance-settings
SetTenantAutoQuarantine ==
  /\ turn
  /\ auto' = ~auto /\ owed' = FALSE
  /\ UNCHANGED <<agentVars, handlerVars, status, flag, opVars, wireVars, alone, apart>>

-----------------------------------------------------------------------------
(* The device and its connection                                            *)

\* executeQuarantine in a goroutine of its own, the result sent over the connection it came by.
Execute(i) ==
  /\ i \in running \cup orphan
  /\ \E ok \in BOOLEAN :
       /\ IF ok THEN UNCHANGED turns ELSE turn
       /\ isolated' = IF ok THEN cmds[i].on ELSE isolated
       /\ \/ /\ i \in running /\ running' = running \ {i} /\ UNCHANGED orphan
             /\ cmds' = [cmds EXCEPT ![i].st = IF ok THEN "success" ELSE "failed"]
          \/ i \in orphan /\ orphan' = orphan \ {i} /\ UNCHANGED <<running, cmds>>
  /\ UNCHANGED <<agentVars, handlerVars, status, flag, auto, opVars, online, ghosts>>

\* Commands still on their way are lost; the agent goes on with those it received.
Disconnect ==
  /\ online /\ turn
  /\ online' = FALSE /\ running' = {} /\ \E got \in SUBSET running : orphan' = orphan \cup got
  /\ UNCHANGED <<agentVars, handlerVars, status, flag, auto, opVars, cmds, isolated, ghosts>>

\* The loops of the old connection have ended; the new session is sent every pending command.
Connect ==
  /\ ~online /\ sync = "idle"
  /\ online' = TRUE
  /\ running' = {i \in DOMAIN cmds : cmds[i].st = "pending"}
  /\ cmds' = [i \in DOMAIN cmds |-> [cmds[i] EXCEPT !.st = IF @ = "pending" THEN "sent" ELSE @]]
  /\ UNCHANGED <<agentVars, handlerVars, status, flag, auto, opVars, orphan, isolated, ghosts, turns>>

\* Enforcement starts or stops failing.
Environment ==
  /\ turn
  /\ broken' = ~broken
  /\ UNCHANGED <<critical, sync, note, handlerVars, status, flag, auto, opVars, wireVars, ghosts>>

ComplianceNext ==
  \/ SyncStart \/ SyncEnd
  \/ \E r \in Reporter : \/ Report(r) \/ ReadPrev(r) \/ SetStatus(r) \/ CheckAuto(r)
                         \/ Insert(r) \/ SetFlag(r) \/ Dispatch(r) \/ Mark(r)
  \/ \E on \in BOOLEAN : Patch(on)
  \/ Resolve \/ OpDispatch \/ OpMark \/ SetTenantAutoQuarantine
  \/ \E i \in 1 .. MaxCmd : Execute(i)
  \/ Disconnect \/ Connect \/ Environment

\* Handlers, the agent's loops and its goroutines go on; operators, faults and changes of the
\* environment need not happen.
ComplianceFairness ==
  /\ WF_complianceVars(SyncStart \/ SyncEnd) /\ WF_complianceVars(Connect)
  /\ WF_complianceVars(Resolve \/ OpDispatch \/ OpMark)
  /\ \A r \in Reporter :
       WF_complianceVars(\/ Report(r) \/ ReadPrev(r) \/ SetStatus(r) \/ CheckAuto(r)
                         \/ Insert(r) \/ SetFlag(r) \/ Dispatch(r) \/ Mark(r))
  /\ \A i \in 1 .. MaxCmd : WF_complianceVars(Execute(i))

ComplianceSpec == ComplianceInit /\ [][ComplianceNext]_complianceVars /\ ComplianceFairness

-----------------------------------------------------------------------------

Status == {"evaluating", "compliant", "non_compliant"}
Outcome == {"pending", "sent", "success", "failed"}
Command == [on : BOOLEAN, st : Outcome]

SwitchesOK ==
  /\ broken \in BOOLEAN /\ critical \in BOOLEAN /\ flag \in BOOLEAN /\ auto \in BOOLEAN
  /\ opOn \in BOOLEAN /\ isolated \in BOOLEAN /\ online \in BOOLEAN
  /\ owed \in BOOLEAN /\ alone \in BOOLEAN /\ apart \in BOOLEAN

ComplianceTypeOK ==
  /\ SwitchesOK
  /\ sync \in {"idle", "enforcing"} /\ note \in {"nil", "ok", "error", "critical"}
  /\ pc \in [Reporter -> {"idle", "read", "set", "auto", "insert", "flag", "dispatch", "mark"}]
  /\ rep \in [Reporter -> {"nil", "ok", "error", "critical"}]
  /\ prev \in [Reporter -> Status \cup {NoStatus}] /\ new \in [Reporter -> Status \cup {NoStatus}]
  /\ status \in Status
  /\ cmds \in Seq(Command) /\ Len(cmds) <= MaxCmd
  /\ mine \in [Reporter -> 0 .. Len(cmds)] /\ opMine \in 0 .. Len(cmds)
  /\ op \in {"idle", "resolve", "dispatch", "mark"}
  /\ running \subseteq DOMAIN cmds /\ orphan \subseteq DOMAIN cmds
  /\ turns \in 0 .. MaxTurns

\* When the database's status becomes non_compliant under auto-quarantine, the handler that
\* wrote it queues a quarantine before it returns, unless the insert fails or the setting is
\* switched meanwhile.  It compares with a status read earlier, so this takes handlers that
\* work one at a time.
AutoQuarantineFollows == alone /\ (\A r \in Reporter : pc[r] = "idle") => ~owed

\* A device whose enforcement works again ends up compliant for good, whatever handlers with
\* older reports still do.
RecoveredIsCompliant == <>[](~broken) => <>[](status = "compliant")

Quiet == op = "idle" /\ AtRest /\ \A r \in Reporter : pc[r] = "idle"

\* "Operator or automation toggled network/app isolation (quarantine) on this asset": when the
\* newest command has succeeded and the column agrees with it, so does the device, through
\* lost, repeated and failed commands.  The agent runs each command in a goroutine of its own,
\* so this takes commands that are queued one after the other's end.
FlagIsIsolation ==
  LET n == Len(cmds)
  IN  apart /\ Quiet /\ n > 0 /\ cmds[n] = [on |-> flag, st |-> "success"] => (flag <=> isolated)

\* What every state of the handlers satisfies: types, and no automatic quarantine owed when they
\* have returned.
ComplianceInv == ComplianceTypeOK /\ AutoQuarantineFollows /\ FlagIsIsolation
=============================================================================
