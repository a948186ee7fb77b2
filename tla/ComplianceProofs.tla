-------------------------- MODULE ComplianceProofs --------------------------
(***************************************************************************)
(* Proofs about compliance and quarantine for any number of telemetry          *)
(* handlers, commands, operator calls and faults.                            *)
(*                                                                         *)
(* AutoInv: while handlers work one at a time, the status a handler read is     *)
(* the one it replaces, so a quarantine that is owed is owed by the handler      *)
(* that is about to queue it.  FlagInv: while each command is queued after the   *)
(* end of the one before, only the newest can be on its way or running, and a    *)
(* success of it is the last word about the network.                          *)
(***************************************************************************)
EXTENDS Compliance, SequenceTheorems, TLAPS

\* A quarantine that is owed has a handler that is on its way to queue it.
Debtor(r) == pc[r] = "insert" \/ (pc[r] = "auto" /\ Enters(r) /\ auto)

AutoInv ==
  alone => /\ \A r, q \in Reporter : pc[r] # "idle" /\ pc[q] # "idle" => r = q
           /\ \A r \in Reporter : pc[r] = "set" => prev[r] \in {NoStatus, status}
           /\ owed => \E r \in Reporter : Debtor(r)

\* A handler or an operator's call that dispatches has a command to dispatch.
Held ==
  /\ \A r \in Reporter : pc[r] \in {"flag", "dispatch", "mark"} => mine[r] \in 1 .. Len(cmds)
  /\ op \in {"dispatch", "mark"} => opMine \in 1 .. Len(cmds)

FlagInv ==
  apart => /\ running \subseteq {Len(cmds)} /\ orphan \subseteq {Len(cmds)}
           /\ opMine \in {0, Len(cmds)} /\ \A r \in Reporter : mine[r] \in {0, Len(cmds)}
           /\ \A i \in 1 .. Len(cmds) : i < Len(cmds) => cmds[i].st # "pending"
           /\ Len(cmds) > 0 /\ cmds[Len(cmds)].st = "success" => isolated = cmds[Len(cmds)].on

ComplianceIInv == ComplianceTypeOK /\ AutoInv /\ Held /\ FlagInv

-----------------------------------------------------------------------------
(* The command log                                                          *)

\* A new row at the end of the log leaves the others as they are.
LEMMA RowAdded ==
  ASSUME NEW s \in Seq(Command), NEW c \in Command
  PROVE  /\ Append(s, c) \in Seq(Command) /\ Len(Append(s, c)) = Len(s) + 1
         /\ Append(s, c)[Len(s) + 1] = c
         /\ \A i \in 1 .. Len(s) : Append(s, c)[i] = s[i]
  OBVIOUS

\* An UPDATE of one row's status keeps the row's number and what it asks for.
LEMMA RowMarked ==
  ASSUME cmds \in Seq(Command), NEW i \in 1 .. Len(cmds), NEW t \in Outcome, cmds' = [cmds EXCEPT ![i].st = t]
  PROVE  /\ cmds' \in Seq(Command) /\ Len(cmds') = Len(cmds)
         /\ \A j \in 1 .. Len(cmds) : cmds'[j] = IF j = i THEN [on |-> cmds[i].on, st |-> t] ELSE cmds[j]
  <1> DEFINE e == [on |-> cmds[i].on, st |-> t]
  <1>0. cmds[i] \in Command
    OBVIOUS
  <1>1. e \in Command /\ [cmds[i] EXCEPT !.st = t] = e
    BY <1>0 DEF Command
  <1>2. cmds' = [cmds EXCEPT ![i] = e]
    BY <1>1
  <1> QED
    BY <1>1, <1>2, ExceptSeq

\* The flush of a new session: pending rows are sent, the others stay.
LEMMA RowsFlushed ==
  ASSUME NEW s \in Seq(Command), NEW t,
         t = [i \in DOMAIN s |-> [s[i] EXCEPT !.st = IF @ = "pending" THEN "sent" ELSE @]]
  PROVE  /\ t \in Seq(Command) /\ Len(t) = Len(s)
         /\ \A i \in 1 .. Len(s) : /\ t[i].on = s[i].on
                                   /\ t[i].st = IF s[i].st = "pending" THEN "sent" ELSE s[i].st
  <1>1. \A i \in 1 .. Len(s) : s[i] \in Command
    OBVIOUS
  <1>2. \A i \in 1 .. Len(s) : /\ t[i] \in Command /\ t[i].on = s[i].on
                               /\ t[i].st = IF s[i].st = "pending" THEN "sent" ELSE s[i].st
    BY <1>1 DEF Command, Outcome
  <1>3. Len(s) \in Nat /\ DOMAIN t = 1 .. Len(s) /\ t = [i \in 1 .. Len(s) |-> t[i]]
    OBVIOUS
  <1>4. t \in [1 .. Len(s) -> Command]
    BY <1>2, <1>3
  <1>5. t \in Seq(Command) /\ Len(t) = Len(s)
    BY <1>3, <1>4
  <1> QED
    BY <1>2, <1>5

-----------------------------------------------------------------------------
(* Types                                                                    *)

USE ComplianceAssumption

\* The empty status is none of the others.
LEMMA NoStatusIsNone == NoStatus \notin Status
  BY Zenon DEF NoStatus, Status

\* The first states satisfy the invariant.
LEMMA ComplianceInitOK == ComplianceInit => ComplianceIInv
  <1> SUFFICES ASSUME ComplianceInit PROVE ComplianceIInv
    OBVIOUS
  <1> USE DEF ComplianceInit
  <1>0. SwitchesOK
    BY Zenon DEF SwitchesOK
  <1>1. ComplianceTypeOK
    BY <1>0, EmptySeq DEF ComplianceTypeOK, Status
  <1>2. AutoInv /\ Held /\ FlagInv
    BY DEF AutoInv, Held, FlagInv
  <1> QED
    BY <1>1, <1>2 DEF ComplianceIInv

\* What mark(i) does to the log.
LEMMA MarkMoves ==
  ASSUME NEW i \in 1 .. Len(cmds), mark(i), cmds \in Seq(Command), turns \in 0 .. MaxTurns
  PROVE  /\ cmds' \in Seq(Command) /\ Len(cmds') = Len(cmds) /\ turns' \in 0 .. MaxTurns
         /\ \A j \in 1 .. Len(cmds) : /\ cmds'[j].on = cmds[j].on
                                      /\ cmds'[j].st = "success" => cmds[j].st = "success"
                                      /\ cmds'[j].st = "pending" => cmds[j].st = "pending"
  <1>1. CASE cmds' = cmds
    BY <1>1 DEF mark, turn
  <1>2. CASE cmds' = [cmds EXCEPT ![i].st = "sent"] /\ turns' = turns
    <2>1. "sent" \in Outcome
      BY DEF Outcome
    <2>2. /\ cmds' \in Seq(Command) /\ Len(cmds') = Len(cmds)
          /\ \A j \in 1 .. Len(cmds) : cmds'[j] = IF j = i THEN [on |-> cmds[i].on, st |-> "sent"] ELSE cmds[j]
      BY <1>2, <2>1, RowMarked, Zenon
    <2> QED
      BY <1>2, <2>2
  <1> QED
    BY <1>1, <1>2 DEF mark

\* Every step keeps the switches Boolean.
LEMMA SwitchesStep == ComplianceTypeOK /\ [ComplianceNext]_complianceVars => SwitchesOK'
  <1>0. SUFFICES ASSUME ComplianceTypeOK PROVE [ComplianceNext]_complianceVars => SwitchesOK'
    OBVIOUS
  <1>b. \A i \in running \cup orphan : cmds[i] \in Command
    BY <1>0 DEF ComplianceTypeOK
  <1>a. SwitchesOK /\ \A i \in running \cup orphan : cmds[i].on \in BOOLEAN
    BY <1>0, <1>b DEF ComplianceTypeOK, Command
  <1>1. CASE SyncStart
    BY <1>a, <1>1, Zenon DEF SwitchesOK, SyncStart, handlerVars, opVars, wireVars, ghosts
  <1>2. CASE SyncEnd
    BY <1>a, <1>2, Zenon DEF SwitchesOK, SyncEnd, handlerVars, opVars, wireVars, ghosts
  <1>3. ASSUME NEW r \in Reporter, Report(r) PROVE SwitchesOK'
    BY <1>a, <1>3, Zenon DEF SwitchesOK, Report, agentVars, opVars, wireVars
  <1>4. ASSUME NEW r \in Reporter, ReadPrev(r) PROVE SwitchesOK'
    BY <1>a, <1>4, Zenon DEF SwitchesOK, ReadPrev, agentVars, opVars, wireVars, ghosts
  <1>5. ASSUME NEW r \in Reporter, SetStatus(r) PROVE SwitchesOK'
    BY <1>a, <1>5, Zenon DEF SwitchesOK, SetStatus, agentVars, opVars, wireVars
  <1>6. ASSUME NEW r \in Reporter, CheckAuto(r) PROVE SwitchesOK'
    BY <1>a, <1>6, Zenon DEF SwitchesOK, CheckAuto, agentVars, opVars, wireVars
  <1>7. ASSUME NEW r \in Reporter, Insert(r) PROVE SwitchesOK'
    BY <1>a, <1>7, Zenon DEF SwitchesOK, Insert, enqueue, agentVars, opVars
  <1>8. ASSUME NEW r \in Reporter, SetFlag(r) PROVE SwitchesOK'
    BY <1>a, <1>8, Zenon DEF SwitchesOK, SetFlag, agentVars, opVars, wireVars, ghosts
  <1>9. ASSUME NEW r \in Reporter, Dispatch(r) PROVE SwitchesOK'
    BY <1>a, <1>9, Zenon DEF SwitchesOK, Dispatch, agentVars, opVars, ghosts
  <1>19. ASSUME NEW r \in Reporter, Mark(r) PROVE SwitchesOK'
    BY <1>a, <1>19, Zenon DEF SwitchesOK, Mark, agentVars, opVars, ghosts
  <1>10. ASSUME NEW on \in BOOLEAN, Patch(on) PROVE SwitchesOK'
    BY <1>a, <1>10, Zenon DEF SwitchesOK, Patch, agentVars, handlerVars, wireVars, ghosts
  <1>11. CASE Resolve
    BY <1>a, <1>11, Zenon DEF SwitchesOK, Resolve, enqueue, agentVars, handlerVars
  <1>12. CASE OpDispatch
    BY <1>a, <1>12, Zenon DEF SwitchesOK, OpDispatch, agentVars, handlerVars, ghosts
  <1>20. CASE OpMark
    BY <1>a, <1>20, Zenon DEF SwitchesOK, OpMark, agentVars, handlerVars, ghosts
  <1>13. CASE SetTenantAutoQuarantine
    BY <1>a, <1>13, Zenon DEF SwitchesOK, SetTenantAutoQuarantine, agentVars, handlerVars, opVars, wireVars
  <1>14. ASSUME NEW i \in 1 .. MaxCmd, Execute(i) PROVE SwitchesOK'
    BY <1>a, <1>14, Zenon DEF SwitchesOK, Execute, agentVars, handlerVars, opVars, ghosts
  <1>15. CASE Disconnect
    BY <1>a, <1>15, Zenon DEF SwitchesOK, Disconnect, agentVars, handlerVars, opVars, ghosts
  <1>16. CASE Connect
    BY <1>a, <1>16, Zenon DEF SwitchesOK, Connect, agentVars, handlerVars, opVars, ghosts
  <1>17. CASE Environment
    BY <1>a, <1>17, Zenon DEF SwitchesOK, Environment, handlerVars, opVars, wireVars, ghosts
  <1>18. CASE UNCHANGED complianceVars
    BY <1>a, <1>18, Zenon DEF SwitchesOK, complianceVars, agentVars, handlerVars, opVars, wireVars, ghosts
  <1> QED
    BY <1>1, <1>2, <1>3, <1>4, <1>5, <1>6, <1>7, <1>8, <1>9, <1>10, <1>11, <1>12, <1>13, <1>14,
       <1>15, <1>16, <1>17, <1>18, <1>19, <1>20, Zenon DEF ComplianceNext

\* Every step keeps the types.
LEMMA ComplianceTypeStep == ComplianceTypeOK /\ Held /\ [ComplianceNext]_complianceVars => ComplianceTypeOK'
  <1> SUFFICES ASSUME ComplianceTypeOK, Held, SwitchesOK' PROVE [ComplianceNext]_complianceVars => ComplianceTypeOK'
    BY SwitchesStep
  <1> USE DEF ComplianceTypeOK, turn
  <1>0. cmds \in Seq(Command) /\ Len(cmds) \in Nat /\ DOMAIN cmds = 1 .. Len(cmds)
    OBVIOUS
  <1>1. CASE SyncStart
    BY <1>1 DEF SyncStart, handlerVars, opVars, wireVars, ghosts
  <1>2. CASE SyncEnd
    BY <1>2 DEF SyncEnd, handlerVars, opVars, wireVars, ghosts
  <1>3. ASSUME NEW r \in Reporter, Report(r) PROVE ComplianceTypeOK'
    BY <1>3 DEF Report, agentVars, opVars, wireVars
  <1>4. ASSUME NEW r \in Reporter, ReadPrev(r) PROVE ComplianceTypeOK'
    BY <1>4 DEF ReadPrev, agentVars, opVars, wireVars, ghosts
  <1>5. ASSUME NEW r \in Reporter, SetStatus(r) PROVE ComplianceTypeOK'
    <2>1. \A hc : Posture(rep[r], hc) \in Status
      BY DEF Posture, Status
    <2>2. /\ status' \in Status /\ turns' \in 0 .. MaxTurns
          /\ new' \in [Reporter -> Status \cup {NoStatus}] /\ prev' \in [Reporter -> Status \cup {NoStatus}]
      <3>1. CASE UNCHANGED <<new, status, owed, turns>> /\ prev' = [prev EXCEPT ![r] = NoStatus]
        BY <3>1
      <3>2. ASSUME NEW hc \in BOOLEAN, Merged(hc), status' = Posture(rep[r], hc), UNCHANGED prev,
                   new' = [new EXCEPT ![r] = status']
            PROVE  /\ status' \in Status /\ turns' \in 0 .. MaxTurns
                   /\ new' \in [Reporter -> Status \cup {NoStatus}] /\ prev' \in [Reporter -> Status \cup {NoStatus}]
        BY <2>1, <3>2 DEF Merged
      <3>3. CASE turn /\ prev' = [prev EXCEPT ![r] = NoStatus] /\ UNCHANGED <<new, status, owed>>
        BY <3>3
      <3> QED
        BY <1>5, <3>1, <3>2, <3>3 DEF SetStatus
    <2> QED
      BY <1>5, <2>2 DEF SetStatus, agentVars, opVars, wireVars
  <1>6. ASSUME NEW r \in Reporter, CheckAuto(r) PROVE ComplianceTypeOK'
    BY <1>6 DEF CheckAuto, agentVars, opVars, wireVars
  <1>7. ASSUME NEW r \in Reporter, Insert(r) PROVE ComplianceTypeOK'
    <2>3. UNCHANGED <<agentVars, rep, prev, new, status, opVars, running, orphan>>
      BY <1>7 DEF Insert
    <2>4. pc' \in [Reporter -> {"idle", "read", "set", "auto", "insert", "flag", "dispatch", "mark"}]
      <3>1. pc' = [pc EXCEPT ![r] = "flag"] \/ pc' = [pc EXCEPT ![r] = "idle"]
        BY <1>7, Zenon DEF Insert
      <3> QED
        BY <3>1
    <2>5. turns' \in 0 .. MaxTurns
      <3>1. turns' = turns \/ turn
        BY <1>7, Zenon DEF Insert
      <3> QED
        BY <3>1
    <2>6. mine' = mine \/ mine' = [mine EXCEPT ![r] = Len(cmds) + 1]
      BY <1>7, Zenon DEF Insert
    <2>1. CASE Len(cmds) < MaxCmd /\ enqueue(TRUE)
      <3>1. cmds' \in Seq(Command) /\ Len(cmds') = Len(cmds) + 1
        BY <2>1, <1>0, RowAdded DEF enqueue, Command, Outcome
      <3>2. /\ Len(cmds') <= MaxCmd /\ opMine' \in 0 .. Len(cmds')
            /\ DOMAIN cmds' = 1 .. Len(cmds) + 1 /\ running' \subseteq DOMAIN cmds' /\ orphan' \subseteq DOMAIN cmds'
        BY <1>0, <2>1, <2>3, <3>1 DEF opVars
      <3>3. mine' \in [Reporter -> 0 .. Len(cmds) + 1]
        BY <1>0, <2>6
      <3> QED
        BY <2>3, <2>4, <2>5, <3>1, <3>2, <3>3 DEF agentVars, opVars
    <2>2. CASE UNCHANGED <<cmds, mine, apart>>
      BY <1>0, <2>2, <2>3, <2>4, <2>5 DEF agentVars, opVars
    <2> QED
      BY <1>7, <2>1, <2>2 DEF Insert
  <1>8. ASSUME NEW r \in Reporter, SetFlag(r) PROVE ComplianceTypeOK'
    BY <1>8 DEF SetFlag, agentVars, opVars, wireVars, ghosts
  <1>9. ASSUME NEW r \in Reporter, Dispatch(r) PROVE ComplianceTypeOK'
    <2>1. mine[r] \in 1 .. Len(cmds)
      BY <1>9 DEF Dispatch, Held
    <2>2. PICK done \in BOOLEAN : /\ reach(mine[r], done)
                                  /\ pc' = [pc EXCEPT ![r] = IF done THEN "mark" ELSE "idle"]
                                  /\ mine' = [mine EXCEPT ![r] = IF done THEN @ ELSE 0]
      BY <1>9 DEF Dispatch
    <2>3. turns' \in 0 .. MaxTurns /\ running' \in {running, running \cup {mine[r]}}
      BY <2>2 DEF reach
    <2> QED
      BY <1>0, <1>9, <2>1, <2>2, <2>3 DEF Dispatch, agentVars, opVars, ghosts
  <1>19. ASSUME NEW r \in Reporter, Mark(r) PROVE ComplianceTypeOK'
    <2>1. mine[r] \in 1 .. Len(cmds)
      BY <1>19 DEF Mark, Held
    <2>2. cmds' \in Seq(Command) /\ Len(cmds') = Len(cmds) /\ turns' \in 0 .. MaxTurns
      BY <1>0, <1>19, <2>1, MarkMoves DEF Mark
    <2> QED
      BY <1>0, <1>19, <2>1, <2>2 DEF Mark, agentVars, opVars, ghosts
  <1>10. ASSUME NEW on \in BOOLEAN, Patch(on) PROVE ComplianceTypeOK'
    BY <1>10 DEF Patch, agentVars, handlerVars, wireVars, ghosts
  <1>11. CASE Resolve
    <2>1. CASE Len(cmds) < MaxCmd /\ enqueue(opOn)
      <3>0. [on |-> opOn, st |-> "pending"] \in Command
        BY DEF SwitchesOK, Command, Outcome
      <3>1. cmds' \in Seq(Command) /\ Len(cmds') = Len(cmds) + 1
        BY <2>1, <1>0, <3>0, RowAdded DEF enqueue
      <3> QED
        BY <1>11, <2>1, <3>1 DEF Resolve, enqueue, agentVars, handlerVars
    <2>2. CASE UNCHANGED <<cmds, opMine, apart>>
      BY <1>11, <2>2 DEF Resolve, agentVars, handlerVars
    <2> QED
      BY <1>11, <2>1, <2>2 DEF Resolve
  <1>12. CASE OpDispatch
    <2>1. opMine \in 1 .. Len(cmds)
      BY <1>12 DEF OpDispatch, Held
    <2>2. PICK done \in BOOLEAN : /\ reach(opMine, done)
                                  /\ op' = (IF done THEN "mark" ELSE "idle") /\ opMine' = (IF done THEN opMine ELSE 0)
      BY <1>12 DEF OpDispatch
    <2>3. turns' \in 0 .. MaxTurns /\ running' \in {running, running \cup {opMine}}
      BY <2>2 DEF reach
    <2> QED
      BY <1>0, <1>12, <2>1, <2>2, <2>3 DEF OpDispatch, agentVars, handlerVars, ghosts
  <1>20. CASE OpMark
    <2>1. opMine \in 1 .. Len(cmds)
      BY <1>20 DEF OpMark, Held
    <2>2. cmds' \in Seq(Command) /\ Len(cmds') = Len(cmds) /\ turns' \in 0 .. MaxTurns
      BY <1>0, <1>20, <2>1, MarkMoves DEF OpMark
    <2> QED
      BY <1>0, <1>20, <2>1, <2>2 DEF OpMark, agentVars, handlerVars, ghosts
  <1>13. CASE SetTenantAutoQuarantine
    BY <1>13 DEF SetTenantAutoQuarantine, agentVars, handlerVars, opVars, wireVars
  <1>14. ASSUME NEW i \in 1 .. MaxCmd, Execute(i) PROVE ComplianceTypeOK'
    <2>1. i \in 1 .. Len(cmds)
      BY <1>0, <1>14 DEF Execute
    <2>2. CASE cmds' = cmds
      BY <1>0, <1>14, <2>1, <2>2 DEF Execute, agentVars, handlerVars, opVars, ghosts
    <2>3. ASSUME NEW t \in Outcome, cmds' = [cmds EXCEPT ![i].st = t]
          PROVE  cmds' \in Seq(Command) /\ Len(cmds') = Len(cmds)
      BY <1>0, <2>1, <2>3, RowMarked, Zenon
    <2>4. "success" \in Outcome /\ "failed" \in Outcome
      BY DEF Outcome
    <2>5. cmds' = cmds \/ (cmds' \in Seq(Command) /\ Len(cmds') = Len(cmds))
      BY <1>14, <2>3, <2>4, Zenon DEF Execute
    <2> QED
      BY <1>0, <1>14, <2>1, <2>2, <2>5 DEF Execute, agentVars, handlerVars, opVars, ghosts
  <1>15. CASE Disconnect
    BY <1>15 DEF Disconnect, agentVars, handlerVars, opVars, ghosts
  <1>16. CASE Connect
    <2>1. cmds' \in Seq(Command) /\ Len(cmds') = Len(cmds)
      BY <1>0, <1>16, RowsFlushed DEF Connect
    <2> QED
      BY <1>0, <1>16, <2>1 DEF Connect, agentVars, handlerVars, opVars, ghosts
  <1>17. CASE Environment
    BY <1>17 DEF Environment, handlerVars, opVars, wireVars, ghosts
  <1>18. CASE UNCHANGED complianceVars
    BY <1>18 DEF complianceVars, agentVars, handlerVars, opVars, wireVars, ghosts
  <1> QED
    BY <1>1, <1>2, <1>3, <1>4, <1>5, <1>6, <1>7, <1>8, <1>9, <1>10, <1>11, <1>12, <1>13, <1>14,
       <1>15, <1>16, <1>17, <1>18, <1>19, <1>20 DEF ComplianceNext

-----------------------------------------------------------------------------
(* The automatic quarantine                                                 *)

\* Every step keeps AutoInv: only the handler that is at work writes the status.
LEMMA AutoStep == ComplianceTypeOK /\ AutoInv /\ [ComplianceNext]_complianceVars => AutoInv'
  <1> SUFFICES ASSUME ComplianceTypeOK, AutoInv PROVE [ComplianceNext]_complianceVars => AutoInv'
    OBVIOUS
  <1>t. /\ pc \in [Reporter -> {"idle", "read", "set", "auto", "insert", "flag", "dispatch", "mark"}]
        /\ prev \in [Reporter -> Status \cup {NoStatus}] /\ new \in [Reporter -> Status \cup {NoStatus}]
    BY DEF ComplianceTypeOK
  <1>u. ASSUME UNCHANGED <<pc, prev, new, status, auto, owed, alone>> PROVE AutoInv'
    BY <1>u DEF AutoInv, Debtor, Enters
  <1>1. CASE SyncStart
    BY <1>1, <1>u DEF SyncStart, handlerVars, opVars, wireVars, ghosts
  <1>2. CASE SyncEnd
    BY <1>2, <1>u DEF SyncEnd, handlerVars, opVars, wireVars, ghosts
  <1>3. ASSUME NEW r \in Reporter, Report(r) PROVE AutoInv'
    BY <1>t, <1>3, NoStatusIsNone DEF AutoInv, Debtor, Enters, Report, agentVars, opVars, wireVars, Status
  <1>4. ASSUME NEW r \in Reporter, ReadPrev(r) PROVE AutoInv'
    BY <1>t, <1>4, NoStatusIsNone DEF AutoInv, Debtor, Enters, ReadPrev, agentVars, opVars, wireVars, ghosts, Status
  <1>5. ASSUME NEW r \in Reporter, SetStatus(r) PROVE AutoInv'
    BY <1>t, <1>5, NoStatusIsNone DEF AutoInv, Debtor, Enters, SetStatus, agentVars, opVars, wireVars, Status
  <1>6. ASSUME NEW r \in Reporter, CheckAuto(r) PROVE AutoInv'
    BY <1>t, <1>6, NoStatusIsNone DEF AutoInv, Debtor, Enters, CheckAuto, agentVars, opVars, wireVars, Status
  <1>7. ASSUME NEW r \in Reporter, Insert(r) PROVE AutoInv'
    BY <1>t, <1>7, NoStatusIsNone DEF AutoInv, Debtor, Enters, Insert, enqueue, agentVars, opVars, Status
  <1>8. ASSUME NEW r \in Reporter, SetFlag(r) PROVE AutoInv'
    BY <1>t, <1>8, NoStatusIsNone DEF AutoInv, Debtor, Enters, SetFlag, agentVars, opVars, wireVars, ghosts, Status
  <1>9. ASSUME NEW r \in Reporter, Dispatch(r) PROVE AutoInv'
    BY <1>t, <1>9, NoStatusIsNone DEF AutoInv, Debtor, Enters, Dispatch, agentVars, opVars, ghosts, Status
  <1>19. ASSUME NEW r \in Reporter, Mark(r) PROVE AutoInv'
    BY <1>t, <1>19, NoStatusIsNone DEF AutoInv, Debtor, Enters, Mark, agentVars, opVars, ghosts, Status
  <1>10. ASSUME NEW on \in BOOLEAN, Patch(on) PROVE AutoInv'
    BY <1>10, <1>u DEF Patch, agentVars, handlerVars, wireVars, ghosts
  <1>11. CASE Resolve
    BY <1>11, <1>u DEF Resolve, enqueue, agentVars, handlerVars
  <1>12. CASE OpDispatch
    BY <1>12, <1>u DEF OpDispatch, agentVars, handlerVars, ghosts
  <1>20. CASE OpMark
    BY <1>20, <1>u DEF OpMark, agentVars, handlerVars, ghosts
  <1>13. CASE SetTenantAutoQuarantine
    BY <1>t, <1>13, NoStatusIsNone DEF AutoInv, Debtor, Enters, SetTenantAutoQuarantine, agentVars, handlerVars, opVars, wireVars, Status
  <1>14. ASSUME NEW i \in 1 .. MaxCmd, Execute(i) PROVE AutoInv'
    BY <1>14, <1>u DEF Execute, agentVars, handlerVars, opVars, ghosts
  <1>15. CASE Disconnect
    BY <1>15, <1>u DEF Disconnect, agentVars, handlerVars, opVars, ghosts
  <1>16. CASE Connect
    BY <1>16, <1>u DEF Connect, agentVars, handlerVars, opVars, ghosts
  <1>17. CASE Environment
    BY <1>17, <1>u DEF Environment, handlerVars, opVars, wireVars, ghosts
  <1>18. CASE UNCHANGED complianceVars
    BY <1>18, <1>u DEF complianceVars, agentVars, handlerVars, opVars, wireVars, ghosts
  <1> QED
    BY <1>1, <1>2, <1>3, <1>4, <1>5, <1>6, <1>7, <1>8, <1>9, <1>10, <1>11, <1>12, <1>13, <1>14,
       <1>15, <1>16, <1>17, <1>18, <1>19, <1>20 DEF ComplianceNext

-----------------------------------------------------------------------------
(* The commands                                                             *)

\* enqueue at rest leaves the new command as the only one that can be under way.
LEMMA EnqueueMoves ==
  ASSUME NEW on \in BOOLEAN, enqueue(on), cmds \in Seq(Command)
  PROVE  /\ Len(cmds') = Len(cmds) + 1 /\ cmds'[Len(cmds')].st = "pending"
         /\ \A i \in 1 .. Len(cmds) : cmds'[i] = cmds[i]
         /\ apart' => AtRest
  <1>1. [on |-> on, st |-> "pending"] \in Command
    BY DEF Command, Outcome
  <1>2. Len(cmds') = Len(cmds) + 1 /\ cmds'[Len(cmds) + 1] = [on |-> on, st |-> "pending"]
    BY <1>1, RowAdded DEF enqueue
  <1>3. \A i \in 1 .. Len(cmds) : cmds'[i] = cmds[i]
    BY <1>1, RowAdded DEF enqueue
  <1>4. apart' => AtRest
    BY Zenon DEF enqueue
  <1> QED
    BY <1>2, <1>3, <1>4

\* Every step keeps what is known of the commands under way.
LEMMA FlagStep ==
  ComplianceTypeOK /\ Held /\ FlagInv /\ [ComplianceNext]_complianceVars => Held' /\ FlagInv'
  <1> SUFFICES ASSUME ComplianceTypeOK, Held, FlagInv PROVE [ComplianceNext]_complianceVars => Held' /\ FlagInv'
    OBVIOUS
  <1>t. /\ pc \in [Reporter -> {"idle", "read", "set", "auto", "insert", "flag", "dispatch", "mark"}]
        /\ cmds \in Seq(Command) /\ Len(cmds) \in Nat /\ turns \in 0 .. MaxTurns
        /\ mine \in [Reporter -> 0 .. Len(cmds)] /\ opMine \in 0 .. Len(cmds) /\ opOn \in BOOLEAN
        /\ running \subseteq 1 .. Len(cmds) /\ orphan \subseteq 1 .. Len(cmds)
    BY DEF ComplianceTypeOK, SwitchesOK
  <1>u. ASSUME UNCHANGED <<pc, op, mine, opMine, cmds, running, orphan, isolated, apart>> PROVE Held' /\ FlagInv'
    BY <1>u DEF Held, FlagInv
  <1>v. ASSUME NEW r \in Reporter, NEW l, l \notin {"flag", "dispatch", "mark"} \/ pc[r] \in {"flag", "dispatch", "mark"},
               pc' = [pc EXCEPT ![r] = l], UNCHANGED <<op, mine, opMine, cmds, running, orphan, isolated, apart>>
        PROVE  Held' /\ FlagInv'
    BY <1>t, <1>v DEF Held, FlagInv
  <1>1. CASE SyncStart
    BY <1>1, <1>u DEF SyncStart, handlerVars, opVars, wireVars, ghosts
  <1>2. CASE SyncEnd
    BY <1>2, <1>u DEF SyncEnd, handlerVars, opVars, wireVars, ghosts
  <1>3. ASSUME NEW r \in Reporter, Report(r) PROVE Held' /\ FlagInv'
    BY <1>t, <1>3, <1>v DEF Report, agentVars, opVars, wireVars, ghosts
  <1>4. ASSUME NEW r \in Reporter, ReadPrev(r) PROVE Held' /\ FlagInv'
    BY <1>t, <1>4, <1>v DEF ReadPrev, agentVars, opVars, wireVars, ghosts, ghosts
  <1>5. ASSUME NEW r \in Reporter, SetStatus(r) PROVE Held' /\ FlagInv'
    BY <1>t, <1>5, <1>v DEF SetStatus, agentVars, opVars, wireVars, ghosts
  <1>6. ASSUME NEW r \in Reporter, CheckAuto(r) PROVE Held' /\ FlagInv'
    BY <1>t, <1>6, <1>v DEF CheckAuto, agentVars, opVars, wireVars, ghosts
  <1>7. ASSUME NEW r \in Reporter, Insert(r) PROVE Held' /\ FlagInv'
    <2>1. CASE UNCHANGED <<cmds, mine, apart>>
      <3>1. pc' = [pc EXCEPT ![r] = "idle"]
        BY <1>7, <1>t, <2>1 DEF Insert, enqueue
      <3> QED
        BY <1>7, <1>v, <2>1, <3>1 DEF Insert, opVars
    <2>2. CASE enqueue(TRUE) /\ mine' = [mine EXCEPT ![r] = Len(cmds) + 1] /\ pc' = [pc EXCEPT ![r] = "flag"]
      <3>1. Len(cmds') = Len(cmds) + 1 /\ cmds'[Len(cmds')].st = "pending" /\ (apart' => AtRest)
            /\ \A i \in 1 .. Len(cmds) : cmds'[i] = cmds[i]
        BY <1>t, <2>2, EnqueueMoves
      <3>2. UNCHANGED <<op, opMine, running, orphan, isolated>>
        BY <1>7 DEF Insert, opVars
      <3>3. Held'
        BY <1>t, <2>2, <3>1, <3>2 DEF Held
      <3>4. FlagInv'
        BY <1>t, <2>2, <3>1, <3>2 DEF FlagInv, AtRest
      <3> QED
        BY <3>3, <3>4
    <2> QED
      BY <1>7, <2>1, <2>2 DEF Insert
  <1>8. ASSUME NEW r \in Reporter, SetFlag(r) PROVE Held' /\ FlagInv'
    BY <1>t, <1>8, <1>v DEF SetFlag, agentVars, opVars, wireVars, ghosts, ghosts
  <1>9. ASSUME NEW r \in Reporter, Dispatch(r) PROVE Held' /\ FlagInv'
    <2>1. pc[r] = "dispatch" /\ mine[r] \in 1 .. Len(cmds)
      BY <1>9 DEF Dispatch, Held
    <2>2. PICK done \in BOOLEAN : /\ reach(mine[r], done)
                                  /\ pc' = [pc EXCEPT ![r] = IF done THEN "mark" ELSE "idle"]
                                  /\ mine' = [mine EXCEPT ![r] = IF done THEN @ ELSE 0]
      BY <1>9 DEF Dispatch
    <2>3. running' \in {running, running \cup {mine[r]}}
      BY <2>2 DEF reach
    <2>4. UNCHANGED <<op, opMine, cmds, orphan, isolated, apart>>
      BY <1>9 DEF Dispatch, opVars, ghosts
    <2>5. Held'
      BY <1>t, <2>1, <2>2, <2>4 DEF Held
    <2>6. FlagInv'
      BY <1>t, <2>1, <2>2, <2>3, <2>4 DEF FlagInv
    <2> QED
      BY <2>5, <2>6
  <1>19. ASSUME NEW r \in Reporter, Mark(r) PROVE Held' /\ FlagInv'
    <2>1. mine[r] \in 1 .. Len(cmds)
      BY <1>19 DEF Mark, Held
    <2>2. /\ Len(cmds') = Len(cmds)
          /\ \A j \in 1 .. Len(cmds) : /\ cmds'[j].on = cmds[j].on
                                       /\ cmds'[j].st = "success" => cmds[j].st = "success"
                                       /\ cmds'[j].st = "pending" => cmds[j].st = "pending"
      BY <1>t, <1>19, <2>1, MarkMoves DEF Mark
    <2>3. Held'
      BY <1>t, <1>19, <2>2 DEF Held, Mark, opVars
    <2>4. FlagInv'
      <3>1. mine' = [mine EXCEPT ![r] = 0] /\ UNCHANGED <<opMine, running, orphan, isolated, apart>>
        BY <1>19 DEF Mark, opVars, ghosts
      <3> QED
        BY <1>t, <2>1, <2>2, <3>1 DEF FlagInv
    <2> QED
      BY <2>3, <2>4
  <1>10. ASSUME NEW on \in BOOLEAN, Patch(on) PROVE Held' /\ FlagInv'
    BY <1>t, <1>10 DEF Held, FlagInv, Patch, agentVars, handlerVars, wireVars, ghosts
  <1>11. CASE Resolve
    <2>1. CASE UNCHANGED <<cmds, opMine, apart>> /\ op' = "idle"
      BY <1>11, <2>1 DEF Resolve, Held, FlagInv, handlerVars
    <2>2. CASE enqueue(opOn) /\ opMine' = Len(cmds) + 1 /\ op' = "dispatch"
      <3>1. Len(cmds') = Len(cmds) + 1 /\ cmds'[Len(cmds')].st = "pending" /\ (apart' => AtRest)
            /\ \A i \in 1 .. Len(cmds) : cmds'[i] = cmds[i]
        BY <1>t, <2>2, EnqueueMoves
      <3>2. UNCHANGED <<pc, mine, running, orphan, isolated>>
        BY <1>11 DEF Resolve, handlerVars
      <3>3. Held'
        BY <1>t, <2>2, <3>1, <3>2 DEF Held
      <3>4. FlagInv'
        BY <1>t, <2>2, <3>1, <3>2 DEF FlagInv, AtRest
      <3> QED
        BY <3>3, <3>4
    <2> QED
      BY <1>11, <2>1, <2>2 DEF Resolve
  <1>12. CASE OpDispatch
    <2>1. op = "dispatch" /\ opMine \in 1 .. Len(cmds)
      BY <1>12 DEF OpDispatch, Held
    <2>2. PICK done \in BOOLEAN : /\ reach(opMine, done)
                                  /\ op' = (IF done THEN "mark" ELSE "idle") /\ opMine' = (IF done THEN opMine ELSE 0)
      BY <1>12 DEF OpDispatch
    <2>3. running' \in {running, running \cup {opMine}}
      BY <2>2 DEF reach
    <2>4. UNCHANGED <<pc, mine, cmds, orphan, isolated, apart>>
      BY <1>12 DEF OpDispatch, handlerVars, ghosts
    <2>5. Held'
      BY <1>t, <2>1, <2>2, <2>4 DEF Held
    <2>6. FlagInv'
      BY <1>t, <2>1, <2>2, <2>3, <2>4 DEF FlagInv
    <2> QED
      BY <2>5, <2>6
  <1>20. CASE OpMark
    <2>1. opMine \in 1 .. Len(cmds)
      BY <1>20 DEF OpMark, Held
    <2>2. /\ Len(cmds') = Len(cmds)
          /\ \A j \in 1 .. Len(cmds) : /\ cmds'[j].on = cmds[j].on
                                       /\ cmds'[j].st = "success" => cmds[j].st = "success"
                                       /\ cmds'[j].st = "pending" => cmds[j].st = "pending"
      BY <1>t, <1>20, <2>1, MarkMoves DEF OpMark
    <2>3. opMine' = 0 /\ op' = "idle" /\ UNCHANGED <<pc, mine, running, orphan, isolated, apart>>
      BY <1>20 DEF OpMark, handlerVars, ghosts
    <2>4. Held'
      BY <1>t, <2>2, <2>3 DEF Held
    <2>5. FlagInv'
      BY <1>t, <2>1, <2>2, <2>3 DEF FlagInv
    <2> QED
      BY <2>4, <2>5
  <1>13. CASE SetTenantAutoQuarantine
    BY <1>13, <1>u DEF SetTenantAutoQuarantine, agentVars, handlerVars, opVars, wireVars
  <1>14. ASSUME NEW i \in 1 .. MaxCmd, Execute(i) PROVE Held' /\ FlagInv'
    <2>1. PICK ok \in BOOLEAN :
            /\ isolated' = IF ok THEN cmds[i].on ELSE isolated
            /\ \/ /\ i \in running /\ running' = running \ {i} /\ UNCHANGED orphan
                  /\ cmds' = [cmds EXCEPT ![i].st = IF ok THEN "success" ELSE "failed"]
               \/ i \in orphan /\ orphan' = orphan \ {i} /\ UNCHANGED <<running, cmds>>
      BY <1>14 DEF Execute
    <2>2. i \in 1 .. Len(cmds) /\ UNCHANGED <<pc, op, mine, opMine, apart>> /\ (apart => i = Len(cmds))
      BY <1>t, <1>14 DEF Execute, FlagInv, handlerVars, opVars, ghosts
    <2>3. CASE UNCHANGED cmds
      BY <1>t, <2>1, <2>2, <2>3 DEF Held, FlagInv
    <2>4. CASE running' = running \ {i} /\ UNCHANGED orphan /\ cmds' = [cmds EXCEPT ![i].st = IF ok THEN "success" ELSE "failed"]
      <3>1. (IF ok THEN "success" ELSE "failed") \in Outcome
        BY DEF Outcome
      <3>2. /\ cmds' \in Seq(Command) /\ Len(cmds') = Len(cmds)
            /\ \A j \in 1 .. Len(cmds) : cmds'[j] = IF j = i THEN [on |-> cmds[i].on, st |-> IF ok THEN "success" ELSE "failed"]
                                                             ELSE cmds[j]
        BY <1>t, <2>2, <2>4, <3>1, RowMarked, Zenon
      <3> QED
        BY <1>t, <2>1, <2>2, <2>4, <3>2 DEF Held, FlagInv
    <2> QED
      BY <2>1, <2>3, <2>4
  <1>15. CASE Disconnect
    BY <1>t, <1>15 DEF Disconnect, Held, FlagInv, handlerVars, opVars, ghosts
  <1>16. CASE Connect
    <2>1. /\ Len(cmds') = Len(cmds)
          /\ \A j \in 1 .. Len(cmds) : /\ cmds'[j].on = cmds[j].on
                                       /\ cmds'[j].st = IF cmds[j].st = "pending" THEN "sent" ELSE cmds[j].st
      BY <1>t, <1>16, RowsFlushed DEF Connect
    <2>2. apart => running' \subseteq {Len(cmds)}
      <3>1. running' = {j \in 1 .. Len(cmds) : cmds[j].st = "pending"}
        BY <1>t, <1>16 DEF Connect
      <3> QED
        BY <1>t, <3>1 DEF FlagInv
    <2> QED
      BY <1>t, <1>16, <2>1, <2>2 DEF Connect, Held, FlagInv, handlerVars, opVars, ghosts
  <1>17. CASE Environment
    BY <1>17, <1>u DEF Environment, handlerVars, opVars, wireVars, ghosts
  <1>18. CASE UNCHANGED complianceVars
    BY <1>18, <1>u DEF complianceVars, agentVars, handlerVars, opVars, wireVars, ghosts
  <1> QED
    BY <1>1, <1>2, <1>3, <1>4, <1>5, <1>6, <1>7, <1>8, <1>9, <1>10, <1>11, <1>12, <1>13, <1>14,
       <1>15, <1>16, <1>17, <1>18, <1>19, <1>20 DEF ComplianceNext

-----------------------------------------------------------------------------
(* The theorems                                                             *)

\* The inductive invariant holds in every state.
THEOREM ComplianceInvariant == ComplianceSpec => []ComplianceIInv
  <1>1. ComplianceIInv /\ [ComplianceNext]_complianceVars => ComplianceIInv'
    BY ComplianceTypeStep, AutoStep, FlagStep DEF ComplianceIInv
  <1> QED
    BY <1>1, ComplianceInitOK, PTL DEF ComplianceSpec

\* Whatever the handlers, operators and the connection do: types, no automatic quarantine that
\* stays owed while handlers follow one another (AutoQuarantineFollows), and a device that
\* agrees with the column and the newest command when commands follow one another
\* (FlagIsIsolation).
THEOREM QuarantineIsSound == ComplianceSpec => []ComplianceInv
  <1>1. ComplianceIInv => AutoQuarantineFollows
    BY DEF ComplianceIInv, AutoInv, Debtor, AutoQuarantineFollows
  <1>2. ASSUME ComplianceIInv PROVE FlagIsIsolation
    <2>1. SUFFICES ASSUME apart, Len(cmds) > 0, cmds[Len(cmds)] = [on |-> flag, st |-> "success"] PROVE flag <=> isolated
      BY DEF FlagIsIsolation
    <2>2. isolated = cmds[Len(cmds)].on
      BY <1>2, <2>1 DEF ComplianceIInv, FlagInv
    <2> QED
      BY <2>1, <2>2
  <1>3. ComplianceIInv => ComplianceInv
    BY <1>1, <1>2 DEF ComplianceIInv, ComplianceInv
  <1> QED
    BY <1>3, ComplianceInvariant, PTL

=============================================================================
