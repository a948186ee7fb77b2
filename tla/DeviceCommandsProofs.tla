------------------------ MODULE DeviceCommandsProofs ------------------------
(***************************************************************************)
(* Proofs about the device command queue for any set of commands, devices    *)
(* and certificates, with SQL faults, crashes and re-enrolments in any        *)
(* number: a status never claims more than what happened.                    *)
(*                                                                         *)
(* What the table says follows from what the goroutines hold, so the          *)
(* invariant ties each of them to the histories: a dispatcher that sends      *)
(* holds its own command (Carries), one that was told true has it in enq      *)
(* (Accepted), a downlink the agent works on is in got (WorkingGot), and the   *)
(* result readPump applies is one of those (Applying).                       *)
(***************************************************************************)
EXTENDS DeviceCommands, C2HubProofs, FiniteSetTheorems

\* The serial an issuing goroutine dispatches to has been resolved.
Resolved == \A c \in Cmd : pc[c] \in {"insert", "dispatch"} => target[c] \in Serial

\* A dispatcher in dispatchRaw's select holds the downlink of its own command.
Carries ==
  /\ \A c \in Cmd : dpc[c] = "sending" => dmsg[c] = <<c, c>>
  /\ \A s \in Session : dpc[s] = "sending" => flcur[s] \in Cmd /\ dmsg[s] = <<flcur[s], s>>

\* Dispatch answers true only for a command some queue has accepted.
Accepted ==
  /\ \A c \in Cmd : dpc[c] = "true" => c \in enq
  /\ \A s \in Session : dpc[s] = "true" => flcur[s] \in enq

\* Every downlink the agent works on has been received.
WorkingGot == \A s \in Session : \A m \in working[s] : m[1] \in got

\* The result readPump applies or journals is of a received command.
Applying ==
  \A s \in Session : rd[s] \in {"apply", "journal"} =>
    /\ cur[s] \in Result /\ cur[s].cmd \in got
    /\ rd[s] = "journal" => status[cur[s].cmd] # "none"

\* A goroutine that journals a failure has a row to read.
Journalling == \A c \in Cmd : pc[c] = "journal" => status[c] # "none"

CmdInv ==
  /\ TypeOK /\ SendingHolds /\ Resolved /\ Carries /\ Accepted /\ WorkingGot
  /\ Applying /\ Journalling /\ SentWasEnqueued /\ SuccessWasDelivered

\* Commands and sessions are dispatchers, and never the same one.
LEMMA Dispatchers ==
  /\ Cmd \subseteq Dispatcher /\ Session \subseteq Dispatcher
  /\ \A c \in Cmd, s \in Session : c # s
  /\ \A d \in Dispatcher : d \in Cmd \/ d \in Session
  /\ \A c \in Cmd, d \in Dispatcher : <<c, d>> \in Msg /\ <<c, d>>[1] = c
  /\ \A m \in Msg : m[1] \in Cmd
  BY CommandAssumption

\* An empty table satisfies the invariant.
LEMMA CmdInitInv == Init => CmdInv
  <1> SUFFICES ASSUME Init PROVE CmdInv
    OBVIOUS
  <1>1. HubInv
    BY HubInitInv DEF Init
  <1>2. TypeOK
    BY <1>1 DEF Init, TypeOK, HubInv
  <1>3. dpc = [d \in Dispatcher |-> "idle"] /\ rd = [s \in Session |-> "unused"]
    BY DEF Init, HubInit
  <1>4. SendingHolds
    BY <1>1 DEF HubInv
  <1>5. Resolved /\ Journalling
    BY DEF Init, Resolved, Journalling
  <1>6. Carries /\ Accepted
    BY <1>3, Dispatchers DEF Carries, Accepted
  <1>7. WorkingGot
    BY DEF Init, WorkingGot
  <1>8. Applying
    BY <1>3 DEF Applying
  <1>9. SentWasEnqueued /\ SuccessWasDelivered
    BY DEF Init, SentWasEnqueued, SuccessWasDelivered
  <1> QED BY <1>2, <1>4, <1>5, <1>6, <1>7, <1>8, <1>9 DEF CmdInv

-----------------------------------------------------------------------------
(* The hub's part of a step: one of its own actions, readPump moving between  *)
(* reading, applying and journalling, or the end of the process.              *)

ReadPumpMove ==
  /\ \E s \in Session, x \in {"reading", "apply", "journal"} :
       rd[s] \in {"reading", "apply", "journal"} /\ rd' = [rd EXCEPT ![s] = x]
  /\ UNCHANGED <<bySerial, conn, link, prev, wr, send, chClosed, dispVars>>

\* Every step of the composition is, for the hub, one of these.
LEMMA HubPart == CmdInv /\ [Next]_vars => [HubNext]_hubVars \/ ReadPumpMove \/ Stop
  <1> SUFFICES ASSUME CmdInv, [Next]_vars PROVE [HubNext]_hubVars \/ ReadPumpMove \/ Stop
    OBVIOUS
  <1> DEFINE Goal == [HubNext]_hubVars \/ ReadPumpMove \/ Stop
  <1>1. ASSUME NEW c \in Cmd, IssueStart(c) \/ QueueInsert(c) \/ ResolveAsset(c) \/ Refuse(c) \/ IssueJournal(c)
        PROVE  Goal
    BY <1>1 DEF IssueStart, QueueInsert, ResolveAsset, Refuse, IssueJournal
  <1>2. ASSUME NEW c \in Cmd, IssueDispatch(c) PROVE Goal
    <2>1. c \in Dispatcher /\ target[c] \in Serial /\ <<c, c>> \in Msg
      BY <1>2, Dispatchers DEF IssueDispatch, CmdInv, Resolved
    <2> QED BY <1>2, <2>1 DEF IssueDispatch, HubNext
  <1>3. ASSUME NEW c \in Cmd, IssueResult(c) PROVE Goal
    BY <1>3, Dispatchers DEF IssueResult, HubNext
  <1>4. ASSUME NEW s \in Session, StartSession(s) \/ EndSession(s) \/ Deliver(s) PROVE Goal
    BY <1>4 DEF StartSession, EndSession, Deliver, HubNext, SessionStep
  <1>5. ASSUME NEW s \in Session, FlushList(s) \/ FlushEnd(s) PROVE Goal
    BY <1>5 DEF FlushList, FlushEnd
  <1>6. ASSUME NEW s \in Session, FlushDispatch(s) PROVE Goal
    <2>1. flset[s] \subseteq Cmd
      BY DEF CmdInv, TypeOK
    <2>2. SerialOf(s) \in Serial /\ s \in Dispatcher
      BY SessionPair, Dispatchers
    <2> QED BY <1>6, <2>1, <2>2, Dispatchers DEF FlushDispatch, HubNext
  <1>7. ASSUME NEW s \in Session, FlushResult(s) PROVE Goal
    BY <1>7, Dispatchers DEF FlushResult, HubNext
  <1>8. ASSUME NEW s \in Session, FlushPanic(s) PROVE Goal
    BY <1>8 DEF FlushPanic
  <1>9. ASSUME NEW s \in Session, ReadResult(s) PROVE Goal
    <2>1. CASE UNCHANGED rd
      BY <1>9, <2>1 DEF ReadResult, hubVars, dispVars
    <2>2. CASE rd' = [rd EXCEPT ![s] = "apply"]
      BY <1>9, <2>2 DEF ReadResult, ReadPumpMove
    <2> QED BY <1>9, <2>1, <2>2 DEF ReadResult
  <1>10. ASSUME NEW s \in Session, ApplyResult(s) \/ ResultJournal(s) PROVE Goal
    BY <1>10 DEF ApplyResult, ResultJournal, ReadPumpMove
  <1>11. ASSUME NEW d \in Dispatcher, Enqueue(d) \/ QueueFull(d) PROVE Goal
    BY <1>11 DEF Enqueue, QueueFull, HubNext, DispatchSelect
  <1>12. ASSUME HubStep PROVE Goal
    BY <1>12 DEF HubStep, HubNext, SessionStep, DispatchSelect
  <1>13. ASSUME Crash PROVE Goal
    BY <1>13 DEF Crash
  <1>14. ASSUME NEW a \in Device, NEW c \in Serial, Reenroll(a, c) PROVE Goal
    BY <1>14 DEF Reenroll
  <1>15. CASE UNCHANGED vars
    BY <1>15 DEF vars
  <1> QED BY <1>1, <1>2, <1>3, <1>4, <1>5, <1>6, <1>7, <1>8, <1>9, <1>10, <1>11, <1>12,
             <1>13, <1>14, <1>15 DEF Next

\* Hence the hub's own invariants carry over to the composition.
LEMMA HubPartTypes == CmdInv /\ [Next]_vars => HubTypeOK' /\ SendingHolds'
  <1> SUFFICES ASSUME CmdInv, [Next]_vars PROVE HubTypeOK' /\ SendingHolds'
    OBVIOUS
  <1>1. HubTypeOK /\ SendingHolds
    BY DEF CmdInv, TypeOK
  <1>2. CASE [HubNext]_hubVars
    BY <1>1, <1>2, HubTypeStep, SendingStep
  <1>3. CASE ReadPumpMove
    BY <1>1, <1>3 DEF ReadPumpMove, HubTypeOK, SendingHolds, dispVars
  <1>4. CASE Stop
    BY <1>1, <1>4 DEF Stop, HubTypeOK, SendingHolds
  <1> QED BY <1>2, <1>3, <1>4, HubPart

-----------------------------------------------------------------------------
(* Types of the table, the goroutines and the histories.                     *)

\* TypeOK without the hub's part.
CmdTypes ==
  /\ cert \in [Device -> Serial \cup {NoSerial}]
  /\ status \in [Cmd -> {"none", "pending", "sent", "completed", "failed"}]
  /\ output \in [Cmd -> {"", "result", "notConnected", "noCert"}]
  /\ stamped \in [Cmd -> BOOLEAN]
  /\ age \in [Cmd -> Nat]
  /\ notes \in [Cmd -> SUBSET Note] /\ unnoted \subseteq Result
  /\ pc \in [Cmd -> {"idle", "insert", "resolve", "refuse", "dispatch", "wait", "journal", "done"}]
  /\ target \in [Cmd -> Serial \cup {NoSerial}]
  /\ fl \in [Session -> {"off", "list", "next", "wait", "done"}]
  /\ flset \in [Session -> SUBSET Cmd]
  /\ flcur \in [Session -> Cmd \cup {NoCmd}]
  /\ working \in [Session -> SUBSET Msg]
  /\ cur \in [Session -> Result \cup {NoResult}]
  /\ crashes \in Nat /\ reenrolls \in Nat
  /\ enq \subseteq Cmd /\ got \subseteq Cmd /\ tried \subseteq Session \X Cmd /\ caught \subseteq Session

RowTypes ==
  /\ status \in [Cmd -> {"none", "pending", "sent", "completed", "failed"}]
  /\ output \in [Cmd -> {"", "result", "notConnected", "noCert"}]
  /\ stamped \in [Cmd -> BOOLEAN]
  /\ age \in [Cmd -> Nat]
  /\ notes \in [Cmd -> SUBSET Note] /\ unnoted \subseteq Result

\* Each SQL statement of device_commands.go keeps the row's types.
LEMMA StatementTypes ==
  ASSUME RowTypes, NEW c \in Cmd
  PROVE  /\ InsertDeviceCommand(c) => RowTypes'
         /\ \A st \in {"sent", "completed", "failed"}, out \in {"", "result", "notConnected", "noCert"},
               b \in BOOLEAN : updateDeviceCommandStatus(c, st, out, b) => RowTypes'
         /\ MarkDeviceCommandSent(c) => RowTypes'
         /\ FailDeviceCommandIfPending(c) => RowTypes'
         /\ \A ok \in BOOLEAN : status[c] # "none" /\ AppendIncidentJournal(c, ok) => RowTypes'
         /\ UNCHANGED rowVars => RowTypes'
  <1>1. InsertDeviceCommand(c) => RowTypes'
    <2> DEFINE n == Cardinality({b \in Cmd : status[b] # "none"})
    <2>1. n \in Nat
      BY FS_Subset, FS_CardinalityType, CommandAssumption
    <2>2. InsertDeviceCommand(c) =>
            /\ status' = [status EXCEPT ![c] = "pending"] /\ age' = [age EXCEPT ![c] = n + 1]
            /\ output' = output /\ stamped' = stamped /\ notes' = notes /\ unnoted' = unnoted
      BY DEF InsertDeviceCommand
    <2> HIDE DEF n
    <2>3. n + 1 \in Nat
      BY <2>1
    <2>6. age \in [Cmd -> Nat]
      BY DEF RowTypes
    <2>4. InsertDeviceCommand(c) => age' \in [Cmd -> Nat]
      BY <2>2, <2>3, <2>6
    <2>5. InsertDeviceCommand(c) => status' \in [Cmd -> {"none", "pending", "sent", "completed", "failed"}]
      BY <2>2 DEF RowTypes
    <2> QED BY <2>2, <2>4, <2>5 DEF RowTypes
  <1>2. ASSUME NEW st \in {"sent", "completed", "failed"}, NEW out \in {"", "result", "notConnected", "noCert"},
               NEW b \in BOOLEAN, updateDeviceCommandStatus(c, st, out, b)
        PROVE  RowTypes'
    BY <1>2 DEF RowTypes, updateDeviceCommandStatus
  <1>3. UNCHANGED rowVars => RowTypes'
    BY DEF RowTypes, rowVars
  <1>4. MarkDeviceCommandSent(c) => RowTypes'
    BY <1>2, <1>3 DEF MarkDeviceCommandSent
  <1>5. FailDeviceCommandIfPending(c) => RowTypes'
    BY <1>3 DEF RowTypes, FailDeviceCommandIfPending, rowVars
  <1>6. ASSUME NEW ok \in BOOLEAN, status[c] # "none", AppendIncidentJournal(c, ok) PROVE RowTypes'
    <2>1. [ok |-> ok] \in Note /\ [cmd |-> c, ok |-> ok] \in Result
      BY DEF Note, Result
    <2>2. notes' \in [Cmd -> SUBSET Note]
      <3> DEFINE n == [ok |-> ok]
      <3>1. notes' = [notes EXCEPT ![c] = @ \cup {n}] \/ notes' = notes
        BY <1>6 DEF AppendIncidentJournal
      <3>2. n \in Note
        BY <2>1
      <3>3. notes \in [Cmd -> SUBSET Note] /\ notes[c] \cup {n} \in SUBSET Note
        BY <3>2 DEF RowTypes
      <3> HIDE DEF n
      <3> QED BY <3>1, <3>3
    <2>3. unnoted' \subseteq Result
      <3> DEFINE r == [cmd |-> c, ok |-> ok]
      <3>1. unnoted' = unnoted \/ unnoted' = unnoted \cup {r}
        BY <1>6 DEF AppendIncidentJournal
      <3>2. r \in Result
        BY <2>1
      <3> HIDE DEF r
      <3> QED BY <3>1, <3>2 DEF RowTypes
    <2> QED BY <1>6, <2>2, <2>3 DEF RowTypes, AppendIncidentJournal
  <1> QED BY <1>1, <1>2, <1>3, <1>4, <1>5, <1>6

\* Every step keeps the types of the table, the goroutines and the histories.
LEMMA CmdTypeStep == CmdInv /\ [Next]_vars => CmdTypes'
  <1> SUFFICES ASSUME CmdInv, [Next]_vars PROVE CmdTypes'
    OBVIOUS
  <1>0. CmdTypes /\ RowTypes
    BY DEF CmdInv, TypeOK, CmdTypes, RowTypes
  <1> DEFINE Others ==
        /\ cert \in [Device -> Serial \cup {NoSerial}]
        /\ pc \in [Cmd -> {"idle", "insert", "resolve", "refuse", "dispatch", "wait", "journal", "done"}]
        /\ target \in [Cmd -> Serial \cup {NoSerial}]
        /\ fl \in [Session -> {"off", "list", "next", "wait", "done"}]
        /\ flset \in [Session -> SUBSET Cmd]
        /\ flcur \in [Session -> Cmd \cup {NoCmd}]
        /\ working \in [Session -> SUBSET Msg]
        /\ cur \in [Session -> Result \cup {NoResult}]
        /\ crashes \in Nat /\ reenrolls \in Nat
        /\ enq \subseteq Cmd /\ got \subseteq Cmd /\ tried \subseteq Session \X Cmd /\ caught \subseteq Session
  <1>a. Others
    BY <1>0 DEF CmdTypes
  <1>b. RowTypes' /\ Others' => CmdTypes'
    BY DEF CmdTypes, RowTypes
  <1>c. UNCHANGED rowVars => RowTypes'
    BY <1>0 DEF RowTypes, rowVars
  <1>d. cert \in [Device -> Serial \cup {NoSerial}] /\ \A c \in Cmd : DeviceOf[c] \in Device
    BY <1>a, CommandAssumption
  <1>1. ASSUME NEW c \in Cmd, IssueStart(c) PROVE CmdTypes'
    <2>1. Others'
      BY <1>1, <1>a, <1>d DEF IssueStart, flVars, histVars
    <2>2. RowTypes'
      BY <1>1, <1>0, StatementTypes DEF IssueStart
    <2> QED BY <1>b, <2>1, <2>2
  <1>2. ASSUME NEW c \in Cmd, QueueInsert(c) PROVE CmdTypes'
    <2>1. Others'
      BY <1>2, <1>a DEF QueueInsert, flVars, histVars
    <2>2. RowTypes'
      BY <1>2, <1>0, StatementTypes DEF QueueInsert
    <2> QED BY <1>b, <2>1, <2>2
  <1>3. ASSUME NEW c \in Cmd, ResolveAsset(c) \/ Refuse(c) PROVE CmdTypes'
    <2>1. Others'
      BY <1>3, <1>a, <1>d DEF ResolveAsset, Refuse, flVars, histVars
    <2>2. RowTypes'
      BY <1>3, <1>0, StatementTypes DEF ResolveAsset, Refuse
    <2> QED BY <1>b, <2>1, <2>2
  <1>4. ASSUME NEW c \in Cmd, IssueDispatch(c) PROVE CmdTypes'
    <2>1. Others'
      BY <1>4, <1>a DEF IssueDispatch, flVars, histVars
    <2> QED BY <1>4, <1>b, <1>c, <2>1 DEF IssueDispatch
  <1>5. ASSUME NEW c \in Cmd, IssueResult(c) PROVE CmdTypes'
    <2>1. Others'
      BY <1>5, <1>a DEF IssueResult, flVars, histVars
    <2>2. RowTypes'
      BY <1>5, <1>0, StatementTypes DEF IssueResult
    <2> QED BY <1>b, <2>1, <2>2
  <1>6. ASSUME NEW c \in Cmd, IssueJournal(c) PROVE CmdTypes'
    <2>1. Others'
      BY <1>6, <1>a DEF IssueJournal, flVars, histVars
    <2>2. RowTypes'
      BY <1>6, <1>0, StatementTypes DEF IssueJournal, CmdInv, Journalling
    <2> QED BY <1>b, <2>1, <2>2
  <1>7. ASSUME NEW s \in Session, StartSession(s) PROVE CmdTypes'
    <2>1. Others'
      BY <1>7, <1>a DEF StartSession, histVars
    <2> QED BY <1>7, <1>b, <1>c, <2>1 DEF StartSession
  <1>8. ASSUME NEW s \in Session, EndSession(s) PROVE CmdTypes'
    <2>1. Others'
      BY <1>8, <1>a DEF EndSession, flVars, histVars
    <2> QED BY <1>8, <1>b, <1>c, <2>1 DEF EndSession
  <1>9. ASSUME NEW s \in Session, FlushList(s) PROVE CmdTypes'
    <2>1. ListPending(SerialOf(s)) \in SUBSET Cmd
      BY DEF ListPending
    <2>2. Others'
      BY <1>9, <1>a, <2>1 DEF FlushList, histVars
    <2> QED BY <1>9, <1>b, <1>c, <2>2 DEF FlushList
  <1>10. ASSUME NEW s \in Session, FlushDispatch(s) PROVE CmdTypes'
    <2>1. Others'
      BY <1>10, <1>a DEF FlushDispatch, histVars
    <2> QED BY <1>10, <1>b, <1>c, <2>1 DEF FlushDispatch
  <1>11. ASSUME NEW s \in Session, FlushResult(s) PROVE CmdTypes'
    <2>1. Others'
      BY <1>11, <1>a DEF FlushResult, histVars
    <2>2. CASE flcur[s] \in Cmd
      <3>1. RowTypes'
        BY <1>11, <1>0, <2>2, StatementTypes DEF FlushResult
      <3> QED BY <1>b, <2>1, <3>1
    <2>3. CASE dpc[s] = "true" /\ flcur[s] \notin Cmd
      BY <2>3, <1>0 DEF CmdInv, Accepted, CmdTypes
    <2>4. CASE dpc[s] = "false"
      BY <1>11, <1>b, <1>c, <2>1, <2>4 DEF FlushResult
    <2> QED BY <1>11, <2>2, <2>3, <2>4 DEF FlushResult
  <1>12. ASSUME NEW s \in Session, FlushEnd(s) PROVE CmdTypes'
    <2>1. Others'
      BY <1>12, <1>a DEF FlushEnd, histVars
    <2> QED BY <1>12, <1>b, <1>c, <2>1 DEF FlushEnd
  <1>13. ASSUME NEW s \in Session, Deliver(s) PROVE CmdTypes'
    <2>1. Head(send[s]) \in Msg
      <3>1. send[s] \in Seq(Msg) /\ send[s] # <<>>
        BY <1>13 DEF Deliver, WriteOk, CmdInv, TypeOK, HubTypeOK
      <3> QED BY <3>1
    <2>2. Head(send[s])[1] \in Cmd
      BY <2>1, Dispatchers
    <2>3. Others'
      BY <1>13, <1>a, <2>1, <2>2 DEF Deliver, flVars
    <2> QED BY <1>13, <1>b, <1>c, <2>3 DEF Deliver
  <1>14. ASSUME NEW s \in Session, ReadResult(s) PROVE CmdTypes'
    <2>1. \A m \in working[s], ok \in BOOLEAN : [cmd |-> m[1], ok |-> ok] \in Result
      BY <1>a, Dispatchers DEF Result
    <2>2. Others'
      BY <1>14, <1>a, <2>1 DEF ReadResult, flVars, histVars
    <2> QED BY <1>14, <1>b, <1>c, <2>2 DEF ReadResult
  <1>15. ASSUME NEW s \in Session, ApplyResult(s) PROVE CmdTypes'
    <2>1. cur[s] \in Result
      BY <1>15 DEF ApplyResult, CmdInv, Applying
    <2>2. cur[s].cmd \in Cmd /\ cur[s].ok \in BOOLEAN
      BY <2>1 DEF Result
    <2>3. Others'
      BY <1>15, <1>a DEF ApplyResult, flVars, histVars
    <2>4. RowTypes'
      BY <1>15, <1>0, <2>2, StatementTypes DEF ApplyResult
    <2> QED BY <1>b, <2>3, <2>4
  <1>16. ASSUME NEW s \in Session, ResultJournal(s) PROVE CmdTypes'
    <2>1. cur[s] \in Result /\ status[cur[s].cmd] # "none"
      BY <1>16 DEF ResultJournal, CmdInv, Applying
    <2>2. cur[s].cmd \in Cmd /\ cur[s].ok \in BOOLEAN
      BY <2>1 DEF Result
    <2>3. Others'
      BY <1>16, <1>a DEF ResultJournal, flVars, histVars
    <2>4. RowTypes'
      BY <1>16, <1>0, <2>1, <2>2, StatementTypes DEF ResultJournal
    <2> QED BY <1>b, <2>3, <2>4
  <1>17. ASSUME NEW d \in Dispatcher, Enqueue(d) \/ QueueFull(d) PROVE CmdTypes'
    <2>1. dpc[d] = "sending"
      BY <1>17 DEF Enqueue, QueueFull, DispatchEnqueue, DispatchTimeout
    <2>2. dsess[d] \in Session /\ dmsg[d][1] \in Cmd
      BY <2>1, Dispatchers DEF CmdInv, SendingHolds
    <2>3. Others'
      BY <1>17, <1>a, <2>2 DEF Enqueue, QueueFull, flVars
    <2> QED BY <1>17, <1>b, <1>c, <2>3 DEF Enqueue, QueueFull
  <1>18. ASSUME HubStep \/ UNCHANGED vars PROVE CmdTypes'
    BY <1>18, <1>0 DEF HubStep, vars, cmdVars, CmdTypes
  <1>19. ASSUME Stop, crashes' \in Nat PROVE CmdTypes'
    <2>1. Others'
      BY <1>19, <1>a DEF Stop, histVars
    <2>2. /\ \A s \in Session : rd[s] = "journal" => cur[s] \in Result
          /\ \A c \in Cmd : [cmd |-> c, ok |-> FALSE] \in Result
      BY DEF CmdInv, Applying, Result
    <2>3. unnoted' \subseteq Result
      BY <1>0, <1>19, <2>2 DEF Stop, RowTypes
    <2>4. RowTypes'
      BY <1>0, <1>19, <2>3 DEF Stop, RowTypes
    <2> QED BY <1>b, <2>1, <2>4
  <1>20. ASSUME Crash PROVE CmdTypes'
    BY <1>19, <1>20, <1>a DEF Crash
  <1>21. ASSUME NEW s \in Session, FlushPanic(s) PROVE CmdTypes'
    BY <1>19, <1>21, <1>a DEF FlushPanic
  <1>22. ASSUME NEW a \in Device, NEW c \in Serial, Reenroll(a, c) PROVE CmdTypes'
    <2>1. Others'
      BY <1>22, <1>a DEF Reenroll, flVars
    <2> QED BY <1>22, <1>b, <1>c, <2>1 DEF Reenroll
  <1> QED BY <1>1, <1>2, <1>3, <1>4, <1>5, <1>6, <1>7, <1>8, <1>9, <1>10, <1>11, <1>12, <1>13,
             <1>14, <1>15, <1>16, <1>17, <1>18, <1>20, <1>21, <1>22 DEF Next

-----------------------------------------------------------------------------
(* What the goroutines hold                                                  *)

\* An issuing goroutine reaches its dispatch only with a serial.
LEMMA ResolvedStep == CmdInv /\ [Next]_vars => Resolved'
  <1> SUFFICES ASSUME CmdInv, [Next]_vars PROVE Resolved'
    OBVIOUS
  <1>1. /\ pc \in [Cmd -> {"idle", "insert", "resolve", "refuse", "dispatch", "wait", "journal", "done"}]
        /\ target \in [Cmd -> Serial \cup {NoSerial}]
        /\ \A c \in Cmd : cert[DeviceOf[c]] \in Serial \cup {NoSerial}
        /\ Resolved
    BY CommandAssumption DEF CmdInv, TypeOK
  <1>2. ASSUME UNCHANGED <<pc, target>> PROVE Resolved'
    BY <1>1, <1>2 DEF Resolved
  <1>3. ASSUME NEW c \in Cmd, NEW x \in {"wait", "journal", "done", "resolve", "refuse"},
               pc' = [pc EXCEPT ![c] = x], UNCHANGED target
        PROVE  Resolved'
    BY <1>1, <1>3 DEF Resolved
  <1>4. ASSUME NEW c \in Cmd, NEW x \in {"insert", "dispatch"}, NEW t \in Serial,
               pc' = [pc EXCEPT ![c] = x], target' = [target EXCEPT ![c] = t]
        PROVE  Resolved'
    BY <1>1, <1>4 DEF Resolved
  <1>5. ASSUME NEW c \in Cmd, IssueStart(c) PROVE Resolved'
    BY <1>1, <1>3, <1>4, <1>5 DEF IssueStart
  <1>6. ASSUME NEW c \in Cmd, QueueInsert(c) PROVE Resolved'
    BY <1>1, <1>6 DEF QueueInsert, Resolved
  <1>7. ASSUME NEW c \in Cmd, ResolveAsset(c) \/ Refuse(c) PROVE Resolved'
    BY <1>1, <1>3, <1>4, <1>7 DEF ResolveAsset, Refuse
  <1>8. ASSUME NEW c \in Cmd, IssueDispatch(c) \/ IssueResult(c) \/ IssueJournal(c) PROVE Resolved'
    BY <1>3, <1>8 DEF IssueDispatch, IssueResult, IssueJournal
  <1>9. ASSUME Stop PROVE Resolved'
    BY <1>1, <1>9 DEF Stop, Resolved
  <1>10. ASSUME NEW s \in Session,
                \/ StartSession(s) \/ EndSession(s) \/ FlushList(s) \/ FlushDispatch(s) \/ FlushResult(s)
                \/ FlushEnd(s) \/ Deliver(s) \/ ReadResult(s) \/ ApplyResult(s) \/ ResultJournal(s)
         PROVE  UNCHANGED <<pc, target>>
    BY <1>10 DEF StartSession, EndSession, FlushList, FlushDispatch, FlushResult, FlushEnd, Deliver,
                 ReadResult, ApplyResult, ResultJournal
  <1>11. ASSUME NEW d \in Dispatcher, Enqueue(d) \/ QueueFull(d) PROVE UNCHANGED <<pc, target>>
    BY <1>11 DEF Enqueue, QueueFull
  <1>12. ASSUME \/ HubStep \/ UNCHANGED vars
                \/ \E a \in Device, c \in Serial : Reenroll(a, c)
         PROVE  UNCHANGED <<pc, target>>
    BY <1>12 DEF HubStep, Reenroll, vars, cmdVars
  <1> QED BY <1>2, <1>5, <1>6, <1>7, <1>8, <1>9, <1>10, <1>11, <1>12 DEF Next, Crash, FlushPanic

\* Dispatchers other than the one that moves keep their state and their row.
LEMMA DispatcherStep == CmdInv /\ [Next]_vars => Carries' /\ Accepted'
  <1> SUFFICES ASSUME CmdInv, [Next]_vars PROVE Carries' /\ Accepted'
    OBVIOUS
  <1> DEFINE Goal == Carries /\ Accepted
  <1>1. /\ dpc \in [Dispatcher -> {"idle", "sending", "true", "false", "panic"}]
        /\ DOMAIN dmsg = Dispatcher /\ flcur \in [Session -> Cmd \cup {NoCmd}]
        /\ Carries /\ Accepted
    BY DEF CmdInv, TypeOK, HubTypeOK
  <1>2. ASSUME UNCHANGED <<dpc, dmsg, flcur>>, enq \subseteq enq' PROVE Goal'
    BY <1>1, <1>2 DEF Carries, Accepted
  <1>3. ASSUME NEW d \in Dispatcher, NEW r \in {"idle", "false", "panic"},
               dpc' = [dpc EXCEPT ![d] = r],
               \A e \in Dispatcher \ {d} : dmsg'[e] = dmsg[e],
               \A s \in Session \ {d} : flcur'[s] = flcur[s], UNCHANGED enq
        PROVE  Goal'
    BY <1>1, <1>3, Dispatchers DEF Carries, Accepted
  <1>4. ASSUME NEW c \in Cmd, IssueDispatch(c) PROVE Goal'
    BY <1>1, <1>4, Dispatchers DEF IssueDispatch, DispatchLookup, flVars, histVars, Carries, Accepted
  <1>5. ASSUME NEW s \in Session, FlushDispatch(s) PROVE Goal'
    <2>1. PICK c \in flset[s] : flcur' = [flcur EXCEPT ![s] = c] /\ DispatchLookup(s, SerialOf(s), <<c, s>>)
      BY <1>5 DEF FlushDispatch
    <2>2. c \in Cmd /\ UNCHANGED enq
      BY <1>5, <2>1 DEF FlushDispatch, histVars, CmdInv, TypeOK
    <2> QED BY <1>1, <2>1, <2>2, Dispatchers DEF DispatchLookup, Carries, Accepted
  <1>6. ASSUME NEW d \in Dispatcher, Enqueue(d) PROVE Goal'
    <2>1. /\ dpc[d] = "sending" /\ dpc' = [dpc EXCEPT ![d] = "true"]
          /\ dmsg' = [dmsg EXCEPT ![d] = NoMsg] /\ UNCHANGED flcur /\ enq' = enq \cup {dmsg[d][1]}
      BY <1>6 DEF Enqueue, DispatchEnqueue, finish, flVars
    <2>2. d \in Cmd => dmsg[d][1] = d
      BY <1>1, <2>1 DEF Carries
    <2>3. d \in Session => dmsg[d][1] = flcur[d]
      BY <1>1, <2>1 DEF Carries
    <2> QED BY <1>1, <2>1, <2>2, <2>3, Dispatchers DEF Carries, Accepted
  <1>7. ASSUME NEW d \in Dispatcher, QueueFull(d) PROVE Goal'
    BY <1>1, <1>3, <1>7 DEF QueueFull, DispatchTimeout, finish, flVars
  <1>8. ASSUME NEW c \in Cmd, IssueResult(c) PROVE Goal'
    BY <1>3, <1>8, Dispatchers DEF IssueResult, DispatchReturn, flVars, histVars
  <1>9. ASSUME NEW s \in Session, FlushResult(s) PROVE Goal'
    BY <1>1, <1>3, <1>9, Dispatchers DEF FlushResult, DispatchReturn, histVars
  <1>10. ASSUME Stop PROVE Goal'
    BY <1>10, Dispatchers DEF Stop, Carries, Accepted
  <1>11. ASSUME HubStep PROVE Goal'
    <2>1. UNCHANGED <<flcur, enq>>
      BY <1>11 DEF HubStep, cmdVars
    <2>2. ASSUME NEW d \in Dispatcher, DispatchPanic(d) PROVE Goal'
      BY <1>1, <1>3, <2>1, <2>2 DEF DispatchPanic, finish
    <2>3. ASSUME NEW s \in Session, Register(s) \/ LinkDown(s) \/ Unregister(s) \/ WriteError(s)
          PROVE  Goal'
      BY <1>2, <2>1, <2>3 DEF Register, LinkDown, Unregister, WriteError, dispVars
    <2> QED BY <1>11, <2>2, <2>3 DEF HubStep
  <1>12. ASSUME NEW s \in Session,
                StartSession(s) \/ EndSession(s) \/ Deliver(s)
         PROVE  Goal'
    BY <1>2, <1>12 DEF StartSession, EndSession, Deliver, StartPumps, ReadEnd, WriteOk, dispVars,
                       flVars, histVars
  <1>13. ASSUME NEW s \in Session,
                FlushList(s) \/ FlushEnd(s) \/ ReadResult(s) \/ ApplyResult(s) \/ ResultJournal(s)
         PROVE  Goal'
    BY <1>2, <1>13 DEF FlushList, FlushEnd, ReadResult, ApplyResult, ResultJournal, hubVars, dispVars,
                       flVars, histVars
  <1>14. ASSUME NEW c \in Cmd, IssueStart(c) \/ QueueInsert(c) \/ ResolveAsset(c) \/ Refuse(c) \/ IssueJournal(c)
         PROVE  Goal'
    BY <1>2, <1>14 DEF IssueStart, QueueInsert, ResolveAsset, Refuse, IssueJournal, hubVars, flVars, histVars
  <1>15. ASSUME UNCHANGED vars \/ \E a \in Device, c \in Serial : Reenroll(a, c) PROVE Goal'
    BY <1>2, <1>15 DEF Reenroll, vars, hubVars, cmdVars, flVars
  <1> QED BY <1>4, <1>5, <1>6, <1>7, <1>8, <1>9, <1>10, <1>11, <1>12, <1>13, <1>14, <1>15
          DEF Next, Crash, FlushPanic

\* The agent's side: what it works on and what readPump applies was received.
LEMMA AgentStep == CmdInv /\ [Next]_vars => WorkingGot'
  <1> SUFFICES ASSUME CmdInv, [Next]_vars PROVE WorkingGot'
    OBVIOUS
  <1>1. working \in [Session -> SUBSET Msg] /\ WorkingGot
    BY DEF CmdInv, TypeOK
  <1>2. ASSUME UNCHANGED <<working, got>> PROVE WorkingGot'
    BY <1>1, <1>2 DEF WorkingGot
  <1>3. ASSUME NEW s \in Session, Deliver(s) PROVE WorkingGot'
    BY <1>1, <1>3 DEF Deliver, WorkingGot
  <1>4. ASSUME NEW s \in Session, ReadResult(s) PROVE WorkingGot'
    BY <1>1, <1>4 DEF ReadResult, histVars, WorkingGot
  <1>5. ASSUME NEW s \in Session, EndSession(s) PROVE WorkingGot'
    BY <1>1, <1>5 DEF EndSession, histVars, WorkingGot
  <1>6. ASSUME Stop PROVE WorkingGot'
    BY <1>6 DEF Stop, WorkingGot
  <1>7. ASSUME NEW c \in Cmd, \/ IssueStart(c) \/ QueueInsert(c) \/ ResolveAsset(c) \/ Refuse(c)
                              \/ IssueDispatch(c) \/ IssueResult(c) \/ IssueJournal(c)
        PROVE  UNCHANGED <<working, got>>
    BY <1>7 DEF IssueStart, QueueInsert, ResolveAsset, Refuse, IssueDispatch, IssueResult, IssueJournal, histVars
  <1>8. ASSUME NEW s \in Session, \/ StartSession(s) \/ FlushList(s) \/ FlushDispatch(s) \/ FlushResult(s)
                                  \/ FlushEnd(s) \/ ApplyResult(s) \/ ResultJournal(s)
        PROVE  UNCHANGED <<working, got>>
    BY <1>8 DEF StartSession, FlushList, FlushDispatch, FlushResult, FlushEnd, ApplyResult, ResultJournal, histVars
  <1>9. ASSUME \/ HubStep \/ UNCHANGED vars
               \/ \E d \in Dispatcher : Enqueue(d) \/ QueueFull(d)
               \/ \E a \in Device, c \in Serial : Reenroll(a, c)
        PROVE  UNCHANGED <<working, got>>
    BY <1>9 DEF HubStep, Enqueue, QueueFull, Reenroll, vars, cmdVars
  <1> QED BY <1>2, <1>3, <1>4, <1>5, <1>6, <1>7, <1>8, <1>9 DEF Next, Crash, FlushPanic

-----------------------------------------------------------------------------
(* The table.  A step leaves the rows alone, or is one of four kinds of        *)
(* statement; each keeps what the properties say of the rows.                 *)

\* What a step may do to the rows of the table and to the journal.
RowStep ==
  \/ UNCHANGED <<status, notes>>
  \/ \E c \in Cmd, st \in {"pending", "failed"} : status' = [status EXCEPT ![c] = st] /\ UNCHANGED notes
  \/ \E c \in enq : status' = [status EXCEPT ![c] = "sent"] /\ UNCHANGED notes
  \/ \E c \in got : status' = [status EXCEPT ![c] = "completed"] /\ UNCHANGED notes
  \/ \E c \in Cmd, n \in Note :
       /\ n.ok => c \in got
       /\ notes' = [notes EXCEPT ![c] = @ \cup {n}] /\ UNCHANGED status

\* Every step of the composition is such a row step, and the histories only grow.
LEMMA StepIsRowStep == CmdInv /\ [Next]_vars => RowStep /\ enq \subseteq enq' /\ got \subseteq got'
  <1> SUFFICES ASSUME CmdInv, [Next]_vars PROVE RowStep /\ enq \subseteq enq' /\ got \subseteq got'
    OBVIOUS
  <1> DEFINE Goal == RowStep /\ enq \subseteq enq' /\ got \subseteq got'
  <1>1. /\ status \in [Cmd -> {"none", "pending", "sent", "completed", "failed"}]
        /\ enq \subseteq Cmd /\ got \subseteq Cmd
    BY DEF CmdInv, TypeOK
  <1>2. ASSUME NEW c \in Cmd, NEW ok \in BOOLEAN, status[c] # "none", ok => c \in got,
               AppendIncidentJournal(c, ok)
        PROVE  RowStep
    <2> DEFINE n == [ok |-> ok]
    <2>1. n \in Note /\ n.ok = ok
      BY DEF Note
    <2>2. (notes' = [notes EXCEPT ![c] = @ \cup {n}] \/ UNCHANGED notes) /\ UNCHANGED status
      BY <1>2 DEF AppendIncidentJournal
    <2> HIDE DEF n
    <2> QED BY <1>2, <2>1, <2>2 DEF RowStep
  <1>3. ASSUME NEW c \in Cmd, IssueStart(c) \/ QueueInsert(c) PROVE Goal
    BY <1>3 DEF IssueStart, QueueInsert, InsertDeviceCommand, rowVars, histVars, RowStep
  <1>4. ASSUME NEW c \in Cmd, ResolveAsset(c) \/ Refuse(c) PROVE Goal
    BY <1>4 DEF ResolveAsset, Refuse, FailDeviceCommandIfPending, rowVars, histVars, RowStep
  <1>5. ASSUME NEW c \in Cmd, IssueResult(c) PROVE Goal
    <2>1. dpc[c] = "true" => c \in enq
      BY DEF CmdInv, Accepted
    <2> QED BY <1>5, <2>1 DEF IssueResult, MarkDeviceCommandSent, updateDeviceCommandStatus, rowVars,
                              histVars, RowStep
  <1>6. ASSUME NEW c \in Cmd, IssueJournal(c) PROVE Goal
    BY <1>2, <1>6 DEF IssueJournal, histVars, CmdInv, Journalling
  <1>7. ASSUME NEW s \in Session, FlushResult(s) PROVE Goal
    <2>1. dpc[s] = "true" => flcur[s] \in enq
      BY DEF CmdInv, Accepted
    <2> QED BY <1>7, <2>1 DEF FlushResult, MarkDeviceCommandSent, updateDeviceCommandStatus, rowVars,
                              histVars, RowStep
  <1>8. ASSUME NEW s \in Session, ApplyResult(s) PROVE Goal
    <2>1. cur[s] \in Result /\ cur[s].cmd \in got
      BY <1>8 DEF ApplyResult, CmdInv, Applying
    <2> QED BY <1>8, <1>1, <2>1 DEF ApplyResult, updateDeviceCommandStatus, rowVars, histVars, RowStep
  <1>9. ASSUME NEW s \in Session, ResultJournal(s) PROVE Goal
    <2>1. cur[s] \in Result /\ cur[s].cmd \in got /\ status[cur[s].cmd] # "none"
      BY <1>9 DEF ResultJournal, CmdInv, Applying
    <2>2. cur[s].ok \in BOOLEAN
      BY <2>1 DEF Result
    <2> QED BY <1>1, <1>2, <1>9, <2>1, <2>2 DEF ResultJournal, histVars
  <1>10. ASSUME UNCHANGED rowVars, enq \subseteq enq', got \subseteq got' PROVE Goal
    BY <1>10 DEF rowVars, RowStep
  <1>11. ASSUME NEW s \in Session, \/ StartSession(s) \/ EndSession(s) \/ FlushList(s) \/ FlushDispatch(s)
                                   \/ FlushEnd(s) \/ Deliver(s) \/ ReadResult(s)
         PROVE  Goal
    BY <1>10, <1>11 DEF StartSession, EndSession, FlushList, FlushDispatch, FlushEnd, Deliver, ReadResult, histVars
  <1>12. ASSUME NEW c \in Cmd, IssueDispatch(c) PROVE Goal
    BY <1>10, <1>12 DEF IssueDispatch, histVars
  <1>13. ASSUME NEW d \in Dispatcher, Enqueue(d) \/ QueueFull(d) PROVE Goal
    BY <1>10, <1>13 DEF Enqueue, QueueFull
  <1>14. ASSUME Stop \/ HubStep \/ UNCHANGED vars \/ \E a \in Device, c \in Serial : Reenroll(a, c)
         PROVE  Goal
    <2>1. CASE Stop
      BY <2>1 DEF Stop, histVars, RowStep
    <2>2. CASE ~Stop
      BY <1>10, <1>14, <2>2 DEF HubStep, Reenroll, vars, cmdVars, histVars, rowVars
    <2> QED BY <2>1, <2>2
  <1> QED BY <1>3, <1>4, <1>5, <1>6, <1>7, <1>8, <1>9, <1>11, <1>12, <1>13, <1>14
          DEF Next, Crash, FlushPanic

\* What the rows claim stays true under every kind of statement.
LEMMA TableStep == CmdInv /\ [Next]_vars => (SentWasEnqueued /\ SuccessWasDelivered)'
  <1> SUFFICES ASSUME CmdInv, [Next]_vars PROVE (SentWasEnqueued /\ SuccessWasDelivered)'
    OBVIOUS
  <1>1. RowStep /\ enq \subseteq enq' /\ got \subseteq got'
    BY StepIsRowStep
  <1>2. /\ status \in [Cmd -> {"none", "pending", "sent", "completed", "failed"}]
        /\ notes \in [Cmd -> SUBSET Note] /\ unnoted \subseteq Result
        /\ enq \subseteq Cmd /\ got \subseteq Cmd
        /\ SentWasEnqueued /\ SuccessWasDelivered
    BY DEF CmdInv, TypeOK
  <1>3. SentWasEnqueued'
    BY <1>1, <1>2 DEF RowStep, SentWasEnqueued
  <1>4. SuccessWasDelivered'
    <2> SUFFICES ASSUME NEW c \in Cmd, status'[c] = "completed" \/ \E n \in notes'[c] : n.ok
                 PROVE  c \in got
      BY <1>1 DEF SuccessWasDelivered
    <2>1. CASE \E b \in Cmd, n \in Note :
                 /\ n.ok => b \in got
                 /\ notes' = [notes EXCEPT ![b] = @ \cup {n}] /\ UNCHANGED status
      BY <1>2, <2>1 DEF SuccessWasDelivered
    <2>2. CASE UNCHANGED notes
      BY <1>1, <1>2, <2>2 DEF RowStep, SuccessWasDelivered
    <2> QED BY <1>1, <2>1, <2>2 DEF RowStep
  <1> QED BY <1>3, <1>4

\* A row that exists never disappears.
LEMMA RowsStay == CmdInv /\ [Next]_vars => \A c \in Cmd : status[c] # "none" => status'[c] # "none"
  BY StepIsRowStep DEF RowStep, CmdInv, TypeOK

\* readPump applies and journals only received commands with a row, issuers only existing rows.
LEMMA JournalStep == CmdInv /\ [Next]_vars => Applying' /\ Journalling'
  <1> SUFFICES ASSUME CmdInv, [Next]_vars PROVE Applying' /\ Journalling'
    OBVIOUS
  <1>1. /\ rd \in [Session -> {"unused", "closePrev", "reading", "apply", "journal", "unregister", "done"}]
        /\ cur \in [Session -> Result \cup {NoResult}] /\ got \subseteq got'
        /\ status \in [Cmd -> {"none", "pending", "sent", "completed", "failed"}]
        /\ pc \in [Cmd -> {"idle", "insert", "resolve", "refuse", "dispatch", "wait", "journal", "done"}]
        /\ Applying /\ Journalling
    BY StepIsRowStep DEF CmdInv, TypeOK, HubTypeOK
  <1>2. \A c \in Cmd : status[c] # "none" => status'[c] # "none"
    BY RowsStay
  <1>3. \A s \in Session : cur[s] \in Result => cur[s].cmd \in Cmd
    BY DEF Result
  <1>4. ASSUME \A s \in Session : rd'[s] = rd[s] \/ rd'[s] \notin {"apply", "journal"}, UNCHANGED cur
        PROVE  Applying'
    BY <1>1, <1>2, <1>3, <1>4 DEF Applying
  <1>5. ASSUME UNCHANGED pc PROVE Journalling'
    BY <1>1, <1>2, <1>5 DEF Journalling
  <1>6. ASSUME NEW c \in Cmd, pc' = [pc EXCEPT ![c] = "journal"], status'[c] # "none" PROVE Journalling'
    BY <1>1, <1>2, <1>6 DEF Journalling
  <1>7. ASSUME NEW c \in Cmd, NEW x \in {"insert", "resolve", "refuse", "dispatch", "wait", "done"},
               pc' = [pc EXCEPT ![c] = x]
        PROVE  Journalling'
    BY <1>1, <1>2, <1>7 DEF Journalling
  <1>8. ASSUME NEW c \in Cmd, \/ IssueStart(c) \/ QueueInsert(c) \/ IssueDispatch(c) \/ IssueJournal(c)
        PROVE  Applying' /\ Journalling'
    BY <1>4, <1>7, <1>8 DEF IssueStart, QueueInsert, IssueDispatch, IssueJournal, DispatchLookup, connVars, hubVars
  <1>9. ASSUME NEW c \in Cmd, ResolveAsset(c) \/ Refuse(c) PROVE Applying' /\ Journalling'
    <2>1. Applying'
      BY <1>4, <1>9 DEF ResolveAsset, Refuse, hubVars
    <2>2. status'[c] # status[c] => status'[c] # "none"
      BY <1>1, <1>9 DEF ResolveAsset, Refuse, FailDeviceCommandIfPending, rowVars
    <2>3. Journalling'
      BY <1>6, <1>7, <1>9, <2>2 DEF ResolveAsset, Refuse
    <2> QED BY <2>1, <2>3
  <1>10. ASSUME NEW c \in Cmd, IssueResult(c) PROVE Applying' /\ Journalling'
    <2>1. Applying'
      BY <1>4, <1>10 DEF IssueResult, DispatchReturn, connVars
    <2>2. updateDeviceCommandStatus(c, "failed", "notConnected", TRUE) => status'[c] # "none"
      BY <1>1 DEF updateDeviceCommandStatus
    <2>3. Journalling'
      BY <1>6, <1>7, <1>10, <2>2 DEF IssueResult
    <2> QED BY <2>1, <2>3
  <1>11. ASSUME NEW s \in Session, ReadResult(s) PROVE Applying' /\ Journalling'
    <2>1. Journalling'
      BY <1>5, <1>11 DEF ReadResult
    <2>2. CASE UNCHANGED <<cur, rd>>
      BY <1>4, <2>1, <2>2
    <2>3. CASE ~UNCHANGED <<cur, rd>>
      <3>1. PICK m \in working[s], ok \in BOOLEAN :
              cur' = [cur EXCEPT ![s] = [cmd |-> m[1], ok |-> ok]] /\ rd' = [rd EXCEPT ![s] = "apply"]
        BY <1>11, <2>3 DEF ReadResult
      <3>2. m[1] \in Cmd /\ m[1] \in got
        BY Dispatchers DEF CmdInv, TypeOK, WorkingGot
      <3>3. [cmd |-> m[1], ok |-> ok] \in Result
        BY <3>2 DEF Result
      <3> QED BY <1>1, <1>2, <1>3, <2>1, <3>1, <3>2, <3>3 DEF Applying
    <2> QED BY <2>2, <2>3
  <1>12. ASSUME NEW s \in Session, ApplyResult(s) PROVE Applying' /\ Journalling'
    <2>1. Journalling'
      BY <1>5, <1>12 DEF ApplyResult
    <2>2. cur[s] \in Result /\ cur[s].cmd \in got /\ cur[s].cmd \in Cmd
      BY <1>3, <1>12 DEF ApplyResult, CmdInv, Applying
    <2>3. CASE rd' = [rd EXCEPT ![s] = "journal"]
      <3>1. cur' = cur /\ status'[cur[s].cmd] # "none"
        BY <1>1, <1>12, <2>2, <2>3 DEF ApplyResult, updateDeviceCommandStatus
      <3> QED BY <1>1, <1>2, <1>3, <2>1, <2>2, <2>3, <3>1 DEF Applying
    <2>4. CASE rd' = [rd EXCEPT ![s] = "reading"] /\ cur' = [cur EXCEPT ![s] = NoResult]
      BY <1>1, <1>2, <1>3, <2>1, <2>4 DEF Applying
    <2> QED BY <1>12, <2>3, <2>4 DEF ApplyResult
  <1>13. ASSUME NEW s \in Session, ResultJournal(s) PROVE Applying' /\ Journalling'
    BY <1>1, <1>2, <1>3, <1>5, <1>13 DEF ResultJournal, Applying
  <1>14. ASSUME NEW s \in Session, FlushList(s) \/ FlushDispatch(s) \/ FlushResult(s) \/ FlushEnd(s)
         PROVE  Applying' /\ Journalling'
    BY <1>4, <1>5, <1>14 DEF FlushList, FlushDispatch, FlushResult, FlushEnd, DispatchLookup, DispatchReturn,
                             connVars, hubVars
  <1>15. ASSUME NEW s \in Session, StartSession(s) \/ EndSession(s) \/ Deliver(s)
         PROVE  Applying' /\ Journalling'
    BY <1>1, <1>4, <1>5, <1>15 DEF StartSession, EndSession, Deliver, StartPumps, ReadEnd, WriteOk, connVars
  <1>16. ASSUME NEW d \in Dispatcher, Enqueue(d) \/ QueueFull(d) PROVE Applying' /\ Journalling'
    BY <1>4, <1>5, <1>16 DEF Enqueue, QueueFull, DispatchEnqueue, DispatchTimeout, finish, connVars
  <1>17. ASSUME HubStep PROVE Applying' /\ Journalling'
    <2>1. UNCHANGED <<pc, cur>>
      BY <1>17 DEF HubStep, cmdVars
    <2>2. \A s \in Session : rd'[s] = rd[s] \/ rd'[s] \notin {"apply", "journal"}
      BY <1>1, <1>17 DEF HubStep, Register, LinkDown, Unregister, WriteError, DispatchPanic, finish, connVars
    <2> QED BY <1>4, <1>5, <2>1, <2>2
  <1>18. ASSUME Stop PROVE Applying' /\ Journalling'
    BY <1>1, <1>2, <1>18 DEF Stop, Applying, Journalling
  <1>19. ASSUME UNCHANGED vars \/ \E a \in Device, c \in Serial : Reenroll(a, c)
         PROVE  Applying' /\ Journalling'
    BY <1>4, <1>5, <1>19 DEF Reenroll, vars, hubVars, cmdVars
  <1> QED BY <1>8, <1>9, <1>10, <1>11, <1>12, <1>13, <1>14, <1>15, <1>16, <1>17, <1>18, <1>19
          DEF Next, Crash, FlushPanic

-----------------------------------------------------------------------------

\* CmdInv holds in every reachable state of the composed system.
THEOREM CmdInvariant == Spec => []CmdInv
  <1>1. CmdInv /\ [Next]_vars => CmdInv'
    <2> SUFFICES ASSUME CmdInv, [Next]_vars PROVE CmdInv'
      OBVIOUS
    <2>1. TypeOK' /\ SendingHolds'
      BY HubPartTypes, CmdTypeStep DEF CmdTypes, TypeOK
    <2> QED BY <2>1, ResolvedStep, DispatcherStep, AgentStep, TableStep, JournalStep DEF CmdInv
  <1> QED BY <1>1, CmdInitInv, PTL DEF Spec

\* The table and the goroutines that write it keep their types; 'sent' is never written for a
\* command no queue accepted, whichever of the issuer and the flush goroutine wrote it and
\* whatever failed or restarted before (MarkDeviceCommandSent); and a success, in the row or in
\* the incident's journal, is of a command the agent received (CompleteDeviceCommand,
\* AppendIncidentJournalForTerminalCommand).
THEOREM TableIsHonest == Spec => []CommandsHonest
  <1>1. CmdInv => CommandsHonest
    BY DEF CmdInv, CommandsHonest
  <1> QED BY <1>1, CmdInvariant, PTL

-----------------------------------------------------------------------------
(* Stale certificates.                                                       *)

\* Only ReadResult starts an application, for a command whose asset has the session's
\* certificate, and only Reenroll moves an asset, which notes who is applying.
LEMMA StaleStep == CmdInv /\ StaleCertificateCannotReport /\ [Next]_vars => StaleCertificateCannotReport'
  <1> SUFFICES ASSUME CmdInv, StaleCertificateCannotReport, [Next]_vars
               PROVE  StaleCertificateCannotReport'
    OBVIOUS
  <1>1. /\ rd \in [Session -> {"unused", "closePrev", "reading", "apply", "journal", "unregister", "done"}]
        /\ cur \in [Session -> Result \cup {NoResult}]
        /\ StaleCertificateCannotReport
    BY DEF CmdInv, TypeOK, HubTypeOK
  <1>2. ASSUME UNCHANGED <<cert, caught>>,
               \A s \in Session : rd'[s] = "apply" => rd[s] = "apply" /\ cur'[s] = cur[s]
        PROVE  StaleCertificateCannotReport'
    BY <1>1, <1>2 DEF StaleCertificateCannotReport
  <1>3. ASSUME NEW s \in Session, ReadResult(s) PROVE StaleCertificateCannotReport'
    <2>1. UNCHANGED <<cert, caught>>
      BY <1>3 DEF ReadResult, histVars
    <2>2. CASE UNCHANGED <<cur, rd>>
      BY <1>2, <2>1, <2>2
    <2>3. CASE ~UNCHANGED <<cur, rd>>
      <3>1. PICK m \in working[s], ok \in BOOLEAN :
              /\ cert[DeviceOf[m[1]]] = SerialOf(s)
              /\ cur' = [cur EXCEPT ![s] = [cmd |-> m[1], ok |-> ok]] /\ rd' = [rd EXCEPT ![s] = "apply"]
        BY <1>3, <2>3 DEF ReadResult
      <3>2. cur'[s].cmd = m[1]
        BY <1>1, <3>1
      <3>3. \A t \in Session : t # s => rd'[t] = rd[t] /\ cur'[t] = cur[t]
        BY <1>1, <3>1
      <3> QED BY <1>1, <2>1, <3>1, <3>2, <3>3 DEF StaleCertificateCannotReport
    <2> QED BY <2>2, <2>3
  <1>4. ASSUME NEW a \in Device, NEW c \in Serial, Reenroll(a, c) PROVE StaleCertificateCannotReport'
    BY <1>4 DEF Reenroll, hubVars, StaleCertificateCannotReport
  <1>5. ASSUME NEW s \in Session, ApplyResult(s) \/ ResultJournal(s) PROVE StaleCertificateCannotReport'
    <2>1. UNCHANGED <<cert, caught>>
      BY <1>5 DEF ApplyResult, ResultJournal, histVars
    <2>2. rd' = [rd EXCEPT ![s] = "reading"] \/ rd' = [rd EXCEPT ![s] = "journal"]
      BY <1>5 DEF ApplyResult, ResultJournal
    <2>3. cur' = cur \/ cur' = [cur EXCEPT ![s] = NoResult]
      BY <1>5 DEF ApplyResult, ResultJournal
    <2> QED BY <1>1, <1>2, <2>1, <2>2, <2>3
  <1>6. ASSUME UNCHANGED <<cert, caught, cur>>,
               \/ UNCHANGED rd
               \/ \E s \in Session, x \in {"closePrev", "reading", "unregister", "done"} : rd' = [rd EXCEPT ![s] = x]
        PROVE  StaleCertificateCannotReport'
    BY <1>1, <1>2, <1>6
  <1>7. ASSUME NEW c \in Cmd, \/ IssueStart(c) \/ QueueInsert(c) \/ ResolveAsset(c) \/ Refuse(c)
                              \/ IssueDispatch(c) \/ IssueResult(c) \/ IssueJournal(c)
        PROVE  StaleCertificateCannotReport'
    BY <1>6, <1>7 DEF IssueStart, QueueInsert, ResolveAsset, Refuse, IssueDispatch, IssueResult, IssueJournal,
                      DispatchLookup, DispatchReturn, hubVars, connVars, histVars
  <1>8. ASSUME NEW s \in Session, FlushList(s) \/ FlushDispatch(s) \/ FlushResult(s) \/ FlushEnd(s)
        PROVE  StaleCertificateCannotReport'
    BY <1>6, <1>8 DEF FlushList, FlushDispatch, FlushResult, FlushEnd, DispatchLookup, DispatchReturn,
                      hubVars, connVars, histVars
  <1>9. ASSUME NEW s \in Session, StartSession(s) \/ EndSession(s) \/ Deliver(s)
        PROVE  StaleCertificateCannotReport'
    BY <1>6, <1>9 DEF StartSession, EndSession, Deliver, StartPumps, ReadEnd, WriteOk, connVars, histVars
  <1>10. ASSUME NEW d \in Dispatcher, Enqueue(d) \/ QueueFull(d) PROVE StaleCertificateCannotReport'
    BY <1>6, <1>10 DEF Enqueue, QueueFull, DispatchEnqueue, DispatchTimeout, finish, connVars
  <1>11. ASSUME HubStep PROVE StaleCertificateCannotReport'
    <2>1. UNCHANGED <<cert, caught, cur>>
      BY <1>11 DEF HubStep, cmdVars
    <2> QED BY <1>6, <1>11, <2>1 DEF HubStep, Register, LinkDown, Unregister, WriteError, DispatchPanic,
                                     finish, connVars
  <1>12. ASSUME Stop PROVE StaleCertificateCannotReport'
    BY <1>12 DEF Stop, StaleCertificateCannotReport
  <1>13. CASE UNCHANGED vars
    BY <1>6, <1>13 DEF vars, hubVars, cmdVars
  <1> QED BY <1>3, <1>4, <1>5, <1>7, <1>8, <1>9, <1>10, <1>11, <1>12, <1>13 DEF Next, Crash, FlushPanic

\* A session of a certificate the asset has left can apply only the report that was past
\* ApplyDeviceCommandOutcome's ownership check when the asset moved.
THEOREM StaleSessionsAreSilent == Spec => []StaleCertificateCannotReport
  <1>1. Init => StaleCertificateCannotReport
    BY DEF Init, HubInit, StaleCertificateCannotReport
  <1> QED BY <1>1, StaleStep, CmdInvariant, PTL DEF Spec

-----------------------------------------------------------------------------
(* The path of a command: which rows exist, and who is on the way with them.   *)

Exists(c) == status[c] # "none"

\* A dispatcher that is not idle belongs to an issuing goroutine that waits for it.
IssuerWaits == \A c \in Cmd : dpc[c] # "idle" => pc[c] = "wait"

\* An issuing goroutine has no row before its INSERT and one after it.
IssuerRow ==
  \A c \in Cmd : /\ pc[c] \in {"idle", "insert"} => ~Exists(c)
                 /\ pc[c] \in {"resolve", "refuse", "dispatch", "wait"} => Exists(c)

\* What flushes, queues and the agent are on the way with are rows that exist.
OnTheWay ==
  /\ \A s \in Session : /\ \A c \in flset[s] : Exists(c)
                        /\ flcur[s] # NoCmd => Exists(flcur[s])
                        /\ \A i \in 1 .. Len(send[s]) : send[s][i][1] \in enq
  /\ \A c \in enq \cup got : Exists(c)

\* A refusal's output stands only in a failed row.
RefusedIsFailed ==
  \A c \in Cmd : /\ ~Exists(c) => output[c] = ""
                 /\ output[c] = "noCert" => status[c] = "failed"

PathInv == IssuerWaits /\ IssuerRow /\ OnTheWay /\ RefusedIsFailed

\* In an empty table nothing is on the way.
LEMMA PathInit == Init => PathInv
  <1> SUFFICES ASSUME Init PROVE PathInv
    OBVIOUS
  <1>1. dpc = [d \in Dispatcher |-> "idle"] /\ send = [s \in Session |-> <<>>]
    BY DEF Init, HubInit
  <1>2. IssuerWaits
    BY <1>1, Dispatchers DEF IssuerWaits
  <1>3. IssuerRow /\ RefusedIsFailed
    BY DEF Init, IssuerRow, RefusedIsFailed, Exists
  <1>4. /\ flset = [s \in Session |-> {}] /\ flcur = [s \in Session |-> NoCmd]
        /\ enq = {} /\ got = {} /\ Len(<<>>) = 0
    BY DEF Init
  <1>5. OnTheWay
    BY <1>1, <1>4 DEF OnTheWay
  <1> QED BY <1>2, <1>3, <1>5 DEF PathInv

\* Dispatchers of commands start in IssueDispatch and are taken by IssueResult.
LEMMA IssuerWaitsStep == CmdInv /\ IssuerWaits /\ [Next]_vars => IssuerWaits'
  <1> SUFFICES ASSUME CmdInv, IssuerWaits, [Next]_vars PROVE IssuerWaits'
    OBVIOUS
  <1>1. /\ dpc \in [Dispatcher -> {"idle", "sending", "true", "false", "panic"}]
        /\ pc \in [Cmd -> {"idle", "insert", "resolve", "refuse", "dispatch", "wait", "journal", "done"}]
    BY DEF CmdInv, TypeOK, HubTypeOK
  <1>2. ASSUME UNCHANGED <<dpc, pc>> PROVE IssuerWaits'
    BY <1>2 DEF IssuerWaits
  <1>3. ASSUME NEW c \in Cmd, IssueDispatch(c) \/ IssueResult(c) PROVE IssuerWaits'
    <2>1. CASE IssueDispatch(c)
      <3>1. pc' = [pc EXCEPT ![c] = "wait"] /\ \A b \in Cmd \ {c} : dpc'[b] = dpc[b]
        BY <1>1, <2>1, Dispatchers DEF IssueDispatch, DispatchLookup
      <3> QED BY <1>1, <3>1 DEF IssuerWaits
    <2>2. CASE IssueResult(c)
      <3>1. dpc' = [dpc EXCEPT ![c] = "idle"] /\ \A b \in Cmd \ {c} : pc'[b] = pc[b]
        BY <1>1, <2>2 DEF IssueResult, DispatchReturn
      <3> QED BY <1>1, <3>1, Dispatchers DEF IssuerWaits
    <2> QED BY <1>3, <2>1, <2>2
  <1>4. ASSUME NEW c \in Cmd, IssueStart(c) \/ QueueInsert(c) \/ ResolveAsset(c) \/ Refuse(c) \/ IssueJournal(c)
        PROVE  IssuerWaits'
    <2>1. UNCHANGED dpc /\ pc[c] # "wait" /\ \A b \in Cmd \ {c} : pc'[b] = pc[b]
      BY <1>1, <1>4 DEF IssueStart, QueueInsert, ResolveAsset, Refuse, IssueJournal, hubVars
    <2> QED BY <2>1 DEF IssuerWaits
  <1>5. ASSUME NEW d \in Dispatcher, NEW r \in {"true", "false", "panic"}, dpc[d] = "sending",
               dpc' = [dpc EXCEPT ![d] = r], UNCHANGED pc
        PROVE  IssuerWaits'
    BY <1>1, <1>5, Dispatchers DEF IssuerWaits
  <1>6. ASSUME NEW d \in Dispatcher, Enqueue(d) \/ QueueFull(d) PROVE IssuerWaits'
    BY <1>5, <1>6 DEF Enqueue, QueueFull, DispatchEnqueue, DispatchTimeout, finish
  <1>7. ASSUME HubStep PROVE IssuerWaits'
    <2>1. UNCHANGED pc
      BY <1>7 DEF HubStep, cmdVars
    <2>2. ASSUME NEW d \in Dispatcher, DispatchPanic(d) PROVE IssuerWaits'
      BY <1>5, <2>1, <2>2 DEF DispatchPanic, finish
    <2>3. ASSUME NEW s \in Session, Register(s) \/ LinkDown(s) \/ Unregister(s) \/ WriteError(s)
          PROVE  IssuerWaits'
      BY <1>2, <2>1, <2>3 DEF Register, LinkDown, Unregister, WriteError, dispVars
    <2> QED BY <1>7, <2>2, <2>3 DEF HubStep
  <1>8. ASSUME NEW s \in Session, FlushDispatch(s) \/ FlushResult(s) PROVE IssuerWaits'
    <2>1. UNCHANGED pc /\ \A c \in Cmd : dpc'[c] = dpc[c]
      BY <1>1, <1>8, Dispatchers DEF FlushDispatch, FlushResult, DispatchLookup, DispatchReturn
    <2> QED BY <2>1 DEF IssuerWaits
  <1>9. ASSUME NEW s \in Session, \/ StartSession(s) \/ EndSession(s) \/ FlushList(s) \/ FlushEnd(s)
                                  \/ Deliver(s) \/ ReadResult(s) \/ ApplyResult(s) \/ ResultJournal(s)
        PROVE  UNCHANGED <<dpc, pc>>
    BY <1>9 DEF StartSession, EndSession, FlushList, FlushEnd, Deliver, ReadResult, ApplyResult, ResultJournal,
                StartPumps, ReadEnd, WriteOk, hubVars, dispVars
  <1>10. ASSUME Stop PROVE IssuerWaits'
    BY <1>10, Dispatchers DEF Stop, IssuerWaits
  <1>11. ASSUME UNCHANGED vars \/ \E a \in Device, c \in Serial : Reenroll(a, c) PROVE UNCHANGED <<dpc, pc>>
    BY <1>11 DEF Reenroll, vars, hubVars, cmdVars
  <1> QED BY <1>2, <1>3, <1>4, <1>6, <1>7, <1>8, <1>9, <1>10, <1>11 DEF Next, Crash, FlushPanic

\* A step inserts the row of a goroutine that had none, or writes only rows that exist.
RowWrite ==
  \/ UNCHANGED <<status, output>>
  \/ \E c \in Cmd : /\ pc[c] \in {"idle", "insert"} /\ pc'[c] \in {"resolve", "refuse", "dispatch"}
                    /\ \A b \in Cmd \ {c} : pc'[b] = pc[b]
                    /\ status' = [status EXCEPT ![c] = "pending"] /\ UNCHANGED output
  \/ \E c \in Cmd, st \in {"sent", "completed", "failed"}, out \in {"", "result", "notConnected", "noCert"} :
       /\ Exists(c)
       /\ out = "noCert" => status[c] = "pending" /\ st = "failed"
       /\ status' = [status EXCEPT ![c] = st] /\ output' = [output EXCEPT ![c] = out]

LEMMA StepIsRowWrite == CmdInv /\ PathInv /\ [Next]_vars => RowWrite
  <1> SUFFICES ASSUME CmdInv, PathInv, [Next]_vars PROVE RowWrite
    OBVIOUS
  <1>1. /\ pc \in [Cmd -> {"idle", "insert", "resolve", "refuse", "dispatch", "wait", "journal", "done"}]
        /\ status \in [Cmd -> {"none", "pending", "sent", "completed", "failed"}]
        /\ IssuerRow /\ OnTheWay /\ enq \subseteq Cmd /\ got \subseteq Cmd
    BY DEF CmdInv, TypeOK, PathInv
  <1>2. ASSUME UNCHANGED rowVars PROVE RowWrite
    BY <1>2 DEF rowVars, RowWrite
  <1>3. ASSUME NEW c \in Cmd, IssueStart(c) \/ QueueInsert(c) PROVE RowWrite
    <2>1. CASE UNCHANGED rowVars
      BY <1>2, <2>1
    <2>2. CASE ~UNCHANGED rowVars
      <3>1. InsertDeviceCommand(c) /\ pc[c] \in {"idle", "insert"}
            /\ (pc' = [pc EXCEPT ![c] = "resolve"] \/ pc' = [pc EXCEPT ![c] = "dispatch"])
        BY <1>3, <2>2 DEF IssueStart, QueueInsert
      <3>2. pc'[c] \in {"resolve", "refuse", "dispatch"} /\ \A b \in Cmd \ {c} : pc'[b] = pc[b]
        BY <1>1, <3>1
      <3> QED BY <3>1, <3>2 DEF InsertDeviceCommand, RowWrite
    <2> QED BY <2>1, <2>2
  <1>4. ASSUME NEW c \in Cmd, Exists(c), NEW st \in {"sent", "completed", "failed"},
               NEW out \in {"", "result", "notConnected"}, NEW b \in BOOLEAN,
               updateDeviceCommandStatus(c, st, out, b)
        PROVE  RowWrite
    BY <1>4 DEF updateDeviceCommandStatus, RowWrite
  <1>5. ASSUME NEW c \in Cmd, Exists(c), MarkDeviceCommandSent(c) PROVE RowWrite
    BY <1>2, <1>4, <1>5 DEF MarkDeviceCommandSent
  <1>6. ASSUME NEW c \in Cmd, ResolveAsset(c) \/ Refuse(c) PROVE RowWrite
    BY <1>2, <1>6 DEF ResolveAsset, Refuse, FailDeviceCommandIfPending, RowWrite, Exists
  <1>7. ASSUME NEW c \in Cmd, IssueResult(c) PROVE RowWrite
    <2>1. Exists(c)
      BY <1>1, <1>7 DEF IssueResult, IssuerRow
    <2> QED BY <1>2, <1>4, <1>5, <1>7, <2>1 DEF IssueResult
  <1>8. ASSUME NEW s \in Session, FlushResult(s) PROVE RowWrite
    <2>1. dpc[s] = "true" => flcur[s] \in Cmd /\ Exists(flcur[s])
      BY <1>1 DEF CmdInv, Accepted, OnTheWay
    <2> QED BY <1>2, <1>5, <1>8, <2>1 DEF FlushResult
  <1>9. ASSUME NEW s \in Session, ApplyResult(s) PROVE RowWrite
    <2>1. cur[s] \in Result /\ cur[s].cmd \in got
      BY <1>9 DEF ApplyResult, CmdInv, Applying
    <2>2. cur[s].cmd \in Cmd /\ Exists(cur[s].cmd)
      BY <1>1, <2>1 DEF OnTheWay
    <2> QED BY <1>2, <1>4, <1>9, <2>2 DEF ApplyResult
  <1>10. ASSUME NEW c \in Cmd, IssueDispatch(c) \/ IssueJournal(c) PROVE RowWrite
    BY <1>2, <1>10 DEF IssueDispatch, IssueJournal, AppendIncidentJournal, RowWrite
  <1>11. ASSUME NEW s \in Session, \/ StartSession(s) \/ EndSession(s) \/ FlushList(s) \/ FlushDispatch(s)
                                   \/ FlushEnd(s) \/ Deliver(s) \/ ReadResult(s) \/ ResultJournal(s)
         PROVE  RowWrite
    BY <1>2, <1>11 DEF StartSession, EndSession, FlushList, FlushDispatch, FlushEnd, Deliver, ReadResult,
                       ResultJournal, AppendIncidentJournal, RowWrite
  <1>12. ASSUME NEW d \in Dispatcher, Enqueue(d) \/ QueueFull(d) PROVE RowWrite
    BY <1>2, <1>12 DEF Enqueue, QueueFull
  <1>13. ASSUME Stop \/ HubStep \/ UNCHANGED vars \/ \E a \in Device, c \in Serial : Reenroll(a, c)
         PROVE  RowWrite
    <2>1. CASE Stop
      BY <1>2, <2>1 DEF Stop, rowVars, RowWrite
    <2>2. CASE ~Stop
      BY <1>2, <1>13, <2>2 DEF HubStep, Reenroll, vars, cmdVars, rowVars
    <2> QED BY <2>1, <2>2
  <1> QED BY <1>3, <1>6, <1>7, <1>8, <1>9, <1>10, <1>11, <1>12, <1>13 DEF Next, Crash, FlushPanic

\* No row is ever deleted, and one appears only with its INSERT.
LEMMA RowsAppear ==
  ASSUME CmdInv, RowWrite, NEW c \in Cmd
  PROVE  /\ status[c] # "none" => status'[c] # "none"
         /\ pc' = pc /\ status'[c] # "none" => status[c] # "none"
  <1>1. status \in [Cmd -> {"none", "pending", "sent", "completed", "failed"}]
    BY DEF CmdInv, TypeOK
  <1> QED BY <1>1 DEF RowWrite, Exists

\* The INSERT is the issuing goroutine's step from "insert" (or from the start) on.
LEMMA IssuerRowStep == CmdInv /\ PathInv /\ [Next]_vars => IssuerRow'
  <1> SUFFICES ASSUME CmdInv, PathInv, [Next]_vars PROVE IssuerRow'
    OBVIOUS
  <1>1. /\ pc \in [Cmd -> {"idle", "insert", "resolve", "refuse", "dispatch", "wait", "journal", "done"}]
        /\ status \in [Cmd -> {"none", "pending", "sent", "completed", "failed"}]
        /\ IssuerRow
    BY DEF CmdInv, TypeOK, PathInv
  <1>2. RowWrite /\ \A c \in Cmd : status[c] # "none" => status'[c] # "none"
    BY StepIsRowWrite, RowsAppear
  <1>3. ASSUME UNCHANGED pc PROVE IssuerRow'
    <2>1. \A c \in Cmd : status[c] # "none" <=> status'[c] # "none"
      BY <1>2, <1>3, RowsAppear
    <2> QED BY <1>1, <1>3, <2>1 DEF IssuerRow, Exists
  <1>4. ASSUME NEW c \in Cmd, IssueStart(c) \/ QueueInsert(c) PROVE IssuerRow'
    <2>1. /\ \A b \in Cmd \ {c} : pc'[b] = pc[b] /\ status'[b] = status[b]
          /\ \/ pc'[c] \in {"resolve", "refuse", "dispatch"} /\ status'[c] = "pending"
             \/ pc'[c] = "insert" /\ pc[c] = "idle" /\ status'[c] = status[c]
      BY <1>1, <1>4 DEF IssueStart, QueueInsert, InsertDeviceCommand, rowVars
    <2> QED BY <1>1, <2>1 DEF IssuerRow, Exists
  <1>5. ASSUME NEW c \in Cmd, ResolveAsset(c) \/ Refuse(c) \/ IssueDispatch(c) \/ IssueResult(c) \/ IssueJournal(c)
        PROVE  IssuerRow'
    <2>1. /\ \A b \in Cmd \ {c} : pc'[b] = pc[b]
          /\ pc[c] \in {"resolve", "refuse", "dispatch", "wait", "journal"}
          /\ pc'[c] \in {"refuse", "dispatch", "wait", "journal", "done"}
      BY <1>1, <1>5 DEF ResolveAsset, Refuse, IssueDispatch, IssueResult, IssueJournal
    <2>2. status[c] # "none"
      BY <1>1, <2>1 DEF IssuerRow, CmdInv, Journalling, Exists
    <2>3. \A b \in Cmd : status'[b] # "none" => status[b] # "none"
      BY <1>1, <1>2, <2>1, <2>2 DEF RowWrite, Exists
    <2> QED BY <1>1, <1>2, <2>1, <2>2, <2>3 DEF IssuerRow, Exists
  <1>6. ASSUME Stop PROVE IssuerRow'
    BY <1>1, <1>6 DEF Stop, rowVars, IssuerRow, Exists
  <1>7. ASSUME NEW s \in Session, \/ StartSession(s) \/ EndSession(s) \/ FlushList(s) \/ FlushEnd(s)
                                  \/ FlushDispatch(s) \/ FlushResult(s)
                                  \/ Deliver(s) \/ ReadResult(s) \/ ApplyResult(s) \/ ResultJournal(s)
        PROVE  UNCHANGED pc
    BY <1>7 DEF StartSession, EndSession, FlushList, FlushEnd, FlushDispatch, FlushResult, Deliver, ReadResult,
                ApplyResult, ResultJournal
  <1>8. ASSUME \/ UNCHANGED vars \/ HubStep \/ \E a \in Device, c \in Serial : Reenroll(a, c)
               \/ \E d \in Dispatcher : Enqueue(d) \/ QueueFull(d)
        PROVE  UNCHANGED pc
    BY <1>8 DEF Reenroll, Enqueue, QueueFull, HubStep, vars, cmdVars
  <1> QED BY <1>3, <1>4, <1>5, <1>6, <1>7, <1>8 DEF Next, Crash, FlushPanic

\* The refusal is the only statement that writes "noCert", and it writes it with 'failed'; a
\* later report replaces both.
LEMMA RefusedStep == CmdInv /\ PathInv /\ [Next]_vars => RefusedIsFailed'
  <1> SUFFICES ASSUME CmdInv, PathInv, [Next]_vars PROVE RefusedIsFailed'
    OBVIOUS
  <1>1. /\ status \in [Cmd -> {"none", "pending", "sent", "completed", "failed"}]
        /\ output \in [Cmd -> {"", "result", "notConnected", "noCert"}]
        /\ RefusedIsFailed /\ RowWrite /\ IssuerRow
    BY StepIsRowWrite DEF CmdInv, TypeOK, PathInv
  <1>2. CASE UNCHANGED <<status, output>>
    BY <1>1, <1>2 DEF RefusedIsFailed, Exists
  <1>3. ASSUME NEW c \in Cmd, pc[c] \in {"idle", "insert"}, status' = [status EXCEPT ![c] = "pending"],
               UNCHANGED output
        PROVE  RefusedIsFailed'
    BY <1>1, <1>3 DEF RefusedIsFailed, IssuerRow, Exists
  <1>4. ASSUME NEW c \in Cmd, NEW st \in {"sent", "completed", "failed"},
               NEW out \in {"", "result", "notConnected", "noCert"}, out = "noCert" => st = "failed",
               status' = [status EXCEPT ![c] = st], output' = [output EXCEPT ![c] = out]
        PROVE  RefusedIsFailed'
    BY <1>1, <1>4 DEF RefusedIsFailed, Exists
  <1> QED BY <1>1, <1>2, <1>3, <1>4 DEF RowWrite

\* What a flush lists is pending, what is queued was accepted, what the agent got was queued.
LEMMA OnTheWayStep == CmdInv /\ PathInv /\ [Next]_vars => OnTheWay'
  <1> SUFFICES ASSUME CmdInv, PathInv, [Next]_vars PROVE OnTheWay'
    OBVIOUS
  <1> DEFINE Row(c) == status[c] # "none"
             FlushRows == \A s \in Session : /\ \A c \in flset[s] : Row(c)
                                             /\ flcur[s] # NoCmd => Row(flcur[s])
             QueueRows == /\ \A s \in Session : \A i \in 1 .. Len(send[s]) : send[s][i][1] \in enq
                          /\ \A c \in enq \cup got : Row(c)
  <1>1. /\ flset \in [Session -> SUBSET Cmd] /\ flcur \in [Session -> Cmd \cup {NoCmd}]
        /\ enq \subseteq Cmd /\ got \subseteq Cmd /\ send \in [Session -> Seq(Msg)]
        /\ dsess \in [Dispatcher -> Session \cup {NoSession}]
        /\ FlushRows /\ QueueRows
    BY DEF CmdInv, TypeOK, HubTypeOK, PathInv, OnTheWay, Exists
  <1>2. \A c \in Cmd : Row(c) => Row(c)'
    BY RowsStay
  <1>3. FlushRows' /\ QueueRows' => OnTheWay'
    BY DEF OnTheWay, Exists
  <1>4. ASSUME UNCHANGED <<flset, flcur>> PROVE FlushRows'
    BY <1>1, <1>2, <1>4
  <1>5. ASSUME UNCHANGED <<send, enq, got>> PROVE QueueRows'
    BY <1>1, <1>2, <1>5
  <1>6. ASSUME NEW c \in Cmd, \/ IssueStart(c) \/ QueueInsert(c) \/ ResolveAsset(c) \/ Refuse(c)
                              \/ IssueDispatch(c) \/ IssueResult(c) \/ IssueJournal(c)
        PROVE  OnTheWay'
    <2>1. UNCHANGED <<flset, flcur, send, enq, got>>
      BY <1>6 DEF IssueStart, QueueInsert, ResolveAsset, Refuse, IssueDispatch, IssueResult, IssueJournal,
                  DispatchLookup, DispatchReturn, hubVars, flVars, histVars
    <2> QED BY <1>3, <1>4, <1>5, <2>1
  <1>7. ASSUME NEW s \in Session, \/ StartSession(s) \/ EndSession(s) \/ FlushEnd(s)
                                  \/ ReadResult(s) \/ ApplyResult(s) \/ ResultJournal(s)
        PROVE  OnTheWay'
    <2>1. UNCHANGED <<flset, flcur, send, enq, got>>
      BY <1>7 DEF StartSession, EndSession, FlushEnd, ReadResult, ApplyResult, ResultJournal,
                  StartPumps, ReadEnd, hubVars, flVars, histVars
    <2> QED BY <1>3, <1>4, <1>5, <2>1
  <1>8. ASSUME NEW s \in Session, FlushList(s) PROVE OnTheWay'
    <2>1. UNCHANGED <<flcur, send, enq, got>>
      BY <1>8 DEF FlushList, hubVars
    <2>2. \A c \in ListPending(SerialOf(s)) : c \in Cmd /\ Row(c)
      BY DEF ListPending
    <2>3. flset' = flset \/ flset' = [flset EXCEPT ![s] = ListPending(SerialOf(s))]
      BY <1>8 DEF FlushList
    <2> DEFINE L == ListPending(SerialOf(s))
    <2> HIDE DEF L
    <2>4. \A r \in Session : flset'[r] = flset[r] \/ flset'[r] = L
      BY <1>1, <2>3 DEF L
    <2>5. \A c \in L : c \in Cmd /\ Row(c)
      BY <2>2 DEF L
    <2>6. FlushRows'
      BY <1>1, <1>2, <2>1, <2>4, <2>5
    <2> QED BY <1>3, <1>5, <2>1, <2>6
  <1>9. ASSUME NEW s \in Session, FlushDispatch(s) PROVE OnTheWay'
    <2>1. UNCHANGED <<send, enq, got>>
      BY <1>9 DEF FlushDispatch, DispatchLookup, histVars
    <2>2. PICK c \in flset[s] : /\ flset' = [flset EXCEPT ![s] = @ \ {c}]
                                /\ flcur' = [flcur EXCEPT ![s] = c]
      BY <1>9 DEF FlushDispatch
    <2>3. FlushRows'
      BY <1>1, <1>2, <2>2
    <2> QED BY <1>3, <1>5, <2>1, <2>3
  <1>10. ASSUME NEW s \in Session, FlushResult(s) PROVE OnTheWay'
    <2>1. UNCHANGED <<send, enq, got, flset>> /\ flcur' = [flcur EXCEPT ![s] = NoCmd]
      BY <1>10 DEF FlushResult, DispatchReturn, histVars
    <2>2. FlushRows'
      BY <1>1, <1>2, <2>1
    <2> QED BY <1>3, <1>5, <2>1, <2>2
  <1>11. ASSUME NEW s \in Session, send[s] # <<>>, send' = [send EXCEPT ![s] = Tail(@)],
                UNCHANGED <<flset, flcur, enq>>,
                got' = got \/ got' = got \cup {Head(send[s])[1]}
         PROVE  OnTheWay'
    <2>1. send[s] \in Seq(Msg)
      BY <1>1
    <2>2. Head(send[s]) = send[s][1] /\ 1 \in 1 .. Len(send[s])
      BY <1>11, <2>1
    <2>3. \A i \in 1 .. Len(Tail(send[s])) : i + 1 \in 1 .. Len(send[s]) /\ Tail(send[s])[i] = send[s][i + 1]
      BY <1>11, <2>1
    <2>4. \A i \in 1 .. Len(Tail(send[s])) : Tail(send[s])[i][1] \in enq
      BY <1>1, <2>3
    <2>5. \A r \in Session : \A i \in 1 .. Len(send'[r]) : send'[r][i][1] \in enq
      BY <1>1, <1>11, <2>4
    <2>6. Head(send[s])[1] \in enq
      BY <1>1, <2>2
    <2>7. QueueRows'
      BY <1>1, <1>2, <1>11, <2>5, <2>6
    <2> QED BY <1>3, <1>4, <1>11, <2>7
  <1>12. ASSUME NEW s \in Session, Deliver(s) PROVE OnTheWay'
    BY <1>11, <1>12 DEF Deliver, WriteOk, flVars
  <1>13. ASSUME NEW d \in Dispatcher, Enqueue(d) PROVE OnTheWay'
    <2>1. /\ send' = [send EXCEPT ![dsess[d]] = Append(@, dmsg[d])] /\ dpc[d] = "sending"
          /\ enq' = enq \cup {dmsg[d][1]} /\ UNCHANGED <<flset, flcur, got>>
      BY <1>13 DEF Enqueue, DispatchEnqueue, flVars
    <2>2. dsess[d] \in Session /\ dmsg[d] \in Msg
      BY <2>1 DEF CmdInv, SendingHolds
    <2>3. dmsg[d][1] \in Cmd /\ Row(dmsg[d][1])
      <3>1. CASE d \in Cmd
        <4>1. dmsg[d][1] = d /\ pc[d] = "wait"
          BY <2>1, <3>1 DEF CmdInv, Carries, PathInv, IssuerWaits
        <4> QED BY <3>1, <4>1 DEF PathInv, IssuerRow, Exists
      <3>2. CASE d \in Session
        <4>1. flcur[d] \in Cmd /\ dmsg[d][1] = flcur[d]
          BY <2>1, <3>2 DEF CmdInv, Carries
        <4>2. flcur[d] # NoCmd
          BY <4>1, CommandAssumption DEF NoCmd
        <4> QED BY <1>1, <3>2, <4>1, <4>2
      <3> QED BY <3>1, <3>2, Dispatchers
    <2>4. \A r \in Session : \A i \in 1 .. Len(send'[r]) : send'[r][i][1] \in enq'
      <3> SUFFICES ASSUME NEW r \in Session, NEW i \in 1 .. Len(send'[r]) PROVE send'[r][i][1] \in enq'
        OBVIOUS
      <3>1. CASE r # dsess[d]
        BY <1>1, <2>1, <2>2, <3>1
      <3>2. CASE r = dsess[d]
        <4>1. send[r] \in Seq(Msg) /\ send'[r] = Append(send[r], dmsg[d])
          BY <1>1, <2>1, <2>2, <3>2
        <4>2. CASE i \in 1 .. Len(send[r])
          <5>1. send'[r][i] = send[r][i]
            BY <2>2, <4>1, <4>2
          <5> QED BY <1>1, <2>1, <4>2, <5>1
        <4>3. CASE i = Len(send[r]) + 1
          <5>1. send'[r][i] = dmsg[d]
            BY <2>2, <4>1, <4>3
          <5> QED BY <2>1, <5>1
        <4>4. Len(send'[r]) = Len(send[r]) + 1 /\ Len(send[r]) \in Nat
          BY <2>2, <4>1
        <4> QED BY <4>2, <4>3, <4>4
      <3> QED BY <3>1, <3>2
    <2>5. QueueRows'
      BY <1>1, <1>2, <2>1, <2>3, <2>4
    <2> QED BY <1>3, <1>4, <2>1, <2>5
  <1>14. ASSUME NEW d \in Dispatcher, QueueFull(d) \/ (HubStep /\ DispatchPanic(d)) PROVE OnTheWay'
    <2>1. UNCHANGED <<flset, flcur, send, enq, got>>
      BY <1>14 DEF QueueFull, DispatchTimeout, DispatchPanic, HubStep, cmdVars, flVars
    <2> QED BY <1>3, <1>4, <1>5, <2>1
  <1>15. ASSUME HubStep PROVE OnTheWay'
    <2>1. UNCHANGED <<flset, flcur, enq, got>>
      BY <1>15 DEF HubStep, cmdVars
    <2>2. ASSUME NEW s \in Session, WriteError(s) PROVE OnTheWay'
      BY <1>11, <2>1, <2>2 DEF WriteError
    <2>3. ASSUME NEW s \in Session, Register(s) \/ LinkDown(s) \/ Unregister(s) PROVE OnTheWay'
      <3>1. UNCHANGED send
        BY <2>3 DEF Register, LinkDown, Unregister
      <3> QED BY <1>3, <1>4, <1>5, <2>1, <3>1
    <2> QED BY <1>14, <1>15, <2>2, <2>3 DEF HubStep
  <1>16. ASSUME Stop PROVE OnTheWay'
    <2>1. /\ flset' = [s \in Session |-> {}] /\ flcur' = [s \in Session |-> NoCmd]
          /\ send' = [s \in Session |-> <<>>] /\ UNCHANGED <<enq, got, status>> /\ Len(<<>>) = 0
      BY <1>16 DEF Stop, histVars, rowVars
    <2>2. FlushRows' /\ QueueRows'
      BY <1>1, <2>1
    <2> QED BY <1>3, <2>2
  <1>17. ASSUME UNCHANGED vars \/ \E a \in Device, c \in Serial : Reenroll(a, c) PROVE OnTheWay'
    <2>1. UNCHANGED <<flset, flcur, send, enq, got>>
      BY <1>17 DEF Reenroll, vars, hubVars, cmdVars, flVars
    <2> QED BY <1>3, <1>4, <1>5, <2>1
  <1> QED BY <1>6, <1>7, <1>8, <1>9, <1>10, <1>12, <1>13, <1>14, <1>15, <1>16, <1>17
          DEF Next, Crash, FlushPanic

\* Whoever is on the way with a command is on the way with a row of the table.
THEOREM PathInvariant == Spec => []PathInv
  <1>1. CmdInv /\ PathInv /\ [Next]_vars => PathInv'
    BY IssuerWaitsStep, IssuerRowStep, OnTheWayStep, RefusedStep DEF PathInv
  <1> QED BY <1>1, PathInit, CmdInvariant, PTL DEF Spec

\* The refusal of a command whose asset could not be resolved never replaces a recorded success:
\* in every step, the row of a completed command is neither pending nor refused afterwards.
THEOREM RefusalsKeepOutcomes == Spec => RefusalKeepsOutcome
  <1> DEFINE Keeps == \A c \in Cmd : status[c] = "completed" => status'[c] # "pending" /\ output'[c] # "noCert"
  <1>1. CmdInv /\ PathInv /\ [Next]_vars => [Keeps]_vars
    <2> SUFFICES ASSUME CmdInv, PathInv, [Next]_vars PROVE Keeps
      OBVIOUS
    <2>1. /\ status \in [Cmd -> {"none", "pending", "sent", "completed", "failed"}]
          /\ output \in [Cmd -> {"", "result", "notConnected", "noCert"}]
          /\ RefusedIsFailed /\ RowWrite /\ IssuerRow
      BY StepIsRowWrite DEF CmdInv, TypeOK, PathInv
    <2> QED BY <2>1 DEF RowWrite, RefusedIsFailed, IssuerRow, Exists
  <1> QED BY <1>1, PathInvariant, CmdInvariant, PTL DEF Spec, RefusalKeepsOutcome

-----------------------------------------------------------------------------
(* Nothing queued is forgotten.  The flush's SELECT has a LIMIT, so this is a  *)
(* statement about agents that never have more than FlushLimit rows waiting.  *)

PendingOf(x) == {b \in Cmd : status[b] = "pending" /\ cert[DeviceOf[b]] = x}
FewPending == \A x \in Serial : Cardinality(PendingOf(x)) <= FlushLimit

\* A channel is closed by the last step of its session.
ClosedIsDone == \A s \in Session : chClosed[s] => rd[s] = "done"

\* The flush goroutine starts after the registration.
FlushStarts == \A s \in Session : rd[s] = "unused" => fl[s] = "off"

\* The quarantine paths know the serial before they insert.
QueuedPath ==
  \A c \in Queued : /\ pc[c] \notin {"resolve", "refuse", "journal"}
                    /\ reenrolls = 0 /\ pc[c] \in {"insert", "dispatch"} => target[c] = cert[DeviceOf[c]]

\* Some dispatcher holds the command and the session to send it to.
InHand(c, s) == \E d \in Dispatcher : dpc[d] = "sending" /\ dsess[d] = s /\ dmsg[d][1] = c

\* The flush has the row ahead of it, or a dispatcher has it, or the session was offered it.
Kept(c, s) == fl[s] \in {"off", "list"} \/ c \in flset[s] \/ InHand(c, s) \/ <<s, c>> \in tried

PendingKept ==
  reenrolls = 0 =>
    \A c \in Queued, s \in Session :
      /\ status[c] = "pending" /\ pc[c] \in {"wait", "done"}
      /\ cert[DeviceOf[c]] = SerialOf(s) /\ Newest(s) /\ Serving(s)
      => Kept(c, s)

FlushInv == HubInv /\ ClosedIsDone /\ FlushStarts /\ QueuedPath /\ PendingKept

\* With at most FlushLimit rows waiting, the SELECT returns every one of them.
LEMMA ListIsComplete ==
  ASSUME CmdInv, FewPending, NEW x \in Serial, NEW c \in PendingOf(x)
  PROVE  c \in ListPending(x)
  <1> DEFINE P == PendingOf(x)
             O == {a \in P : age[a] < age[c]}
  <1>1. P \subseteq Cmd /\ IsFiniteSet(P) /\ age \in [Cmd -> Nat]
    BY FS_Subset, CommandAssumption DEF PendingOf, CmdInv, TypeOK
  <1>2. O \subseteq P \ {c}
    BY <1>1
  <1>3. IsFiniteSet(P \ {c}) /\ Cardinality(P \ {c}) = Cardinality(P) - 1
    BY <1>1, FS_RemoveElement
  <1>4. IsFiniteSet(O) /\ Cardinality(O) <= Cardinality(P \ {c})
    BY <1>2, <1>3, FS_Subset
  <1>5. Cardinality(P) \in Nat /\ Cardinality(O) \in Nat
    BY <1>1, <1>4, FS_CardinalityType
  <1>6. Cardinality(P) <= FlushLimit
    BY DEF FewPending
  <1>7. Cardinality(O) < FlushLimit
    BY <1>3, <1>4, <1>5, <1>6, CommandAssumption
  <1> QED BY <1>7 DEF ListPending, PendingOf

\* A session is served from its registration on, and never again after its teardown.
LEMMA SessionsLast ==
  ASSUME CmdInv, [Next]_vars, NEW s \in Session
  PROVE  /\ rd[s] # "unused" => rd'[s] # "unused"
         /\ rd[s] = "done" => rd'[s] = "done"
         /\ Serving(s)' => rd[s] = "unused" \/ Serving(s)
  <1>1. rd \in [Session -> {"unused", "closePrev", "reading", "apply", "journal", "unregister", "done"}]
    BY DEF CmdInv, TypeOK, HubTypeOK
  <1>2. ASSUME [HubNext]_hubVars
        PROVE  \/ UNCHANGED rd
               \/ \E r \in Session : rd[r] = "unused" /\ rd' = [rd EXCEPT ![r] = "closePrev"]
               \/ \E r \in Session : rd[r] = "closePrev" /\ rd' = [rd EXCEPT ![r] = "reading"]
               \/ \E r \in Session : rd[r] = "reading" /\ rd' = [rd EXCEPT ![r] = "unregister"]
               \/ \E r \in Session : rd[r] = "unregister" /\ rd' = [rd EXCEPT ![r] = "done"]
    BY <1>2 DEF HubNext, SessionStep, DispatchSelect, Register, StartPumps, ReadEnd, Unregister, WriteOk,
                WriteError, LinkDown, DispatchLookup, DispatchReturn, DispatchEnqueue, DispatchTimeout,
                DispatchPanic, finish, connVars, hubVars
  <1>3. CASE [HubNext]_hubVars
    BY <1>1, <1>2, <1>3 DEF Serving
  <1>4. CASE ReadPumpMove
    BY <1>1, <1>4 DEF ReadPumpMove, Serving
  <1>5. CASE Stop
    BY <1>1, <1>5 DEF Stop, Serving
  <1> QED BY <1>3, <1>4, <1>5, HubPart

\* The hub's invariant holds in the composition.
LEMMA HubInvStep == CmdInv /\ HubInv /\ [Next]_vars => HubInv'
  <1> SUFFICES ASSUME CmdInv, HubInv, [Next]_vars PROVE HubInv'
    OBVIOUS
  <1>1. HubTypeOK' /\ SendingHolds'
    BY HubPartTypes
  <1>2. CASE [HubNext]_hubVars
    BY <1>1, <1>2, HubRegistryStep DEF HubInv
  <1>3. CASE ReadPumpMove
    <2>1. PICK s \in Session, x \in {"reading", "apply", "journal"} :
            rd[s] \in {"reading", "apply", "journal"} /\ rd' = [rd EXCEPT ![s] = x]
      BY <1>3 DEF ReadPumpMove
    <2>2. UNCHANGED bySerial
      BY <1>3 DEF ReadPumpMove
    <2>3. (InOrder /\ RegisteredSessionIsOurs /\ NewestSessionReachable)'
      BY <2>1, <2>2, PumpMove
    <2> QED BY <1>1, <2>3 DEF HubInv
  <1>4. CASE Stop
    <2>1. /\ bySerial' = [c \in Serial |-> NoSession]
          /\ rd' = [s \in Session |-> IF rd[s] = "unused" THEN "unused" ELSE "done"]
      BY <1>4 DEF Stop
    <2>2. InOrder'
      BY <2>1, SessionPair DEF HubInv, InOrder
    <2>3. RegisteredSessionIsOurs' /\ NewestSessionReachable'
      BY <2>1 DEF RegisteredSessionIsOurs, NewestSessionReachable, Serving
    <2> QED BY <1>1, <2>2, <2>3 DEF HubInv
  <1> QED BY <1>2, <1>3, <1>4, HubPart

\* Close is the last thing unregister does.
LEMMA ClosedStep == CmdInv /\ ClosedIsDone /\ [Next]_vars => ClosedIsDone'
  <1> SUFFICES ASSUME CmdInv, ClosedIsDone, [Next]_vars, NEW s \in Session, chClosed'[s] PROVE rd'[s] = "done"
    BY DEF ClosedIsDone
  <1>1. /\ rd \in [Session -> {"unused", "closePrev", "reading", "apply", "journal", "unregister", "done"}]
        /\ chClosed \in [Session -> BOOLEAN]
    BY DEF CmdInv, TypeOK, HubTypeOK
  <1>2. CASE chClosed[s]
    BY <1>2, SessionsLast DEF ClosedIsDone
  <1>3. CASE ~chClosed[s]
    <2>1. ASSUME [HubNext]_hubVars
          PROVE  \/ UNCHANGED chClosed
                 \/ \E r \in Session : /\ chClosed' = [chClosed EXCEPT ![r] = TRUE]
                                       /\ rd' = [rd EXCEPT ![r] = "done"]
      BY <2>1 DEF HubNext, SessionStep, DispatchSelect, Register, StartPumps, ReadEnd, Unregister, WriteOk,
                  WriteError, LinkDown, DispatchLookup, DispatchReturn, DispatchEnqueue, DispatchTimeout,
                  DispatchPanic, finish, connVars, hubVars
    <2>2. CASE [HubNext]_hubVars
      BY <1>1, <1>3, <2>1, <2>2
    <2>3. CASE ReadPumpMove
      BY <1>3, <2>3 DEF ReadPumpMove
    <2>4. CASE Stop
      BY <2>4 DEF Stop
    <2> QED BY <2>2, <2>3, <2>4, HubPart
  <1> QED BY <1>2, <1>3

\* A flush that has not started is started by StartSession only, which leaves the SELECT ahead.
LEMMA FlushOff ==
  ASSUME CmdInv, [Next]_vars, NEW s \in Session, fl[s] = "off"
  PROVE  /\ ~Stop => fl'[s] \in {"off", "list"}
         /\ rd[s] = "unused" => fl'[s] = "off"
  <1>1. fl \in [Session -> {"off", "list", "next", "wait", "done"}]
    BY DEF CmdInv, TypeOK
  <1>2. ASSUME NEW c \in Cmd, \/ IssueStart(c) \/ QueueInsert(c) \/ ResolveAsset(c) \/ Refuse(c)
                              \/ IssueDispatch(c) \/ IssueResult(c) \/ IssueJournal(c)
        PROVE  UNCHANGED fl
    BY <1>2 DEF IssueStart, QueueInsert, ResolveAsset, Refuse, IssueDispatch, IssueResult, IssueJournal, flVars
  <1>3. ASSUME NEW r \in Session, EndSession(r) \/ Deliver(r) \/ ReadResult(r) \/ ApplyResult(r) \/ ResultJournal(r)
        PROVE  UNCHANGED fl
    BY <1>3 DEF EndSession, Deliver, ReadResult, ApplyResult, ResultJournal, flVars
  <1>4. ASSUME NEW r \in Session, FlushList(r) \/ FlushDispatch(r) \/ FlushResult(r) \/ FlushEnd(r)
        PROVE  fl'[s] = "off"
    BY <1>1, <1>4 DEF FlushList, FlushDispatch, FlushResult, FlushEnd
  <1>5. ASSUME NEW r \in Session, StartSession(r)
        PROVE  fl'[s] \in {"off", "list"} /\ (rd[s] = "unused" => fl'[s] = "off")
    BY <1>1, <1>5 DEF StartSession, StartPumps
  <1>6. ASSUME \/ UNCHANGED vars \/ HubStep \/ \E a \in Device, c \in Serial : Reenroll(a, c)
               \/ \E d \in Dispatcher : Enqueue(d) \/ QueueFull(d)
        PROVE  UNCHANGED fl
    BY <1>6 DEF vars, cmdVars, HubStep, Reenroll, Enqueue, QueueFull, flVars
  <1>7. ASSUME Stop PROVE rd[s] = "unused" => fl'[s] = "off"
    BY <1>7 DEF Stop
  <1> QED BY <1>2, <1>3, <1>4, <1>5, <1>6, <1>7 DEF Next, Crash, FlushPanic

\* No flush runs before its session is registered.
LEMMA FlushStartsStep == CmdInv /\ FlushStarts /\ [Next]_vars => FlushStarts'
  <1> SUFFICES ASSUME CmdInv, FlushStarts, [Next]_vars, NEW s \in Session, rd'[s] = "unused" PROVE fl'[s] = "off"
    BY DEF FlushStarts
  <1>1. rd[s] = "unused" /\ fl[s] = "off"
    BY SessionsLast DEF FlushStarts
  <1> QED BY <1>1, FlushOff

\* QueueQuarantineCommand goes from the lookup to the INSERT to the dispatch.
LEMMA QueuedPathStep == CmdInv /\ QueuedPath /\ [Next]_vars => QueuedPath'
  <1> SUFFICES ASSUME CmdInv, QueuedPath, [Next]_vars PROVE QueuedPath'
    OBVIOUS
  <1>1. /\ pc \in [Cmd -> {"idle", "insert", "resolve", "refuse", "dispatch", "wait", "journal", "done"}]
        /\ target \in [Cmd -> Serial \cup {NoSerial}] /\ Queued \subseteq Cmd /\ reenrolls \in Nat
    BY CommandAssumption DEF CmdInv, TypeOK
  <1>2. ASSUME UNCHANGED <<pc, target, cert, reenrolls>> PROVE QueuedPath'
    BY <1>2 DEF QueuedPath
  <1>3. ASSUME NEW c \in Cmd, IssueStart(c) \/ QueueInsert(c) \/ ResolveAsset(c) \/ Refuse(c) PROVE QueuedPath'
    <2>1. UNCHANGED <<cert, reenrolls>>
      BY <1>3 DEF IssueStart, QueueInsert, ResolveAsset, Refuse
    <2>2. /\ \A b \in Cmd \ {c} : pc'[b] = pc[b] /\ target'[b] = target[b]
          /\ c \in Queued => pc[c] \notin {"resolve", "refuse"}
      BY <1>1, <1>3 DEF IssueStart, QueueInsert, ResolveAsset, Refuse, QueuedPath
    <2>3. c \in Queued => /\ pc'[c] \in {"insert", "dispatch"}
                          /\ pc[c] = "idle" => target'[c] = cert[DeviceOf[c]]
                          /\ pc[c] # "idle" => pc[c] = "insert" /\ target'[c] = target[c]
      BY <1>1, <1>3, <2>2 DEF IssueStart, QueueInsert, ResolveAsset, Refuse
    <2> QED BY <1>1, <2>1, <2>2, <2>3 DEF QueuedPath
  <1>4. ASSUME NEW c \in Cmd, IssueDispatch(c) \/ IssueResult(c) \/ IssueJournal(c) PROVE QueuedPath'
    <2>1. UNCHANGED <<cert, reenrolls, target>> /\ \A b \in Cmd \ {c} : pc'[b] = pc[b]
      BY <1>1, <1>4 DEF IssueDispatch, IssueResult, IssueJournal
    <2>2. c \in Queued => pc'[c] \in {"wait", "done"}
      BY <1>1, <1>4 DEF IssueDispatch, IssueResult, IssueJournal
    <2> QED BY <1>1, <2>1, <2>2 DEF QueuedPath
  <1>5. ASSUME NEW s \in Session, \/ StartSession(s) \/ EndSession(s) \/ FlushList(s) \/ FlushEnd(s)
                                  \/ FlushDispatch(s) \/ FlushResult(s)
                                  \/ Deliver(s) \/ ReadResult(s) \/ ApplyResult(s) \/ ResultJournal(s)
        PROVE  UNCHANGED <<pc, target, cert, reenrolls>>
    BY <1>5 DEF StartSession, EndSession, FlushList, FlushEnd, FlushDispatch, FlushResult, Deliver, ReadResult,
                ApplyResult, ResultJournal
  <1>6. ASSUME UNCHANGED vars \/ HubStep \/ \E d \in Dispatcher : Enqueue(d) \/ QueueFull(d)
        PROVE  UNCHANGED <<pc, target, cert, reenrolls>>
    BY <1>6 DEF Enqueue, QueueFull, HubStep, vars, cmdVars
  <1>7. ASSUME NEW a \in Device, NEW x \in Serial, Reenroll(a, x) PROVE QueuedPath'
    <2>1. UNCHANGED pc /\ reenrolls' = reenrolls + 1
      BY <1>7 DEF Reenroll
    <2> QED BY <1>1, <2>1 DEF QueuedPath
  <1>8. ASSUME Stop PROVE QueuedPath'
    BY <1>1, <1>8 DEF Stop, QueuedPath
  <1> QED BY <1>2, <1>3, <1>4, <1>5, <1>6, <1>7, <1>8 DEF Next, Crash, FlushPanic

\* As long as a served newest session faces a waiting row, the row stays with somebody.
LEMMA PendingKeptStep == CmdInv /\ PathInv /\ FewPending /\ FlushInv /\ [Next]_vars => PendingKept'
  <1> SUFFICES ASSUME CmdInv, PathInv, FewPending, FlushInv, [Next]_vars, reenrolls' = 0,
                      NEW c \in Queued, NEW s \in Session, status'[c] = "pending", pc'[c] \in {"wait", "done"},
                      cert'[DeviceOf[c]] = SerialOf(s), Newest(s)', Serving(s)'
               PROVE  Kept(c, s)'
    BY DEF PendingKept
  <1>1. /\ pc \in [Cmd -> {"idle", "insert", "resolve", "refuse", "dispatch", "wait", "journal", "done"}]
        /\ status \in [Cmd -> {"none", "pending", "sent", "completed", "failed"}]
        /\ fl \in [Session -> {"off", "list", "next", "wait", "done"}]
        /\ flset \in [Session -> SUBSET Cmd] /\ tried \subseteq Session \X Cmd
        /\ dpc \in [Dispatcher -> {"idle", "sending", "true", "false", "panic"}]
        /\ dsess \in [Dispatcher -> Session \cup {NoSession}] /\ dmsg \in [Dispatcher -> Msg \cup {NoMsg}]
        /\ c \in Cmd /\ reenrolls \in Nat
    BY CommandAssumption DEF CmdInv, TypeOK, HubTypeOK
  <1>2. ~Stop
    BY DEF Stop, Serving
  <1>3. status[c] = "pending"
    BY <1>1, StepIsRowWrite DEF RowWrite
  <1>4. CASE rd[s] = "unused"
    <2>1. fl[s] = "off"
      BY <1>4 DEF FlushInv, FlushStarts
    <2> QED BY <1>2, <2>1, FlushOff DEF Kept
  <1>5. ASSUME rd[s] # "unused" PROVE Newest(s) /\ Serving(s) /\ bySerial[SerialOf(s)] = s
    <2>1. Serving(s)
      BY <1>5, SessionsLast
    <2>2. Newest(s)
      <3>1. \A k \in 1 .. MaxConn : k > s[2] => rd[<<SerialOf(s), k>>] = "unused"
        BY SessionsLast, SessionPair DEF Newest
      <3> QED BY <1>5, <3>1 DEF Newest
    <2> QED BY <2>1, <2>2 DEF FlushInv, HubInv, NewestSessionReachable
  <1>6. ASSUME reenrolls = 0, cert' = cert, rd[s] # "unused", pc[c] \in {"wait", "done"} PROVE Kept(c, s)
    BY <1>3, <1>5, <1>6 DEF FlushInv, PendingKept
  <1>7. ASSUME Kept(c, s), UNCHANGED <<fl, flset>>, tried \subseteq tried',
               \A d \in Dispatcher : dpc[d] = "sending" =>
                  dpc'[d] = dpc[d] /\ dsess'[d] = dsess[d] /\ dmsg'[d] = dmsg[d]
        PROVE  Kept(c, s)'
    BY <1>1, <1>7 DEF Kept, InHand
  <1>8. ASSUME NEW b \in Cmd, IssueStart(b) \/ QueueInsert(b) \/ ResolveAsset(b) \/ Refuse(b) \/ IssueJournal(b),
               rd[s] # "unused"
        PROVE  Kept(c, s)'
    <2>1. UNCHANGED <<dpc, dsess, dmsg, fl, flset, tried, cert, reenrolls>>
      BY <1>8 DEF IssueStart, QueueInsert, ResolveAsset, Refuse, IssueJournal, hubVars, flVars, histVars
    <2>2. pc'[c] = pc[c]
      BY <1>1, <1>8 DEF IssueStart, QueueInsert, ResolveAsset, Refuse, IssueJournal, FlushInv, QueuedPath
    <2> QED BY <1>6, <1>7, <1>8, <2>1, <2>2
  <1>9. ASSUME NEW b \in Cmd, IssueDispatch(b), rd[s] # "unused" PROVE Kept(c, s)'
    <2>1. /\ UNCHANGED <<fl, flset, tried, cert, reenrolls>> /\ dpc[b] = "idle"
          /\ pc' = [pc EXCEPT ![b] = "wait"] /\ pc[b] = "dispatch" /\ DispatchLookup(b, target[b], <<b, b>>)
      BY <1>9 DEF IssueDispatch, flVars, histVars, DispatchLookup
    <2>2. CASE b = c
      <3>1. target[c] = SerialOf(s)
        BY <2>1, <2>2 DEF FlushInv, QueuedPath
      <3>2. /\ dpc' = [dpc EXCEPT ![c] = "sending"] /\ dsess' = [dsess EXCEPT ![c] = s]
            /\ dmsg' = [dmsg EXCEPT ![c] = <<c, c>>]
        BY <1>5, <1>9, <2>1, <2>2, <3>1, HubAssumption DEF DispatchLookup
      <3>3. dpc'[c] = "sending" /\ dsess'[c] = s /\ dmsg'[c][1] = c /\ c \in Dispatcher
        BY <1>1, <3>2, Dispatchers
      <3> QED BY <3>3 DEF Kept, InHand
    <2>3. CASE b # c
      <3>1. \A d \in Dispatcher : dpc[d] = "sending" =>
                  dpc'[d] = dpc[d] /\ dsess'[d] = dsess[d] /\ dmsg'[d] = dmsg[d]
        BY <1>1, <2>1, Dispatchers DEF DispatchLookup
      <3>2. pc'[c] = pc[c]
        BY <1>1, <2>1, <2>3
      <3> QED BY <1>6, <1>7, <1>9, <2>1, <3>1, <3>2
    <2> QED BY <2>2, <2>3
  <1>10. ASSUME NEW b \in Cmd, IssueResult(b), rd[s] # "unused" PROVE Kept(c, s)'
    <2>1. /\ UNCHANGED <<fl, flset, tried, cert, reenrolls, dsess, dmsg>> /\ dpc[b] # "sending"
          /\ dpc' = [dpc EXCEPT ![b] = "idle"] /\ pc[b] = "wait" /\ \A a \in Cmd \ {b} : pc'[a] = pc[a]
      BY <1>1, <1>10 DEF IssueResult, DispatchReturn, flVars, histVars
    <2>2. pc[c] \in {"wait", "done"}
      BY <1>1, <2>1
    <2>3. \A d \in Dispatcher : dpc[d] = "sending" => dpc'[d] = dpc[d]
      BY <1>1, <2>1, Dispatchers
    <2> QED BY <1>6, <1>7, <1>10, <2>1, <2>2, <2>3
  <1>11. ASSUME NEW r \in Session, \/ EndSession(r) \/ Deliver(r) \/ ReadResult(r) \/ ApplyResult(r)
                                   \/ ResultJournal(r), rd[s] # "unused"
         PROVE  Kept(c, s)'
    <2>1. UNCHANGED <<dpc, dsess, dmsg, fl, flset, tried, cert, reenrolls, pc>>
      BY <1>11 DEF EndSession, Deliver, ReadResult, ApplyResult, ResultJournal, ReadEnd, WriteOk,
                   dispVars, flVars, histVars
    <2> QED BY <1>6, <1>7, <1>11, <2>1
  <1>12. ASSUME NEW r \in Session, StartSession(r), rd[s] # "unused" PROVE Kept(c, s)'
    <2>1. UNCHANGED <<dpc, dsess, dmsg, flset, tried, cert, reenrolls, pc>> /\ fl' = [fl EXCEPT ![r] = "list"]
      BY <1>12 DEF StartSession, StartPumps, dispVars, histVars
    <2>2. Kept(c, s)
      BY <1>6, <1>12, <2>1
    <2> QED BY <1>1, <2>1, <2>2 DEF Kept, InHand
  <1>13. ASSUME NEW r \in Session, FlushList(r), rd[s] # "unused" PROVE Kept(c, s)'
    <2>1. UNCHANGED <<dpc, dsess, dmsg, cert, reenrolls, pc>> /\ tried \subseteq tried'
      BY <1>13 DEF FlushList, hubVars
    <2>2. CASE r = s
      <3>1. c \in PendingOf(SerialOf(s)) /\ SerialOf(s) \in Serial
        BY <1>1, <1>3, <2>1, SessionPair DEF PendingOf
      <3>2. c \in ListPending(SerialOf(s))
        BY <3>1, ListIsComplete
      <3> QED BY <1>1, <1>13, <2>2, <3>2 DEF FlushList, Kept
    <2>3. CASE r # s
      <3>1. fl'[s] = fl[s] /\ flset'[s] = flset[s]
        BY <1>1, <1>13, <2>3 DEF FlushList
      <3> QED BY <1>1, <1>6, <1>13, <2>1, <3>1 DEF Kept, InHand
    <2> QED BY <2>2, <2>3
  <1>14. ASSUME NEW r \in Session, FlushDispatch(r), rd[s] # "unused" PROVE Kept(c, s)'
    <2>1. PICK b \in flset[r] : /\ flset' = [flset EXCEPT ![r] = @ \ {b}]
                                /\ DispatchLookup(r, SerialOf(r), <<b, r>>)
      BY <1>14 DEF FlushDispatch
    <2>2. UNCHANGED <<tried, cert, reenrolls, pc>> /\ fl[r] = "next" /\ fl' = [fl EXCEPT ![r] = "wait"]
      BY <1>14 DEF FlushDispatch, histVars
    <2>3. \A d \in Dispatcher : dpc[d] = "sending" =>
                  dpc'[d] = dpc[d] /\ dsess'[d] = dsess[d] /\ dmsg'[d] = dmsg[d]
      BY <1>1, <2>1, Dispatchers DEF DispatchLookup
    <2>4. Kept(c, s)
      BY <1>6, <1>14, <2>2
    <2>5. CASE r = s /\ b = c
      <3>1. /\ dpc' = [dpc EXCEPT ![s] = "sending"] /\ dsess' = [dsess EXCEPT ![s] = s]
            /\ dmsg' = [dmsg EXCEPT ![s] = <<c, s>>]
        BY <1>5, <1>14, <2>1, <2>5, HubAssumption DEF DispatchLookup
      <3>2. dpc'[s] = "sending" /\ dsess'[s] = s /\ dmsg'[s][1] = c /\ s \in Dispatcher
        BY <1>1, <3>1, Dispatchers
      <3> QED BY <3>2 DEF Kept, InHand
    <2>6. CASE ~(r = s /\ b = c)
      <3>1. c \in flset[s] => c \in flset'[s]
        BY <1>1, <2>1, <2>6
      <3>2. fl[s] \in {"off", "list"} => fl'[s] = fl[s]
        BY <1>1, <2>2
      <3> QED BY <2>2, <2>3, <2>4, <3>1, <3>2 DEF Kept, InHand
    <2> QED BY <2>5, <2>6
  <1>15. ASSUME NEW r \in Session, FlushResult(r) \/ FlushEnd(r), rd[s] # "unused" PROVE Kept(c, s)'
    <2>1. UNCHANGED <<tried, cert, reenrolls, pc, flset, dsess, dmsg>> /\ fl[r] \notin {"off", "list"}
      BY <1>15 DEF FlushResult, FlushEnd, DispatchReturn, hubVars, histVars
    <2>2. \A d \in Dispatcher : dpc[d] = "sending" => dpc'[d] = dpc[d]
      BY <1>1, <1>15, Dispatchers DEF FlushResult, FlushEnd, DispatchReturn, hubVars
    <2>3. fl[s] \in {"off", "list"} => fl'[s] = fl[s]
      BY <1>1, <1>15, <2>1 DEF FlushResult, FlushEnd
    <2> QED BY <1>6, <1>15, <2>1, <2>2, <2>3 DEF Kept, InHand
  <1>16. ASSUME NEW d \in Dispatcher, dpc[d] = "sending", UNCHANGED <<fl, flset, cert, reenrolls, pc>>,
                NEW x \in {"true", "false", "panic"}, finish(d, x),
                tried' = tried \cup {<<dsess[d], dmsg[d][1]>>} \/ (tried' = tried /\ chClosed[dsess[d]]),
                rd[s] # "unused"
         PROVE  Kept(c, s)'
    <2>1. Kept(c, s)
      BY <1>6, <1>16
    <2>2. \A e \in Dispatcher \ {d} : dpc'[e] = dpc[e] /\ dsess'[e] = dsess[e] /\ dmsg'[e] = dmsg[e]
      BY <1>1, <1>16 DEF finish
    <2>3. CASE dsess[d] = s /\ dmsg[d][1] = c
      <3>1. ~chClosed[s]
        BY <1>5, <1>16 DEF FlushInv, ClosedIsDone, Serving
      <3> QED BY <1>16, <2>3, <3>1 DEF Kept
    <2>4. CASE ~(dsess[d] = s /\ dmsg[d][1] = c)
      BY <1>16, <2>1, <2>2, <2>4 DEF Kept, InHand
    <2> QED BY <2>3, <2>4
  <1>17. ASSUME NEW d \in Dispatcher, Enqueue(d) \/ QueueFull(d), rd[s] # "unused" PROVE Kept(c, s)'
    BY <1>16, <1>17 DEF Enqueue, QueueFull, DispatchEnqueue, DispatchTimeout, flVars
  <1>18. ASSUME HubStep, rd[s] # "unused" PROVE Kept(c, s)'
    <2>1. UNCHANGED <<fl, flset, tried, cert, reenrolls, pc>>
      BY <1>18 DEF HubStep, cmdVars
    <2>2. ASSUME NEW d \in Dispatcher, DispatchPanic(d) PROVE Kept(c, s)'
      BY <1>16, <1>18, <2>1, <2>2 DEF DispatchPanic
    <2>3. ASSUME NEW r \in Session, Register(r) \/ LinkDown(r) \/ Unregister(r) \/ WriteError(r)
          PROVE  Kept(c, s)'
      <3>1. UNCHANGED <<dpc, dsess, dmsg>>
        BY <2>3 DEF Register, LinkDown, Unregister, WriteError, dispVars
      <3> QED BY <1>6, <1>7, <1>18, <2>1, <3>1
    <2> QED BY <1>18, <2>2, <2>3 DEF HubStep
  <1>19. ASSUME NEW a \in Device, NEW x \in Serial, Reenroll(a, x) PROVE FALSE
    BY <1>1, <1>19 DEF Reenroll
  <1>20. ASSUME UNCHANGED vars, rd[s] # "unused" PROVE Kept(c, s)'
    <2>1. UNCHANGED <<dpc, dsess, dmsg, fl, flset, tried, cert, reenrolls, pc>>
      BY <1>20 DEF vars, hubVars, cmdVars
    <2> QED BY <1>6, <1>7, <1>20, <2>1
  <1> QED BY <1>2, <1>4, <1>8, <1>9, <1>10, <1>11, <1>12, <1>13, <1>14, <1>15, <1>17, <1>18, <1>19, <1>20
          DEF Next, Crash, FlushPanic

\* An undelivered quarantine command is never forgotten by the session that serves its agent, for an
\* agent that keeps its certificate and never has more rows waiting than a flush reads.
THEOREM NothingQueuedIsLost == Spec /\ []FewPending => []NoLostPending
  <1>1. Init => FlushInv
    <2> SUFFICES ASSUME Init PROVE FlushInv
      OBVIOUS
    <2>1. HubInv /\ rd = [s \in Session |-> "unused"] /\ chClosed = [s \in Session |-> FALSE]
      BY HubInitInv DEF Init, HubInit
    <2>2. fl = [s \in Session |-> "off"] /\ pc = [c \in Cmd |-> "idle"] /\ Queued \subseteq Cmd
      BY CommandAssumption DEF Init
    <2> QED BY <2>1, <2>2 DEF FlushInv, ClosedIsDone, FlushStarts, QueuedPath, PendingKept, Newest
  <1>2. CmdInv /\ PathInv /\ FewPending /\ FlushInv /\ [Next]_vars => FlushInv'
    BY HubInvStep, ClosedStep, FlushStartsStep, QueuedPathStep, PendingKeptStep DEF FlushInv
  <1>3. CmdInv /\ PathInv /\ FlushInv => NoLostPending
    <2> SUFFICES ASSUME CmdInv, PathInv, FlushInv, NEW c \in Cmd, NEW s \in Session, reenrolls = 0,
                        Waiting(c), cert[DeviceOf[c]] = SerialOf(s), Newest(s), Serving(s)
                 PROVE  fl[s] \in {"off", "list"} \/ c \in flset[s] \/ (\E r \in Session : flcur[r] = c)
                        \/ <<s, c>> \in tried
      BY DEF NoLostPending
    <2>1. Kept(c, s)
      BY DEF FlushInv, PendingKept, Waiting
    <2>2. ASSUME NEW d \in Dispatcher, dpc[d] = "sending", dmsg[d][1] = c PROVE \E r \in Session : flcur[r] = c
      <3>1. CASE d \in Cmd
        <4>1. d = c /\ pc[c] = "wait"
          BY <2>2, <3>1 DEF CmdInv, Carries, PathInv, IssuerWaits
        <4> QED BY <4>1 DEF Waiting
      <3>2. CASE d \in Session
        BY <2>2, <3>2 DEF CmdInv, Carries
      <3> QED BY <3>1, <3>2, Dispatchers
    <2> QED BY <2>1, <2>2 DEF Kept, InHand
  <1> QED BY <1>1, <1>2, <1>3, CmdInvariant, PathInvariant, PTL DEF Spec

-----------------------------------------------------------------------------
(* The incident journal, with failing statements and stops of the process.    *)

\* Every outcome of a linked command is journalled by the goroutine that recorded it, or noted as left out.
LEMMA JournalledStep == CmdInv /\ OutcomeIsJournalled /\ [Next]_vars => OutcomeIsJournalled'
  <1> SUFFICES ASSUME CmdInv, OutcomeIsJournalled, [Next]_vars,
                      NEW c \in Linked, NEW ok \in BOOLEAN,
                      NEW st, st = (IF ok THEN "completed" ELSE "failed"), status'[c] = st
               PROVE  Journalled(c, ok)'
    BY DEF OutcomeIsJournalled
  <1> DEFINE n == [ok |-> ok]
             r == [cmd |-> c, ok |-> ok]
             Goal == \/ n \in notes'[c]
                     \/ \E s \in Session : rd'[s] = "journal" /\ cur'[s] = r
                     \/ ~ok /\ pc'[c] = "journal"
                     \/ r \in unnoted'
  <1> SUFFICES Goal
    BY DEF Journalled
  <1>1. /\ rd \in [Session -> {"unused", "closePrev", "reading", "apply", "journal", "unregister", "done"}]
        /\ cur \in [Session -> Result \cup {NoResult}] /\ notes \in [Cmd -> SUBSET Note]
        /\ status \in [Cmd -> {"none", "pending", "sent", "completed", "failed"}] /\ c \in Cmd
        /\ pc \in [Cmd -> {"idle", "insert", "resolve", "refuse", "dispatch", "wait", "journal", "done"}]
        /\ Applying
    BY CommandAssumption DEF CmdInv, TypeOK, HubTypeOK
  <1>2. status[c] = st => \/ n \in notes[c]
                          \/ \E s \in Session : rd[s] = "journal" /\ cur[s] = r
                          \/ ~ok /\ pc[c] = "journal"
                          \/ r \in unnoted
    <2>1. CASE ok = TRUE
      BY <2>1 DEF OutcomeIsJournalled, Journalled
    <2>2. CASE ok = FALSE
      BY <2>2 DEF OutcomeIsJournalled, Journalled
    <2> QED BY <2>1, <2>2
  <1>r. r.cmd = c /\ r.ok = ok /\ r \in Result
    BY <1>1 DEF Result
  <1> HIDE DEF n, r
  <1>3. ASSUME status[c] = st, notes[c] \subseteq notes'[c], unnoted \subseteq unnoted',
               \A s \in Session : rd[s] = "journal" => rd'[s] = "journal" /\ cur'[s] = cur[s],
               pc[c] = "journal" => pc'[c] = "journal"
        PROVE  Goal
    BY <1>2, <1>3
  <1>4. ASSUME NEW b \in Cmd, IssueStart(b) \/ QueueInsert(b) \/ ResolveAsset(b) \/ IssueDispatch(b)
        PROVE  Goal
    <2>1. UNCHANGED <<rd, cur, notes, unnoted>> /\ (pc[c] = "journal" => pc'[c] = "journal")
      BY <1>1, <1>4 DEF IssueStart, QueueInsert, ResolveAsset, IssueDispatch, InsertDeviceCommand,
                  DispatchLookup, hubVars, connVars, rowVars
    <2>2. status[c] = st
      BY <1>1, <1>4 DEF IssueStart, QueueInsert, ResolveAsset, IssueDispatch, InsertDeviceCommand, rowVars
    <2> QED BY <1>3, <2>1, <2>2
  <1>5. ASSUME NEW b \in Cmd, Refuse(b) \/ IssueResult(b) PROVE Goal
    <2>1. UNCHANGED <<rd, cur, notes, unnoted>> /\ pc[b] # "journal"
      BY <1>5 DEF Refuse, IssueResult, DispatchReturn, FailDeviceCommandIfPending, MarkDeviceCommandSent,
                  updateDeviceCommandStatus, hubVars, connVars, rowVars
    <2>2. CASE status'[c] = status[c] /\ b # c
      <3>1. pc'[c] = pc[c]
        BY <1>1, <1>5, <2>2 DEF Refuse, IssueResult
      <3> QED BY <1>3, <2>1, <2>2, <3>1
    <2>3. CASE status'[c] = status[c] /\ b = c
      BY <1>3, <2>1, <2>3
    <2>4. CASE status'[c] # status[c]
      <3>1. b = c /\ status'[c] = "failed" /\ pc'[c] = "journal"
        BY <1>1, <1>5, <2>4 DEF Refuse, IssueResult, FailDeviceCommandIfPending, MarkDeviceCommandSent,
                    updateDeviceCommandStatus, rowVars
      <3>2. ~ok
        BY <3>1
      <3> QED BY <3>1, <3>2
    <2> QED BY <2>2, <2>3, <2>4
  <1>6. ASSUME NEW b \in Cmd, IssueJournal(b) PROVE Goal
    <2>1. UNCHANGED <<rd, cur, status>> /\ pc' = [pc EXCEPT ![b] = "done"]
      BY <1>6 DEF IssueJournal, AppendIncidentJournal, hubVars
    <2> DEFINE m == [ok |-> FALSE]
               q == [cmd |-> b, ok |-> FALSE]
    <2>2. \/ notes' = [notes EXCEPT ![b] = @ \cup {m}] /\ unnoted' = unnoted
          \/ notes' = notes /\ unnoted' = unnoted \cup {q}
      BY <1>6 DEF IssueJournal, AppendIncidentJournal
    <2>3. CASE b = c /\ ~ok
      <3>1. m = n /\ q = r
        BY <2>3 DEF n, r
      <3> HIDE DEF m, q
      <3> QED BY <1>1, <2>2, <2>3, <3>1
    <2>4. CASE ~(b = c /\ ~ok)
      <3> HIDE DEF m, q
      <3>1. notes[c] \subseteq notes'[c] /\ unnoted \subseteq unnoted'
        BY <1>1, <2>2
      <3>2. ~ok => pc'[c] = pc[c]
        BY <1>1, <2>1, <2>4
      <3> QED BY <1>2, <2>1, <3>1, <3>2
    <2> QED BY <2>3, <2>4
  <1>7. ASSUME NEW s \in Session, \/ StartSession(s) \/ EndSession(s) \/ FlushList(s) \/ FlushDispatch(s)
                                  \/ FlushEnd(s) \/ Deliver(s) \/ ReadResult(s)
        PROVE  Goal
    <2>1. UNCHANGED <<status, notes, unnoted, pc>>
      BY <1>7 DEF StartSession, EndSession, FlushList, FlushDispatch, FlushEnd, Deliver, ReadResult, rowVars
    <2>2. \A q \in Session : rd[q] = "journal" => rd'[q] = "journal" /\ cur'[q] = cur[q]
      BY <1>1, <1>7 DEF StartSession, EndSession, FlushList, FlushDispatch, FlushEnd, Deliver, ReadResult,
                        StartPumps, ReadEnd, WriteOk, DispatchLookup, hubVars, connVars
    <2> QED BY <1>3, <2>1, <2>2
  <1>8. ASSUME NEW s \in Session, FlushResult(s) PROVE Goal
    <2>1. UNCHANGED <<rd, cur, pc>>
      BY <1>8 DEF FlushResult, DispatchReturn, connVars
    <2>2. UNCHANGED <<notes, unnoted>> /\ status[c] = st
      BY <1>1, <1>8 DEF FlushResult, MarkDeviceCommandSent, updateDeviceCommandStatus, rowVars
    <2> QED BY <1>3, <2>1, <2>2
  <1>9. ASSUME NEW s \in Session, ApplyResult(s) PROVE Goal
    <2> DEFINE b == cur[s].cmd
    <2>1. cur[s] \in Result /\ b \in Cmd /\ cur[s].ok \in BOOLEAN /\ rd[s] = "apply" /\ UNCHANGED <<notes, unnoted, pc>>
      BY <1>1, <1>9 DEF ApplyResult, Applying, Result, updateDeviceCommandStatus, rowVars
    <2>2. CASE status'[c] = status[c] /\ ~(b = c /\ status' = [status EXCEPT ![b] = IF cur[s].ok THEN "completed" ELSE "failed"])
      <3>1. \A q \in Session : rd[q] = "journal" => rd'[q] = "journal" /\ cur'[q] = cur[q]
        BY <1>1, <1>9, <2>1 DEF ApplyResult
      <3> QED BY <1>3, <2>1, <2>2, <3>1
    <2>3. CASE b = c /\ status' = [status EXCEPT ![b] = IF cur[s].ok THEN "completed" ELSE "failed"]
      <3>1. CASE rd' = [rd EXCEPT ![s] = "journal"] /\ cur' = cur
        <4>1. cur[s].ok = ok
          BY <1>1, <2>1, <2>3
        <4>2. cur[s] = r
          BY <2>1, <2>3, <4>1 DEF Result, r
        <4> QED BY <1>1, <3>1, <4>2
      <3>2. CASE ~(rd' = [rd EXCEPT ![s] = "journal"] /\ cur' = cur)
        <4>1. UNCHANGED rowVars /\ rd' = [rd EXCEPT ![s] = "reading"] /\ cur' = [cur EXCEPT ![s] = NoResult]
          BY <1>9, <2>3, <3>2 DEF ApplyResult
        <4>2. \A q \in Session : rd[q] = "journal" => rd'[q] = "journal" /\ cur'[q] = cur[q]
          BY <1>1, <2>1, <4>1
        <4> QED BY <1>3, <2>1, <4>1, <4>2 DEF rowVars
      <3> QED BY <3>1, <3>2
    <2>4. CASE status'[c] # status[c] /\ b # c
      BY <1>1, <1>9, <2>4 DEF ApplyResult, updateDeviceCommandStatus, rowVars
    <2>5. CASE status'[c] # status[c] /\ ~(status' = [status EXCEPT ![b] = IF cur[s].ok THEN "completed" ELSE "failed"])
      BY <1>1, <1>9, <2>5 DEF ApplyResult, updateDeviceCommandStatus, rowVars
    <2> QED BY <2>2, <2>3, <2>4, <2>5
  <1>10. ASSUME NEW s \in Session, ResultJournal(s) PROVE Goal
    <2>1. /\ rd[s] = "journal" /\ cur[s] \in Result /\ cur[s].cmd \in Cmd /\ cur[s].ok \in BOOLEAN
          /\ rd' = [rd EXCEPT ![s] = "reading"] /\ cur' = [cur EXCEPT ![s] = NoResult] /\ UNCHANGED <<status, pc>>
      BY <1>1, <1>10 DEF ResultJournal, AppendIncidentJournal, Applying, Result
    <2> DEFINE m == [ok |-> cur[s].ok]
               q == [cmd |-> cur[s].cmd, ok |-> cur[s].ok]
    <2>2. \/ notes' = [notes EXCEPT ![cur[s].cmd] = @ \cup {m}] /\ unnoted' = unnoted
          \/ notes' = notes /\ unnoted' = unnoted \cup {q}
      BY <1>10 DEF ResultJournal, AppendIncidentJournal
    <2>3. CASE cur[s] = r
      <3>1. m = n /\ q = r /\ cur[s].cmd = c
        BY <1>r, <2>3 DEF n, r
      <3> HIDE DEF m, q
      <3> QED BY <1>1, <2>2, <3>1
    <2>4. CASE cur[s] # r
      <3> HIDE DEF m, q
      <3>1. notes[c] \subseteq notes'[c] /\ unnoted \subseteq unnoted'
        BY <1>1, <2>1, <2>2
      <3>2. \A p \in Session : p # s => rd'[p] = rd[p] /\ cur'[p] = cur[p]
        BY <1>1, <2>1
      <3> QED BY <1>2, <2>1, <2>4, <3>1, <3>2
    <2> QED BY <2>3, <2>4
  <1>11. ASSUME \/ UNCHANGED vars \/ \E a \in Device, x \in Serial : Reenroll(a, x)
                \/ \E d \in Dispatcher : Enqueue(d) \/ QueueFull(d)
         PROVE  Goal
    <2>1. UNCHANGED <<status, notes, unnoted, pc, rd, cur>>
      BY <1>11 DEF vars, hubVars, cmdVars, rowVars, Reenroll, Enqueue, QueueFull, DispatchEnqueue,
                   DispatchTimeout, finish, connVars
    <2> QED BY <1>3, <2>1
  <1>12. ASSUME HubStep PROVE Goal
    <2>1. UNCHANGED <<status, notes, unnoted, pc, cur>>
      BY <1>12 DEF HubStep, cmdVars
    <2>2. \A p \in Session : rd[p] = "journal" => rd'[p] = "journal"
      BY <1>1, <1>12 DEF HubStep, Register, LinkDown, Unregister, WriteError, DispatchPanic, finish, connVars
    <2> QED BY <1>3, <2>1, <2>2
  <1>13. ASSUME Stop PROVE Goal
    <2>1. UNCHANGED <<status, notes>> /\ unnoted \subseteq unnoted'
      BY <1>13 DEF Stop
    <2>2. ASSUME NEW s \in Session, rd[s] = "journal", cur[s] = r PROVE r \in unnoted'
      BY <1>13, <2>2 DEF Stop
    <2>3. ASSUME ~ok, pc[c] = "journal" PROVE r \in unnoted'
      <3>1. r = [cmd |-> c, ok |-> FALSE]
        BY <2>3 DEF r
      <3> QED BY <1>1, <1>13, <2>3, <3>1 DEF Stop
    <2> QED BY <1>2, <2>1, <2>2, <2>3
  <1> QED BY <1>4, <1>5, <1>6, <1>7, <1>8, <1>9, <1>10, <1>11, <1>12, <1>13 DEF Next, Crash, FlushPanic

\* Whatever fails and wherever the process stops, the outcome of a command that belongs to an incident is in
\* the incident's journal, about to be put there, or one whose own journal statement failed or was cut off.
THEOREM OutcomesAreJournalled == Spec => []OutcomeIsJournalled
  <1>1. Init => OutcomeIsJournalled
    BY CommandAssumption DEF Init, OutcomeIsJournalled
  <1>2. CmdInv /\ OutcomeIsJournalled /\ [Next]_vars => OutcomeIsJournalled'
    BY JournalledStep
  <1> QED BY <1>1, <1>2, CmdInvariant, PTL DEF Spec
=============================================================================
