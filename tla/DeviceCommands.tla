--------------------------- MODULE DeviceCommands ---------------------------
(***************************************************************************)
(* The device_commands table and everything that writes it, composed with   *)
(* the C2 hub: the operator's POST handlers (REST and incident console),     *)
(* the quarantine paths that leave an undelivered command pending, the       *)
(* flush goroutine every new agent session starts, the agent that runs a     *)
(* downlink and reports, and the server's handling of that report.           *)
(*                                                                         *)
(* A command id names its row and also the goroutine that issues it; a       *)
(* session names its flush goroutine.  A downlink is <<command, dispatcher>>:*)
(* the payload on the wire is the command, the dispatcher only tells two     *)
(* deliveries of the same command apart.  Every SQL statement is one step.   *)
(***************************************************************************)
EXTENDS C2Hub

CONSTANTS
  Cmd,          \* device_commands ids
  Queued,       \* commands issued by the quarantine paths (rest: operator POST)
  Linked,       \* commands with an incident_context_id
  Device,       \* assets
  DeviceOf,     \* device_commands.device_id
  NoSerial,     \* assets.cert_serial IS NULL
  FlushLimit,   \* LIMIT of the flush's SELECT (25)
  DbFaults,     \* TRUE: an SQL statement after the INSERT may fail or be cancelled
  MaxCrash,     \* bound: server process restarts
  MaxReenroll   \* bound: changes of an asset's certificate

ASSUME CommandAssumption ==
  /\ Queued \subseteq Cmd /\ Linked \subseteq Cmd
  /\ DeviceOf \in [Cmd -> Device]
  /\ NoSerial \notin Serial
  /\ FlushLimit \in Nat \ {0}
  /\ DbFaults \in BOOLEAN
  /\ MaxCrash \in Nat /\ MaxReenroll \in Nat
  /\ IsFiniteSet(Cmd) /\ Cmd \cap Session = {} /\ NoMsg \notin Cmd
  /\ Dispatcher = Cmd \cup Session
  /\ Msg = Cmd \X Dispatcher

VARIABLES
  cert,      \* assets.cert_serial
  status,    \* device_commands.status, "none" before the INSERT
  output,    \* device_commands.output: "", "result", "notConnected", "noCert"
  stamped,   \* device_commands.completed_at IS NOT NULL
  age,       \* device_commands.created_at as an insertion rank, 0 before the INSERT
  notes,     \* incident work notes of kind c2_command, by their success field
  pc,        \* the issuing goroutine of a command
  target,    \* certSerial resolved by the issuing goroutine
  fl,        \* the flush goroutine of a session
  flset,     \* rows its SELECT returned and it has not reached
  flcur,     \* the row it is dispatching
  working,   \* downlinks the agent got whose result readPump has not read
  cur,       \* the result readPump is applying
  crashes, reenrolls,
  enq,       \* history: commands a session's queue has accepted
  got,       \* history: commands the agent has received
  tried,     \* history: <<session, command>> the session's queue took or refused, or whose
             \*          flush could not list
  unnoted,   \* history: outcomes whose journal statement failed or went with the process
  caught     \* history: sessions between ownership check and UPDATE when a certificate moved

histVars == <<enq, got, tried, caught>>
rowVars == <<status, output, stamped, age, notes, unnoted>>
flVars  == <<fl, flset, flcur>>
cmdVars == <<cert, status, output, stamped, age, notes, unnoted, pc, target, fl, flset, flcur,
             working, cur, crashes, reenrolls, enq, got, tried, caught>>
vars    == <<hubVars, cmdVars>>

NoCmd    == NoMsg
NoResult == NoMsg
Result   == [cmd : Cmd, ok : BOOLEAN]
Note     == [ok : BOOLEAN]

Init ==
  /\ HubInit
  /\ cert \in [Device -> Serial \cup {NoSerial}]
  /\ \A a, b \in Device : a # b /\ cert[a] # NoSerial => cert[a] # cert[b]
  /\ status = [c \in Cmd |-> "none"]
  /\ output = [c \in Cmd |-> ""]
  /\ stamped = [c \in Cmd |-> FALSE]
  /\ age = [c \in Cmd |-> 0]
  /\ notes = [c \in Cmd |-> {}] /\ unnoted = {}
  /\ pc = [c \in Cmd |-> "idle"]
  /\ target = [c \in Cmd |-> NoSerial]
  /\ fl = [s \in Session |-> "off"]
  /\ flset = [s \in Session |-> {}]
  /\ flcur = [s \in Session |-> NoCmd]
  /\ working = [s \in Session |-> {}]
  /\ cur = [s \in Session |-> NoResult]
  /\ crashes = 0 /\ reenrolls = 0
  /\ enq = {} /\ got = {} /\ tried = {} /\ caught = {}

----------------------------------------------------------------------------
(* The statements of internal/database/device_commands.go                   *)

InsertDeviceCommand(c) ==
  /\ status' = [status EXCEPT ![c] = "pending"]
  /\ age' = [age EXCEPT ![c] = Cardinality({b \in Cmd : status[b] # "none"}) + 1]
  /\ UNCHANGED <<output, stamped, notes, unnoted>>

\* updateDeviceCommandStatus: no condition on the status the row has.
updateDeviceCommandStatus(c, st, out, setCompleted) ==
  /\ status' = [status EXCEPT ![c] = st]
  /\ output' = [output EXCEPT ![c] = out]
  /\ stamped' = [stamped EXCEPT ![c] = @ \/ setCompleted]
  /\ UNCHANGED <<age, notes, unnoted>>

MarkDeviceCommandSent(c) ==
  \/ updateDeviceCommandStatus(c, "sent", "", FALSE)
  \/ DbFaults /\ UNCHANGED rowVars

\* Mutant of FailDeviceCommandIfPending: no condition.
FailDeviceCommandAny(c) == updateDeviceCommandStatus(c, "failed", "noCert", TRUE)

\* The conditional variant, used when the asset has no certificate.
FailDeviceCommandIfPending(c) ==
  IF status[c] = "pending"
  THEN /\ status' = [status EXCEPT ![c] = "failed"]
       /\ output' = [output EXCEPT ![c] = "noCert"]
       /\ stamped' = [stamped EXCEPT ![c] = TRUE]
       /\ UNCHANGED <<age, notes, unnoted>>
  ELSE UNCHANGED rowVars

\* AppendIncidentJournalForTerminalCommand: reads which incident the row belongs to (it never
\* changes), then appends to work_notes.  The callers ignore its error.
AppendIncidentJournal(c, ok) ==
  /\ \/ /\ notes' = [notes EXCEPT ![c] = @ \cup {[ok |-> ok]}]
        /\ UNCHANGED unnoted
     \/ /\ DbFaults
        /\ unnoted' = unnoted \cup {[cmd |-> c, ok |-> ok]}
        /\ UNCHANGED notes
  /\ UNCHANGED <<status, output, stamped, age>>

\* ListPendingDeviceCommandsForCertSerial: oldest first, at most FlushLimit rows.
ListPending(c) ==
  LET P == {b \in Cmd : status[b] = "pending" /\ cert[DeviceOf[b]] = c}
  IN  {b \in P : Cardinality({a \in P : age[a] < age[b]}) < FlushLimit}

----------------------------------------------------------------------------
(* Issuing a command.  handleCreate and handlePostIncidentCommand insert,    *)
(* resolve, dispatch, then mark sent or fail; QueueQuarantineCommand and      *)
(* EvaluateAfterTelemetry know the serial before they insert and leave an     *)
(* undelivered row pending.                                                  *)

IssueStart(c) ==
  /\ pc[c] = "idle"
  /\ \/ /\ c \notin Queued
        /\ InsertDeviceCommand(c)
        /\ pc' = [pc EXCEPT ![c] = "resolve"]
        /\ UNCHANGED target
     \/ /\ c \in Queued /\ cert[DeviceOf[c]] # NoSerial
        /\ target' = [target EXCEPT ![c] = cert[DeviceOf[c]]]
        /\ pc' = [pc EXCEPT ![c] = "insert"]
        /\ UNCHANGED rowVars
  /\ UNCHANGED <<hubVars, cert, flVars, working, cur, crashes, reenrolls, histVars>>

QueueInsert(c) ==
  /\ pc[c] = "insert"
  /\ InsertDeviceCommand(c)
  /\ pc' = [pc EXCEPT ![c] = "dispatch"]
  /\ UNCHANGED <<hubVars, cert, target, flVars, working, cur, crashes, reenrolls, histVars>>

ResolveAsset(c) ==
  /\ pc[c] = "resolve"
  /\ \/ /\ cert[DeviceOf[c]] # NoSerial
        /\ target' = [target EXCEPT ![c] = cert[DeviceOf[c]]]
        /\ pc' = [pc EXCEPT ![c] = "dispatch"]
     \/ /\ cert[DeviceOf[c]] = NoSerial \/ DbFaults
        /\ pc' = [pc EXCEPT ![c] = "refuse"]
        /\ UNCHANGED target
  /\ UNCHANGED <<hubVars, cert, rowVars, flVars, working, cur, crashes, reenrolls, histVars>>

\* The asset was not resolved; a reconnect may have sent the row meanwhile.
Refuse(c) ==
  /\ pc[c] = "refuse"
  /\ FailDeviceCommandIfPending(c) \/ (DbFaults /\ UNCHANGED rowVars)
  /\ pc' = [pc EXCEPT ![c] = IF c \in Linked /\ status'[c] # status[c] THEN "journal" ELSE "done"]
  /\ UNCHANGED <<hubVars, cert, target, flVars, working, cur, crashes, reenrolls, histVars>>

IssueDispatch(c) ==
  /\ pc[c] = "dispatch"
  /\ DispatchLookup(c, target[c], <<c, c>>)
  /\ pc' = [pc EXCEPT ![c] = "wait"]
  /\ UNCHANGED <<cert, rowVars, target, flVars, working, cur, crashes, reenrolls, histVars>>

\* Mutant of IssueResult: the answer of Dispatch is ignored.
IssueResultIgnored(c) ==
  /\ pc[c] = "wait"
  /\ DispatchReturn(c)
  /\ MarkDeviceCommandSent(c)
  /\ pc' = [pc EXCEPT ![c] = "done"]
  /\ UNCHANGED <<cert, target, flVars, working, cur, crashes, reenrolls, histVars>>

\* Dispatch returned.  A panic is recovered by net/http: the handler is abandoned there.
IssueResult(c) ==
  /\ pc[c] = "wait"
  /\ DispatchReturn(c)
  /\ \/ /\ dpc[c] = "true"
        /\ MarkDeviceCommandSent(c)
        /\ pc' = [pc EXCEPT ![c] = "done"]
     \/ /\ dpc[c] = "false" /\ c \notin Queued
        /\ \/ /\ updateDeviceCommandStatus(c, "failed", "notConnected", TRUE)
              /\ pc' = [pc EXCEPT ![c] = IF c \in Linked THEN "journal" ELSE "done"]
           \/ /\ DbFaults /\ UNCHANGED rowVars
              /\ pc' = [pc EXCEPT ![c] = "done"]
     \/ /\ (dpc[c] = "false" /\ c \in Queued) \/ dpc[c] = "panic"
        /\ pc' = [pc EXCEPT ![c] = "done"]
        /\ UNCHANGED rowVars
  /\ UNCHANGED <<cert, target, flVars, working, cur, crashes, reenrolls, histVars>>

IssueJournal(c) ==
  /\ pc[c] = "journal"
  /\ AppendIncidentJournal(c, FALSE)
  /\ pc' = [pc EXCEPT ![c] = "done"]
  /\ UNCHANGED <<hubVars, cert, target, flVars, working, cur, crashes, reenrolls, histVars>>

----------------------------------------------------------------------------
(* The flush goroutine of a new session                                     *)

\* Mutant of StartSession: no flush for a connection that replaces another one.
StartSessionFirstOnly(s) ==
  /\ StartPumps(s)
  /\ fl' = [fl EXCEPT ![s] = IF prev[s] = NoSession THEN "list" ELSE "done"]
  /\ UNCHANGED <<cert, rowVars, pc, target, flset, flcur, working, cur, crashes, reenrolls, histVars>>

\* NewWSGatewayHandler: register, then go FlushPendingDeviceCommands, then the pumps.
StartSession(s) ==
  /\ StartPumps(s)
  /\ fl' = [fl EXCEPT ![s] = "list"]
  /\ UNCHANGED <<cert, rowVars, pc, target, flset, flcur, working, cur, crashes, reenrolls, histVars>>

FlushList(s) ==
  /\ fl[s] = "list"
  /\ \/ /\ flset' = [flset EXCEPT ![s] = ListPending(SerialOf(s))]
        /\ fl' = [fl EXCEPT ![s] = "next"]
        /\ UNCHANGED tried
     \/ /\ DbFaults
        /\ fl' = [fl EXCEPT ![s] = "done"]
        /\ tried' = tried \cup ({s} \X Cmd)
        /\ UNCHANGED flset
  /\ UNCHANGED <<hubVars, cert, rowVars, pc, target, flcur, working, cur, crashes, reenrolls, enq, got, caught>>

FlushDispatch(s) ==
  /\ fl[s] = "next"
  /\ \E c \in flset[s] :
       /\ \A b \in flset[s] : age[c] <= age[b]
       /\ flset' = [flset EXCEPT ![s] = @ \ {c}]
       /\ flcur' = [flcur EXCEPT ![s] = c]
       /\ DispatchLookup(s, SerialOf(s), <<c, s>>)
  /\ fl' = [fl EXCEPT ![s] = "wait"]
  /\ UNCHANGED <<cert, rowVars, pc, target, working, cur, crashes, reenrolls, histVars>>

\* true: mark sent; false: skip the row and go on.
FlushResult(s) ==
  /\ fl[s] = "wait"
  /\ DispatchReturn(s)
  /\ \/ dpc[s] = "true" /\ MarkDeviceCommandSent(flcur[s])
     \/ dpc[s] = "false" /\ UNCHANGED rowVars
  /\ flcur' = [flcur EXCEPT ![s] = NoCmd]
  /\ fl' = [fl EXCEPT ![s] = "next"]
  /\ UNCHANGED <<cert, pc, target, flset, working, cur, crashes, reenrolls, histVars>>

FlushEnd(s) ==
  /\ fl[s] = "next" /\ flset[s] = {}
  /\ fl' = [fl EXCEPT ![s] = "done"]
  /\ UNCHANGED <<hubVars, cert, rowVars, pc, target, flset, flcur, working, cur, crashes, reenrolls, histVars>>

----------------------------------------------------------------------------
(* The agent, and the result on its way back.  HandleDownlink runs commands  *)
(* in goroutines of their own, so results come back in any order; a result    *)
(* that was not read before the connection ended is lost.                     *)

Deliver(s) ==
  /\ WriteOk(s)
  /\ working' = IF link[s] THEN [working EXCEPT ![s] = @ \cup {Head(send[s])}] ELSE working
  /\ got' = IF link[s] THEN got \cup {Head(send[s])[1]} ELSE got
  /\ UNCHANGED <<cert, rowVars, pc, target, flVars, cur, crashes, reenrolls, enq, tried, caught>>

\* Mutant of ReadResult: no ownership check.
ReadResultAny(s) ==
  /\ rd[s] = "reading" /\ conn[s] = "open"
  /\ \E m \in working[s], ok \in BOOLEAN :
       /\ working' = [working EXCEPT ![s] = @ \ {m}]
       /\ cur' = [cur EXCEPT ![s] = [cmd |-> m[1], ok |-> ok]]
  /\ rd' = [rd EXCEPT ![s] = "apply"]
  /\ UNCHANGED <<bySerial, conn, link, prev, wr, send, chClosed, dispVars>>
  /\ UNCHANGED <<cert, rowVars, pc, target, flVars, crashes, reenrolls, histVars>>

\* reportResult, and readPump handing it to ApplyDeviceCommandOutcome: the ownership SELECT.
ReadResult(s) ==
  /\ rd[s] = "reading" /\ conn[s] = "open"
  /\ \E m \in working[s], ok \in BOOLEAN :
       /\ working' = [working EXCEPT ![s] = @ \ {m}]
       /\ \/ /\ cert[DeviceOf[m[1]]] = SerialOf(s)
             /\ cur' = [cur EXCEPT ![s] = [cmd |-> m[1], ok |-> ok]]
             /\ rd' = [rd EXCEPT ![s] = "apply"]
          \/ /\ cert[DeviceOf[m[1]]] # SerialOf(s) \/ DbFaults
             /\ UNCHANGED <<cur, rd>>
  /\ UNCHANGED <<bySerial, conn, link, prev, wr, send, chClosed, dispVars>>
  /\ UNCHANGED <<cert, rowVars, pc, target, flVars, crashes, reenrolls, histVars>>

\* Mutant of ApplyResult: returns after the UPDATE.
ApplyResultNoJournal(s) ==
  /\ rd[s] = "apply"
  /\ updateDeviceCommandStatus(cur[s].cmd, IF cur[s].ok THEN "completed" ELSE "failed", "result", TRUE)
  /\ rd' = [rd EXCEPT ![s] = "reading"]
  /\ cur' = [cur EXCEPT ![s] = NoResult]
  /\ UNCHANGED <<bySerial, conn, link, prev, wr, send, chClosed, dispVars>>
  /\ UNCHANGED <<cert, pc, target, flVars, working, crashes, reenrolls, histVars>>

\* CompleteDeviceCommand / FailDeviceCommand: the UPDATE.
ApplyResult(s) ==
  LET c == cur[s].cmd
      ok == cur[s].ok
  IN
  /\ rd[s] = "apply"
  /\ \/ /\ updateDeviceCommandStatus(c, IF ok THEN "completed" ELSE "failed", "result", TRUE)
        /\ rd' = [rd EXCEPT ![s] = IF c \in Linked THEN "journal" ELSE "reading"]
        /\ cur' = IF c \in Linked THEN cur ELSE [cur EXCEPT ![s] = NoResult]
     \/ /\ DbFaults /\ UNCHANGED rowVars
        /\ rd' = [rd EXCEPT ![s] = "reading"]
        /\ cur' = [cur EXCEPT ![s] = NoResult]
  /\ UNCHANGED <<bySerial, conn, link, prev, wr, send, chClosed, dispVars>>
  /\ UNCHANGED <<cert, pc, target, flVars, working, crashes, reenrolls, histVars>>

\* ... and the incident journal that follows it.
ResultJournal(s) ==
  /\ rd[s] = "journal"
  /\ AppendIncidentJournal(cur[s].cmd, cur[s].ok)
  /\ rd' = [rd EXCEPT ![s] = "reading"]
  /\ cur' = [cur EXCEPT ![s] = NoResult]
  /\ UNCHANGED <<bySerial, conn, link, prev, wr, send, chClosed, dispVars>>
  /\ UNCHANGED <<cert, pc, target, flVars, working, crashes, reenrolls, histVars>>

----------------------------------------------------------------------------
(* The rest of the hub, restarts, and the certificate of an asset           *)

\* What readPump has not read is lost with the connection.
EndSession(s) ==
  /\ ReadEnd(s)
  /\ working' = [working EXCEPT ![s] = {}]
  /\ UNCHANGED <<cert, rowVars, pc, target, flVars, cur, crashes, reenrolls, histVars>>

HubStep ==
  /\ \/ \E s \in Session : \/ Register(s) \/ LinkDown(s) \/ Unregister(s)
                           \/ WriteError(s)
     \/ \E d \in Dispatcher : DispatchPanic(d)
  /\ UNCHANGED cmdVars

Enqueue(d) ==
  /\ DispatchEnqueue(d)
  /\ enq' = enq \cup {dmsg[d][1]}
  /\ tried' = tried \cup {<<dsess[d], dmsg[d][1]>>}
  /\ UNCHANGED <<cert, rowVars, pc, target, flVars, working, cur, crashes, reenrolls, got, caught>>

QueueFull(d) ==
  /\ DispatchTimeout(d)
  /\ tried' = tried \cup {<<dsess[d], dmsg[d][1]>>}
  /\ UNCHANGED <<cert, rowVars, pc, target, flVars, working, cur, crashes, reenrolls, enq, got, caught>>

\* The process ends: every goroutine and socket is gone, the table is not.
Stop ==
  /\ bySerial' = [c \in Serial |-> NoSession]
  /\ conn' = [s \in Session |-> IF conn[s] = "open" THEN "closed" ELSE conn[s]]
  /\ link' = [s \in Session |-> FALSE]
  /\ rd' = [s \in Session |-> IF rd[s] = "unused" THEN "unused" ELSE "done"]
  /\ prev' = [s \in Session |-> NoSession]
  /\ wr' = [s \in Session |-> IF rd[s] = "unused" THEN "unused" ELSE "done"]
  /\ send' = [s \in Session |-> <<>>]
  /\ chClosed' = [s \in Session |-> rd[s] # "unused"]
  /\ dpc' = [d \in Dispatcher |-> "idle"]
  /\ dsess' = [d \in Dispatcher |-> NoSession]
  /\ dmsg' = [d \in Dispatcher |-> NoMsg]
  /\ pc' = [c \in Cmd |-> IF pc[c] = "idle" THEN "idle" ELSE "done"]
  /\ fl' = [s \in Session |-> IF rd[s] = "unused" THEN "off" ELSE "done"]
  /\ flset' = [s \in Session |-> {}]
  /\ flcur' = [s \in Session |-> NoCmd]
  /\ working' = [s \in Session |-> {}]
  /\ cur' = [s \in Session |-> NoResult]
  /\ unnoted' = unnoted \cup {cur[s] : s \in {r \in Session : rd[r] = "journal"}}
                        \cup {[cmd |-> c, ok |-> FALSE] : c \in {b \in Cmd : pc[b] = "journal"}}
  /\ UNCHANGED <<histVars, cert, status, output, stamped, age, notes, target, reenrolls>>

Crash ==
  /\ crashes < MaxCrash
  /\ crashes' = crashes + 1
  /\ Stop

\* A panic in the flush goroutine, which nothing recovers, ends the process.
FlushPanic(s) ==
  /\ fl[s] = "wait" /\ dpc[s] = "panic"
  /\ Stop
  /\ UNCHANGED crashes

\* upsertAssetFromTelemetry moves the asset to the certificate telemetry came with.
Reenroll(a, c) ==
  /\ reenrolls < MaxReenroll
  /\ \A b \in Device : cert[b] # c
  /\ cert' = [cert EXCEPT ![a] = c]
  /\ reenrolls' = reenrolls + 1
  /\ caught' = {s \in Session : rd[s] = "apply"}
  /\ UNCHANGED <<hubVars, rowVars, pc, target, flVars, working, cur, crashes, enq, got, tried>>

Next ==
  \/ \E c \in Cmd : \/ IssueStart(c) \/ QueueInsert(c) \/ ResolveAsset(c)
                    \/ Refuse(c) \/ IssueDispatch(c) \/ IssueResult(c) \/ IssueJournal(c)
  \/ \E s \in Session : \/ StartSession(s) \/ EndSession(s)
                        \/ FlushList(s) \/ FlushDispatch(s) \/ FlushResult(s) \/ FlushEnd(s)
                        \/ FlushPanic(s) \/ Deliver(s) \/ ReadResult(s) \/ ApplyResult(s) \/ ResultJournal(s)
  \/ \E d \in Dispatcher : Enqueue(d) \/ QueueFull(d)
  \/ HubStep
  \/ Crash
  \/ \E a \in Device, c \in Serial : Reenroll(a, c)

Spec == Init /\ [][Next]_vars

----------------------------------------------------------------------------
(* Properties                                                              *)

TypeOK ==
  /\ HubTypeOK
  /\ cert \in [Device -> Serial \cup {NoSerial}]
  /\ status \in [Cmd -> {"none", "pending", "sent", "completed", "failed"}]
  /\ output \in [Cmd -> {"", "result", "notConnected", "noCert"}]
  /\ stamped \in [Cmd -> BOOLEAN]
  /\ age \in [Cmd -> Nat]
  /\ notes \in [Cmd -> SUBSET Note] /\ unnoted \subseteq Result
  /\ pc \in [Cmd -> {"idle", "insert", "resolve", "refuse", "dispatch", "wait", "journal", "done"}]
  /\ target \in [Cmd -> Serial \cup {NoSerial}]
  /\ fl \in [Session -> {"off", "list", "next", "wait", "done"}]
  /\ flset \in [Session -> SUBSET Cmd]
  /\ flcur \in [Session -> Cmd \cup {NoCmd}]
  /\ working \in [Session -> SUBSET Msg]
  /\ cur \in [Session -> Result \cup {NoResult}]
  /\ crashes \in Nat /\ reenrolls \in Nat
  /\ enq \subseteq Cmd /\ got \subseteq Cmd /\ tried \subseteq Session \X Cmd /\ caught \subseteq Session

\* A row reads 'sent' only if a downlink for it was accepted by some session's queue.
SentWasEnqueued == \A c \in Cmd : status[c] = "sent" => c \in enq

\* A recorded success, in the row or in the incident's journal, means the agent really
\* got that command.
SuccessWasDelivered ==
  \A c \in Cmd :
    status[c] = "completed" \/ (\E n \in notes[c] : n.ok) => c \in got

\* What every state of the table satisfies: types, and no status that claims more than happened.
CommandsHonest == TypeOK /\ SentWasEnqueued /\ SuccessWasDelivered

\* The outcome of a command that belongs to an incident is in the incident's journal or about to
\* be put there by the goroutine that recorded it, whichever of the three recorded it: the
\* readPump of the agent's answer, the handler that found no session, or the one that refused.
\* Only a journal statement that failed (its error is dropped) and the end of the process
\* between the two statements leave an outcome out: nothing else does, and no later writer of
\* the row brings one in without its note.
Journalled(c, ok) ==
  \/ [ok |-> ok] \in notes[c]
  \/ \E s \in Session : rd[s] = "journal" /\ cur[s] = [cmd |-> c, ok |-> ok]
  \/ ~ok /\ pc[c] = "journal"
  \/ [cmd |-> c, ok |-> ok] \in unnoted

OutcomeIsJournalled ==
  \A c \in Linked : /\ status[c] = "completed" => Journalled(c, TRUE)
                    /\ status[c] = "failed" => Journalled(c, FALSE)

\* Once an asset has moved to another certificate, a session of the old one cannot report
\* on its commands, except for the report that was past its ownership check at that moment.
StaleCertificateCannotReport ==
  \A s \in Session :
    rd[s] = "apply" /\ cert[DeviceOf[cur[s].cmd]] # SerialOf(s) => s \in caught

\* "CompleteDeviceCommand records successful execution output": the refusal of a command whose
\* asset could not be resolved (FailDeviceCommandIfPending) never replaces a recorded success,
\* although a reconnect may have pushed and finished the command meanwhile.
RefusalKeepsOutcome ==
  [][\A c \in Cmd : status[c] = "completed" => status'[c] # "pending" /\ output'[c] # "noCert"]_vars

\* Nothing queued is forgotten: while an undelivered quarantine command waits in the table and
\* the newest session of its agent is served, the session's flush still has the row ahead of
\* it, or the session's queue was offered it, or its flush could not read the table.  This
\* takes an agent that keeps its certificate.
Waiting(c) == status[c] = "pending" /\ c \in Queued /\ pc[c] = "done"

NoLostPending ==
  \A c \in Cmd, s \in Session :
    reenrolls = 0 /\ Waiting(c) /\ cert[DeviceOf[c]] = SerialOf(s) /\ Newest(s) /\ Serving(s)
      => \/ fl[s] \in {"off", "list"}
         \/ c \in flset[s]
         \/ \E r \in Session : flcur[r] = c
         \/ <<s, c>> \in tried

----------------------------------------------------------------------------
(* Progress.  The goroutines a queued command depends on run: the gateway handler that   *)
(* starts the session, its flush, and a Dispatch that has found a session (its select     *)
(* ends by the time-out).  Nothing is assumed of operators, agents, pumps or the network. *)

FlushStep(s) ==
  \/ StartSession(s)
  \/ FlushList(s) \/ FlushDispatch(s) \/ FlushResult(s) \/ FlushEnd(s) \/ FlushPanic(s)

SelectStep(d) == Enqueue(d) \/ QueueFull(d) \/ (DispatchPanic(d) /\ UNCHANGED cmdVars)

Fairness ==
  /\ \A s \in Session : WF_vars(FlushStep(s))
  /\ \A d \in Session : WF_vars(SelectStep(d))

FairSpec == Spec /\ Fairness

\* A queued command leaves for the agent once the agent stays connected: it never happens that
\* from some point on a command waits, a session of its agent's certificate is registered and
\* served, and still no session's queue was ever offered the command.
Connected(c) ==
  \E s \in Session : /\ cert[DeviceOf[c]] = SerialOf(s) /\ bySerial[SerialOf(s)] = s
                     /\ Serving(s)

Offered(c) == \E s \in Session : <<s, c>> \in tried

QueuedReachesAgent ==
  \A c \in Queued : ~<>[](Waiting(c) /\ Connected(c) /\ ~Offered(c))
=============================================================================
