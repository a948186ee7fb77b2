------------------------------- MODULE C2Hub -------------------------------
(***************************************************************************)
(* The agent side of GET /v1/ws: the hub that maps a client-certificate     *)
(* serial to the WebSocket session now serving it (internal/ws/hub.go) and   *)
(* the two goroutines of every session, readPump and writePump              *)
(* (internal/ws/handler.go).                                               *)
(*                                                                         *)
(* A session is <<serial, n>>: the n-th connection registered for that      *)
(* serial.  hub.mu makes each access of bySerial one step; what happens      *)
(* between two of them (closing the replaced connection, the channel send    *)
(* of a dispatch) is a step of its own.                                     *)
(***************************************************************************)
EXTENDS Naturals, Sequences, FiniteSets

CONSTANTS
  Serial,      \* certificate serials (assets.cert_serial)
  MaxConn,     \* bound: connections registered per serial
  QueueDepth,  \* outboundQueueDepth, capacity of agentSession.send
  Dispatcher,  \* goroutines that call DispatchJSON
  Msg,         \* downlink payloads
  NoSession,   \* nil *agentSession
  NoMsg        \* no payload

Session == Serial \X (1 .. MaxConn)

ASSUME HubAssumption ==
  /\ MaxConn \in Nat \ {0}
  /\ QueueDepth \in Nat \ {0}
  /\ NoSession \notin Session
  /\ NoMsg \notin Msg

VARIABLES
  bySerial,  \* Hub.bySerial
  conn,      \* server end of the socket: "unused", "open", "closed"
  link,      \* the peer is still there and the network carries data
  rd,        \* program counter of the handler goroutine / readPump
  prev,      \* register's local prev, the session it replaced
  wr,        \* writePump: "unused", "running", "done"
  send,      \* agentSession.send, the buffered channel
  chClosed,  \* close(s.send) has run
  dpc,       \* per dispatcher: "idle", "sending", "true", "false", "panic"
  dsess,     \* dispatchRaw's local s
  dmsg       \* the payload being dispatched

connVars == <<bySerial, conn, link, rd, prev, wr, chClosed>>
dispVars == <<dpc, dsess, dmsg>>
hubVars  == <<bySerial, conn, link, rd, prev, wr, send, chClosed,
              dpc, dsess, dmsg>>

SerialOf(s) == s[1]

----------------------------------------------------------------------------
(* Connections                                                             *)

HubInit ==
  /\ bySerial = [c \in Serial |-> NoSession]
  /\ conn = [s \in Session |-> "unused"]
  /\ link = [s \in Session |-> FALSE]
  /\ rd = [s \in Session |-> "unused"]
  /\ prev = [s \in Session |-> NoSession]
  /\ wr = [s \in Session |-> "unused"]
  /\ send = [s \in Session |-> <<>>]
  /\ chClosed = [s \in Session |-> FALSE]
  /\ dpc = [d \in Dispatcher |-> "idle"]
  /\ dsess = [d \in Dispatcher |-> NoSession]
  /\ dmsg = [d \in Dispatcher |-> NoMsg]

\* Hub.register up to h.mu.Unlock: the new session replaces whatever the map held.
Register(s) ==
  /\ rd[s] = "unused"
  /\ \A k \in 1 .. MaxConn : k < s[2] => rd[<<SerialOf(s), k>>] # "unused"
  /\ prev' = [prev EXCEPT ![s] = bySerial[SerialOf(s)]]
  /\ bySerial' = [bySerial EXCEPT ![SerialOf(s)] = s]
  /\ conn' = [conn EXCEPT ![s] = "open"]
  /\ link' = [link EXCEPT ![s] = TRUE]
  /\ rd' = [rd EXCEPT ![s] = "closePrev"]
  /\ UNCHANGED <<wr, send, chClosed, dispVars>>

\* prev.conn.Close(), then the gateway starts writePump and enters readPump.
StartPumps(s) ==
  /\ rd[s] = "closePrev"
  /\ conn' = IF prev[s] = NoSession THEN conn
             ELSE [conn EXCEPT ![prev[s]] = "closed"]
  /\ prev' = [prev EXCEPT ![s] = NoSession]
  /\ rd' = [rd EXCEPT ![s] = "reading"]
  /\ wr' = [wr EXCEPT ![s] = "running"]
  /\ UNCHANGED <<bySerial, link, send, chClosed, dispVars>>

\* The agent goes away or the network stops carrying data.
LinkDown(s) ==
  /\ link[s]
  /\ link' = [link EXCEPT ![s] = FALSE]
  /\ UNCHANGED <<bySerial, conn, rd, prev, wr, send, chClosed, dispVars>>

\* Mutant of ReadEnd: no read deadline, only a local close ends the loop.
ReadEndNoDeadline(s) ==
  /\ rd[s] = "reading" /\ conn[s] = "closed"
  /\ rd' = [rd EXCEPT ![s] = "unregister"]
  /\ UNCHANGED <<bySerial, conn, link, prev, wr, send, chClosed, dispVars>>

\* ReadMessage fails: socket closed, peer gone, or the read deadline passed.
\* The deferred function of readPump closes the connection first.
ReadEnd(s) ==
  /\ rd[s] = "reading"
  /\ rd' = [rd EXCEPT ![s] = "unregister"]
  /\ conn' = [conn EXCEPT ![s] = "closed"]
  /\ UNCHANGED <<bySerial, link, prev, wr, send, chClosed, dispVars>>

\* Mutants of Unregister: the cur == s test or the delete is lost.
UnregisterAny(s) ==
  /\ rd[s] = "unregister"
  /\ bySerial' = [bySerial EXCEPT ![SerialOf(s)] = NoSession]
  /\ chClosed' = [chClosed EXCEPT ![s] = TRUE]
  /\ rd' = [rd EXCEPT ![s] = "done"]
  /\ UNCHANGED <<conn, link, prev, wr, send, dispVars>>

UnregisterKeeps(s) ==
  /\ rd[s] = "unregister"
  /\ chClosed' = [chClosed EXCEPT ![s] = TRUE]
  /\ rd' = [rd EXCEPT ![s] = "done"]
  /\ UNCHANGED <<bySerial, conn, link, prev, wr, send, dispVars>>

\* Hub.unregister: the session's own entry (and only that) is deleted under h.mu, then
\* close(s.send).  Between the two only a dispatch that already holds s can tell, and for
\* it a send there is a send before the delete: one step.
Unregister(s) ==
  /\ rd[s] = "unregister"
  /\ bySerial' = IF bySerial[SerialOf(s)] = s
                 THEN [bySerial EXCEPT ![SerialOf(s)] = NoSession]
                 ELSE bySerial
  /\ chClosed' = [chClosed EXCEPT ![s] = TRUE]
  /\ rd' = [rd EXCEPT ![s] = "done"]
  /\ UNCHANGED <<conn, link, prev, wr, send, dispVars>>

----------------------------------------------------------------------------
(* writePump.  A payload written while the link is up counts as read by the  *)
(* agent: one lost in flight is indistinguishable, for either end, from one  *)
(* written after the link went down.  The end of the loop over a closed,     *)
(* drained channel changes nothing else and has no step.                     *)

\* Mutant of WriteOk: the payload is read from the channel but not consumed.
WriteOkPeek(s) ==
  /\ wr[s] = "running" /\ send[s] # <<>> /\ conn[s] = "open"
  /\ UNCHANGED <<connVars, dispVars, send>>

\* WriteMessage succeeds; the bytes go nowhere when the peer is gone.
WriteOk(s) ==
  /\ wr[s] = "running" /\ send[s] # <<>> /\ conn[s] = "open"
  /\ send' = [send EXCEPT ![s] = Tail(@)]
  /\ UNCHANGED <<connVars, dispVars>>

\* WriteMessage fails: the pump closes the connection and returns, the channel keeps its rest.
WriteError(s) ==
  /\ wr[s] = "running" /\ send[s] # <<>>
  /\ conn[s] = "closed" \/ ~link[s]
  /\ send' = [send EXCEPT ![s] = Tail(@)]
  /\ conn' = [conn EXCEPT ![s] = "closed"]
  /\ wr' = [wr EXCEPT ![s] = "done"]
  /\ UNCHANGED <<bySerial, link, rd, prev, chClosed, dispVars>>

----------------------------------------------------------------------------
(* dispatchRaw                                                             *)

\* s := h.bySerial[certSerial] under the read lock; nil returns false at once.
DispatchLookup(d, c, m) ==
  /\ dpc[d] = "idle"
  /\ \/ /\ bySerial[c] = NoSession
        /\ dpc' = [dpc EXCEPT ![d] = "false"]
        /\ UNCHANGED <<dsess, dmsg>>
     \/ /\ bySerial[c] # NoSession
        /\ dpc' = [dpc EXCEPT ![d] = "sending"]
        /\ dsess' = [dsess EXCEPT ![d] = bySerial[c]]
        /\ dmsg' = [dmsg EXCEPT ![d] = m]
  /\ UNCHANGED <<connVars, send>>

\* The select in dispatchRaw.  finish drops the locals, r is what the caller sees.
finish(d, r) ==
  /\ dpc' = [dpc EXCEPT ![d] = r]
  /\ dsess' = [dsess EXCEPT ![d] = NoSession]
  /\ dmsg' = [dmsg EXCEPT ![d] = NoMsg]
  /\ UNCHANGED connVars

DispatchEnqueue(d) ==
  /\ dpc[d] = "sending" /\ ~chClosed[dsess[d]] /\ Len(send[dsess[d]]) < QueueDepth
  /\ send' = [send EXCEPT ![dsess[d]] = Append(@, dmsg[d])]
  /\ finish(d, "true")

\* The dispatchSendWait timer fires while the channel stays full.
DispatchTimeout(d) ==
  /\ dpc[d] = "sending" /\ ~chClosed[dsess[d]] /\ Len(send[dsess[d]]) = QueueDepth
  /\ finish(d, "false")
  /\ UNCHANGED send

\* A send on a channel that close() has reached panics.
DispatchPanic(d) ==
  /\ dpc[d] = "sending" /\ chClosed[dsess[d]]
  /\ finish(d, "panic")
  /\ UNCHANGED send

\* The caller takes the result.
DispatchReturn(d) ==
  /\ dpc[d] \in {"true", "false", "panic"}
  /\ dpc' = [dpc EXCEPT ![d] = "idle"]
  /\ UNCHANGED <<connVars, send, dsess, dmsg>>

----------------------------------------------------------------------------

SessionStep(s) ==
  \/ Register(s) \/ StartPumps(s) \/ ReadEnd(s) \/ Unregister(s)
  \/ WriteOk(s) \/ WriteError(s)

DispatchSelect(d) == DispatchEnqueue(d) \/ DispatchTimeout(d) \/ DispatchPanic(d)

HubNext ==
  \/ \E s \in Session : SessionStep(s) \/ LinkDown(s)
  \/ \E d \in Dispatcher, c \in Serial, m \in Msg : DispatchLookup(d, c, m)
  \/ \E d \in Dispatcher : DispatchSelect(d) \/ DispatchReturn(d)

HubSpec == HubInit /\ [][HubNext]_hubVars

\* The goroutines the Go scheduler runs; a read that cannot return data ends, at the
\* latest, when wsReadDeadline has passed.
HubFairness ==
  /\ \A s \in Session :
       /\ WF_hubVars(StartPumps(s))
       /\ WF_hubVars(~link[s] /\ ReadEnd(s))
       /\ WF_hubVars(Unregister(s))
       /\ WF_hubVars(WriteOk(s) \/ WriteError(s))
  /\ \A d \in Dispatcher : WF_hubVars(DispatchSelect(d)) /\ WF_hubVars(DispatchReturn(d))

----------------------------------------------------------------------------
(* Properties                                                              *)

HubTypeOK ==
  /\ bySerial \in [Serial -> Session \cup {NoSession}]
  /\ conn \in [Session -> {"unused", "open", "closed"}]
  /\ link \in [Session -> BOOLEAN]
  /\ rd \in [Session -> {"unused", "closePrev", "reading", "apply", "journal", "unregister", "done"}]
  /\ prev \in [Session -> Session \cup {NoSession}]
  /\ wr \in [Session -> {"unused", "running", "done"}]
  /\ send \in [Session -> Seq(Msg)]
  /\ chClosed \in [Session -> BOOLEAN]
  /\ dpc \in [Dispatcher -> {"idle", "sending", "true", "false", "panic"}]
  /\ dsess \in [Dispatcher -> Session \cup {NoSession}]
  /\ dmsg \in [Dispatcher -> Msg \cup {NoMsg}]

Newest(s) == rd[s] # "unused" /\ \A k \in 1 .. MaxConn : k > s[2] => rd[<<SerialOf(s), k>>] = "unused"
Serving(s) == rd[s] \in {"closePrev", "reading", "apply", "journal"}

\* The teardown of a replaced connection never takes its successor out of the hub: the
\* newest session of a serial is the one dispatches reach, until its own readPump ends.
NewestSessionReachable ==
  \A s \in Session : Newest(s) /\ Serving(s) => bySerial[SerialOf(s)] = s

\* What the hub maps a serial to belongs to that serial, and is never a session whose
\* unregister has run, so a dispatch that finds a session can still be refused only by
\* a teardown that overtakes it.
RegisteredSessionIsOurs ==
  \A c \in Serial : bySerial[c] # NoSession =>
    /\ SerialOf(bySerial[c]) = c
    /\ rd[bySerial[c]] \notin {"unused", "done"}

\* What every state of the hub and its sessions satisfies: types, and a map of live sessions.
RegistryInv == HubTypeOK /\ RegisteredSessionIsOurs

\* DispatchJSON answers true or false.
DispatchAnswers == \A d \in Dispatcher : dpc[d] # "panic"

\* A session whose peer is gone does not stay registered: the read deadline ends its
\* readPump, which unregisters it.
DeadSessionLeaves ==
  \A s \in Session : ~link[s] /\ rd[s] # "unused" ~> bySerial[SerialOf(s)] # s

=============================================================================
