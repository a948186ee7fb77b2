----------------------------- MODULE FileUpload -----------------------------
(***************************************************************************)
(* POST /v1/assets/{id}/files/upload: the HTTP handler cuts the body into      *)
(* chunks and dispatches begin, chunk, finish and abort to whatever session    *)
(* the hub holds for the serial at that moment; the agent writes the file and   *)
(* acknowledges once.  Connections come and go, the agent's upload table        *)
(* (globalFsUpload) outlives them, and the result waiter holds one answer.       *)
(***************************************************************************)
EXTENDS Naturals, Sequences

CONSTANTS
  MaxBody,   \* bound: chunks in the request body
  Limit,     \* maxUploadBytesPerCall, in chunks
  Depth,     \* outboundQueueDepth
  MaxConn,   \* bound: connections of the agent
  MaxFaults  \* bound: disconnects, restarts, failures

ASSUME UploadAssumption ==
  /\ MaxBody \in Nat /\ Limit \in Nat /\ MaxConn \in Nat \ {0}
  /\ Depth \in Nat \ {0} /\ MaxFaults \in Nat

VARIABLES
  body,    \* chunks the client sends
  pc,      \* handleUpload: "start", "body", "wait", "done"
  sent,    \* chunks dispatched
  resp,    \* status written: 0 none, 200, 400, 404, 408, 413, 502, 503
  waiter,  \* the registered result channel: "none", "empty", "ok", "error"
  hub,     \* connection the hub has for the serial, 0 none
  agent,   \* connection the agent serves, 0 none
  last,    \* connections made so far
  send,    \* messages queued for the session the hub has
  up,      \* results on their way to the server
  open,    \* globalFsUpload.files holds this request
  file,    \* contents of the target file
  upWrite, \* the connection's write side at the agent: "ok", "past" its deadline, "fatal" after a failed write
  late,    \* a timer of the server has fired
  faults   \* faults so far

reqVars == <<body, pc, sent, resp, waiter>>
connVars == <<hub, agent, last>>
upVars == <<reqVars, connVars, send, up, upWrite, open, file, late, faults>>

UpInit ==
  /\ body \in 0 .. MaxBody /\ pc = "start" /\ sent = 0 /\ resp = 0 /\ waiter = "none"
  /\ hub = 1 /\ agent = 1 /\ last = 1 /\ send = << >> /\ up = << >>
  /\ open = FALSE /\ file = << >> /\ upWrite = "ok" /\ late = FALSE /\ faults = 0

fault == faults < MaxFaults /\ faults' = faults + 1 /\ UNCHANGED late
noFault == UNCHANGED <<late, faults>>
timer == late' = TRUE /\ UNCHANGED faults

msg(action, n) == [action |-> action, n |-> n]

answer(code) == pc' = "done" /\ resp' = code /\ waiter' = "none"

-----------------------------------------------------------------------------
(* handleUpload                                                             *)

\* DispatchJSON returns true once the message is in the session's channel.
Dispatched(m) == hub # 0 /\ Len(send) < Depth /\ send' = Append(send, m) /\ noFault

\* It returns false without a session, or when the channel stays full for dispatchSendWait.
Undispatched ==
  /\ UNCHANGED send
  /\ \/ hub = 0 /\ noFault
     \/ hub # 0 /\ Len(send) = Depth /\ timer

\* Mutant: the waiter is registered only when the result is waited for.
BeginUnregistered ==
  /\ pc = "start"
  /\ \/ Dispatched(msg("begin", 0)) /\ pc' = "body" /\ UNCHANGED <<resp, waiter>>
     \/ Undispatched /\ answer(503)
  /\ UNCHANGED <<body, sent, connVars, up, upWrite, open, file>>

\* RegisterFSUploadResultWaiter, then fs_upload_begin.
Begin ==
  /\ pc = "start"
  /\ \/ Dispatched(msg("begin", 0)) /\ pc' = "body" /\ waiter' = "empty" /\ UNCHANGED resp
     \/ Undispatched /\ answer(503)
  /\ UNCHANGED <<body, sent, connVars, up, upWrite, open, file>>

\* resolveAsset finds no certificate serial, or fails.
NoAsset ==
  /\ pc = "start" /\ fault
  /\ answer(404)
  /\ UNCHANGED <<body, sent, connVars, send, up, upWrite, open, file>>

\* Mutant: the chunk dispatched last is sent again first.
ChunkResent ==
  /\ pc = "body" /\ sent < body
  /\ \/ /\ Dispatched(msg("chunk", IF sent = 2 THEN 1 ELSE sent + 1)) /\ sent' = sent + 1
        /\ UNCHANGED <<pc, resp, waiter>>
     \/ Undispatched /\ answer(503) /\ UNCHANGED sent
  /\ UNCHANGED <<body, connVars, up, upWrite, open, file>>

\* One read of the body: an oversized upload is aborted, a chunk that cannot be queued ends the
\* request without an abort.
Chunk ==
  /\ pc = "body" /\ sent < body
  /\ \/ /\ sent >= Limit
        /\ Dispatched(msg("abort", 0)) \/ Undispatched
        /\ answer(413) /\ UNCHANGED sent
     \/ sent < Limit /\ Dispatched(msg("chunk", sent + 1)) /\ sent' = sent + 1 /\ UNCHANGED <<pc, resp, waiter>>
     \/ sent < Limit /\ Undispatched /\ answer(503) /\ UNCHANGED sent
  /\ UNCHANGED <<body, connVars, up, upWrite, open, file>>

\* The client's connection breaks while the body is read.
BodyFails ==
  /\ pc = "body" /\ fault
  /\ IF hub # 0 /\ Len(send) < Depth THEN send' = Append(send, msg("abort", 0)) ELSE UNCHANGED send
  /\ answer(400)
  /\ UNCHANGED <<body, sent, connVars, up, upWrite, open, file>>

Finish ==
  /\ pc = "body" /\ sent = body
  /\ \/ Dispatched(msg("finish", 0)) /\ pc' = "wait" /\ UNCHANGED <<resp, waiter>>
     \/ Undispatched /\ answer(503)
  /\ UNCHANGED <<body, sent, connVars, up, upWrite, open, file>>

Result ==
  /\ pc = "wait" /\ waiter \in {"ok", "error"}
  /\ answer(IF waiter = "ok" THEN 200 ELSE 502)
  /\ UNCHANGED <<body, sent, connVars, send, up, upWrite, open, file, late, faults>>

\* fileProxyHTTPTimeout
UpTimeout ==
  /\ pc = "wait" /\ timer
  /\ answer(408)
  /\ UNCHANGED <<body, sent, connVars, send, up, upWrite, open, file>>

\* deliverFSUploadResult: no waiter, or one that is full, drops the result.
Deliver ==
  /\ up # << >>
  /\ up' = Tail(up)
  /\ waiter' = IF waiter = "empty" THEN Head(up) ELSE waiter
  /\ UNCHANGED <<body, pc, sent, resp, connVars, send, upWrite, open, file, late, faults>>

-----------------------------------------------------------------------------
(* The agent                                                                *)

\* writeJSON sets no deadline: when the one of the last telemetry message is over the write
\* fails, and with it every later one on this connection.
reply(r) ==
  \/ upWrite = "ok" /\ up' = Append(up, r) /\ UNCHANGED upWrite
  \/ upWrite # "ok" /\ upWrite' = "fatal" /\ UNCHANGED up
quiet == UNCHANGED <<up, upWrite>>

\* What begin, chunk, finish and abort do; the disk may fail each.  The request id is fresh, so
\* begin never meets a session of its own.
AgentBegin ==
  \/ ~open /\ open' = TRUE /\ file' = << >> /\ quiet /\ noFault
  \/ ~open /\ fault /\ reply("error") /\ UNCHANGED <<open, file>>

AgentChunk(c) ==
  \/ open /\ file' = Append(file, c) /\ quiet /\ noFault /\ UNCHANGED open
  \/ open /\ fault /\ open' = FALSE /\ reply("error") /\ UNCHANGED file
  \/ ~open /\ reply("error") /\ noFault /\ UNCHANGED <<open, file>>

AgentFinish ==
  /\ open' = FALSE /\ UNCHANGED file
  /\ \/ open /\ reply("ok") /\ noFault
     \/ open /\ fault /\ reply("error")
     \/ ~open /\ reply("error") /\ noFault

AgentAbort == open' = FALSE /\ quiet /\ noFault /\ UNCHANGED file

\* writePump, the network and the agent's command loop carry one message.
Handle ==
  /\ agent # 0 /\ agent = hub /\ send # << >>
  /\ send' = Tail(send)
  /\ CASE Head(send).action = "begin"  -> AgentBegin
       [] Head(send).action = "finish" -> AgentFinish
       [] Head(send).action = "abort"  -> AgentAbort
       [] OTHER                 -> AgentChunk(Head(send).n)
  /\ UNCHANGED <<reqVars, connVars>>

-----------------------------------------------------------------------------
(* Connections                                                              *)

\* The fifteen seconds of a telemetry message are over; the next one sets a new deadline.
UpDeadline ==
  /\ agent # 0 /\ upWrite # "fatal"
  /\ upWrite' = IF upWrite = "ok" THEN "past" ELSE "ok"
  /\ UNCHANGED <<reqVars, connVars, send, up, open, file, late, faults>>

\* The agent loses its connection, or closes it because its next telemetry message meets a dead
\* write side; what was on the wire is gone, the hub may not know yet.
Disconnect ==
  /\ agent # 0 /\ fault
  /\ agent' = 0 /\ up' = << >>
  /\ UNCHANGED <<reqVars, hub, last, send, upWrite, open, file>>

\* The agent process restarts: the upload table is gone.
AgentRestart ==
  /\ fault
  /\ agent' = 0 /\ up' = << >> /\ open' = FALSE
  /\ UNCHANGED <<reqVars, hub, last, send, upWrite, file>>

Unregister ==
  /\ hub # 0 /\ hub # agent
  /\ hub' = 0 /\ send' = << >>
  /\ UNCHANGED <<reqVars, agent, last, up, upWrite, open, file, late, faults>>

Connect ==
  /\ agent = 0 /\ last < MaxConn
  /\ last' = last + 1 /\ agent' = last' /\ hub' = last' /\ send' = << >> /\ upWrite' = "ok"
  /\ UNCHANGED <<reqVars, up, open, file, late, faults>>

UpNext ==
  \/ Begin \/ NoAsset \/ Chunk \/ BodyFails \/ Finish \/ Result \/ UpTimeout \/ Deliver
  \/ Handle \/ UpDeadline \/ Disconnect \/ AgentRestart \/ Unregister \/ Connect

\* What the handler's, the session's and the agent's goroutines do of their own.
UpRuns == Begin \/ Chunk \/ Finish \/ Result \/ Deliver \/ Handle

-----------------------------------------------------------------------------

UpTypeOK ==
  /\ body \in 0 .. MaxBody /\ sent \in 0 .. body
  /\ pc \in {"start", "body", "wait", "done"}
  /\ resp \in {0, 200, 400, 404, 408, 413, 502, 503}
  /\ waiter \in {"none", "empty", "ok", "error"}
  /\ last \in 1 .. MaxConn /\ hub \in 0 .. last /\ agent \in 0 .. last
  /\ send \in Seq([action : {"begin", "chunk", "finish", "abort"}, n : 0 .. MaxBody]) /\ Len(send) <= Depth
  /\ up \in Seq({"ok", "error"}) /\ upWrite \in {"ok", "past", "fatal"} /\ open \in BOOLEAN /\ late \in BOOLEAN
  /\ file \in Seq(1 .. MaxBody) /\ faults \in 0 .. MaxFaults

\* While the agent keeps one connection, 200 is answered only for a file that holds the whole
\* body in order, whatever failed on the way ("C2FileUploadResult is the agent acknowledgement
\* for a streamed upload").
AcknowledgedIsComplete == last = 1 /\ resp = 200 => file = [i \in 1 .. body |-> i]

\* What the agent has written is always a part of the body in its order, also after a
\* reconnect dropped chunks.
WrittenInOrder ==
  /\ \A i, j \in DOMAIN file : i < j => file[i] < file[j]
  /\ \A i \in DOMAIN file : file[i] <= sent

\* An upload the agent answered is never left open in globalFsUpload.
AnsweredIsClosed == resp \in {200, 502} => ~open

\* Without faults, timeouts and an answer that failed for a deadline long past, every upload
\* within the limit ends in 200 and every other in 413: nobody waits for a result that was dropped.
UploadAnswered ==
  <>[](pc # "start" /\ resp # 404 /\ faults = 0 /\ ~late /\ upWrite # "fatal")
    => <>[](resp = IF body <= Limit THEN 200 ELSE 413)
=============================================================================
