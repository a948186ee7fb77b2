---------------------------- MODULE FileDownload ----------------------------
(***************************************************************************)
(* GET /v1/assets/{id}/files/download: the agent streams a file in chunks     *)
(* over its WebSocket, the read pump hands them to a buffered channel and     *)
(* drops what does not fit (trySendFSDownload), and the HTTP handler copies    *)
(* the channel into the response until an EOF or error chunk, its timeout, or    *)
(* the client's end.                                                        *)
(***************************************************************************)
EXTENDS Naturals, Sequences

CONSTANTS
  MaxFile,   \* bound: chunks in the file
  ChanCap,   \* capacity of the waiter's channel
  Wire,      \* messages the socket buffers hold before a write blocks
  MaxDownFaults  \* bound: failures

ASSUME DownloadAssumption ==
  /\ MaxFile \in Nat /\ ChanCap \in Nat \ {0} /\ Wire \in Nat \ {0} /\ MaxDownFaults \in Nat

VARIABLES
  size,       \* chunks in the file
  copy,       \* handleDownload: "start", "copy", "done"
  end,        \* how it ended: "none", "refused", "eof", "error", "timeout", "client"
  listening,  \* Hub.fsDown holds the request
  ch,         \* the waiter's channel
  out,        \* chunks written to the response
  reader,     \* runFsDownload: "none", "asked", "reading", "done"
  next,       \* the chunk it reads next
  wire,       \* messages between agent and read pump
  linked,     \* the agent's connection is up
  downWrite,  \* its write side at the agent: "ok", "past" its deadline, "fatal" after a failed write
  downFaults  \* faults so far

downVars == <<size, copy, end, listening, ch, out, reader, next, wire, linked, downWrite, downFaults>>

DownInit ==
  /\ size \in 0 .. MaxFile
  /\ copy = "start" /\ end = "none" /\ listening = FALSE /\ ch = << >> /\ out = << >>
  /\ reader = "none" /\ next = 1 /\ wire = << >> /\ linked = TRUE /\ downWrite = "ok"
  /\ downFaults = 0

downFault == downFaults < MaxDownFaults /\ downFaults' = downFaults + 1

chunk(n) == [kind |-> "data", n |-> n]
eof == [kind |-> "eof", n |-> 0]
err == [kind |-> "error", n |-> 0]

\* RegisterFSDownloadWaiter, then fs_download; without a session it is a 503, and the session
\* of a connection that has just broken takes the message in vain.
StartDownload ==
  /\ copy = "start"
  /\ \/ /\ copy' = "copy" /\ listening' = TRUE /\ UNCHANGED end
        /\ reader' = IF linked THEN "asked" ELSE "done"
     \/ ~linked /\ copy' = "done" /\ end' = "refused" /\ UNCHANGED <<listening, reader>>
  /\ UNCHANGED <<size, ch, out, next, wire, linked, downWrite, downFaults>>

\* The select of the copy loop; the deferred unregister runs on every return.
leave(how) == copy' = "done" /\ end' = how /\ listening' = FALSE

Copy ==
  /\ copy = "copy" /\ ch # << >>
  /\ ch' = Tail(ch)
  /\ \/ Head(ch).kind = "data" /\ out' = Append(out, Head(ch).n) /\ UNCHANGED <<copy, end, listening>>
     \/ Head(ch).kind # "data" /\ leave(Head(ch).kind) /\ UNCHANGED out
  /\ UNCHANGED <<size, reader, next, wire, linked, downWrite, downFaults>>

\* fileProxyHTTPTimeout
DownTimeout ==
  /\ copy = "copy"
  /\ leave("timeout")
  /\ UNCHANGED <<size, ch, out, reader, next, wire, linked, downWrite, downFaults>>

\* Writing to the response fails: the client is gone.
ClientGone ==
  /\ copy = "copy" /\ downFault
  /\ leave("client")
  /\ UNCHANGED <<size, ch, out, reader, next, wire, linked, downWrite>>

\* The write blocks while the buffers are full, and fails on a broken connection, after the deadline
\* of the last telemetry message, and for ever once it has failed.
Writable == linked /\ downWrite = "ok"
emit(m) ==
  \/ Writable /\ Len(wire) < Wire /\ wire' = Append(wire, m) /\ UNCHANGED downWrite
  \/ ~Writable /\ downWrite' = "fatal" /\ UNCHANGED wire

OpenFile ==
  /\ reader = "asked"
  /\ \/ reader' = "reading" /\ UNCHANGED <<wire, downWrite, downFaults>>
     \/ downFault /\ emit(err) /\ reader' = "done"
  /\ UNCHANGED <<size, copy, end, listening, ch, out, next, linked>>

\* A chunk that cannot be written ends the goroutine without a word.
Read ==
  /\ reader = "reading"
  /\ \/ /\ next <= size /\ emit(chunk(next)) /\ next' = next + 1
        /\ reader' = (IF Writable THEN "reading" ELSE "done") /\ UNCHANGED downFaults
     \/ next > size /\ emit(eof) /\ reader' = "done" /\ UNCHANGED <<next, downFaults>>
     \/ downFault /\ emit(err) /\ reader' = "done" /\ UNCHANGED next
  /\ UNCHANGED <<size, copy, end, listening, ch, out, linked>>

\* deliverFSDownload, trySendFSDownload: without a waiter, or with a full channel, the chunk is
\* dropped.
DeliverChunk ==
  /\ wire # << >>
  /\ wire' = Tail(wire)
  /\ ch' = IF listening /\ Len(ch) < ChanCap THEN Append(ch, Head(wire)) ELSE ch
  /\ UNCHANGED <<size, copy, end, listening, out, reader, next, linked, downWrite, downFaults>>

\* The fifteen seconds of a telemetry message are over; the next one sets a new deadline.
DownDeadline ==
  /\ linked /\ downWrite # "fatal"
  /\ downWrite' = IF downWrite = "ok" THEN "past" ELSE "ok"
  /\ UNCHANGED <<size, copy, end, listening, ch, out, reader, next, wire, linked, downFaults>>

\* The agent's connection breaks; what is on the wire is lost.
LinkBreaks ==
  /\ linked /\ downFault
  /\ linked' = FALSE /\ wire' = << >>
  /\ UNCHANGED <<size, copy, end, listening, ch, out, reader, next, downWrite>>

DownNext ==
  \/ StartDownload \/ Copy \/ DownTimeout \/ ClientGone \/ OpenFile \/ Read \/ DeliverChunk
  \/ DownDeadline \/ LinkBreaks

\* What the handler's, the read pump's and the agent's goroutines do of their own.
DownRuns == StartDownload \/ Copy \/ OpenFile \/ Read \/ DeliverChunk

-----------------------------------------------------------------------------

Message == [kind : {"data", "eof", "error"}, n : 0 .. MaxFile]

DownTypeOK ==
  /\ size \in 0 .. MaxFile /\ next \in 1 .. MaxFile + 1 /\ out \in Seq(1 .. MaxFile)
  /\ copy \in {"start", "copy", "done"} /\ reader \in {"none", "asked", "reading", "done"}
  /\ end \in {"none", "refused", "eof", "error", "timeout", "client"}
  /\ ch \in Seq(Message) /\ Len(ch) <= ChanCap /\ wire \in Seq(Message) /\ Len(wire) <= Wire
  /\ listening \in BOOLEAN /\ linked \in BOOLEAN
  /\ downWrite \in {"ok", "past", "fatal"} /\ downFaults \in 0 .. MaxDownFaults

whole == [i \in 1 .. size |-> i]

\* "C2FileChunk is one chunk of a file streamed from an agent over the C2 WebSocket": while no
\* more chunks can be under way than the channel holds, none is lost,
\* whatever else fails; what the response holds is always the file so far.
SmallFileIsExact ==
  size < ChanCap => /\ out = SubSeq(whole, 1, Len(out))
                    /\ end = "eof" => out = whole

\* Chunks reach the response in the order of the file, also when some were dropped.
ResponseInOrder == \A i, j \in DOMAIN out : i < j => out[i] < out[j]

\* Without faults and without a chunk that failed for a deadline long past, a file that fits the
\* channel is delivered to its end unless the time is up.
DownloadEnds ==
  <>[](copy # "start" /\ end \notin {"refused", "timeout"} /\ downFaults = 0 /\ downWrite # "fatal" /\ size < ChanCap)
    => <>[](end = "eof")
=============================================================================
