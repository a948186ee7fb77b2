----------------------------- MODULE Dashboard ------------------------------
(***************************************************************************)
(* The dashboards: a hub that fans messages out under a read lock, and per     *)
(* browser a session goroutine (register, snapshot, command loop, unregister)  *)
(* and a write pump.  A message is a set of pairs of device and version; the    *)
(* incident list and the answers to commands carry none.  Reports of one       *)
(* device may be handled at the same time (POST /v1/telemetry, the read pump    *)
(* of a session that was replaced), and a broadcast carries its own report.     *)
(***************************************************************************)
EXTENDS Naturals, Sequences

CONSTANTS
  Source,      \* devices whose accepted telemetry is broadcast
  Browser,     \* dashboard connections
  DashQueue,   \* dashOutboundQueueDepth
  MaxVer       \* bound: reports of a device

ASSUME DashAssumption == DashQueue \in Nat /\ MaxVer \in Nat

\* A report is known by its device and the version its commit gives the row.
Report == Source \X (1 .. MaxVer)

VARIABLES
  ver,    \* per device: the version of its row
  cast,   \* per report: "idle", "kept" (committed) or "cast", and the clients left to serve
  dash,   \* DashboardHub.clients
  tab     \* the sessions

dashVars == <<ver, cast, dash, tab>>

\* missed is a history: the devices whose row at the browser will be an older one when its queue
\* is empty, because the newest version met a full queue, or a snapshot read before it or the
\* broadcast of an older report was queued behind it.
NoTab == [pc |-> "off", q |-> <<>>, closed |-> FALSE, pump |-> "off", conn |-> "none",
          snap |-> [s \in Source |-> 0], view |-> [s \in Source |-> 0], missed |-> {}]

DashInit ==
  /\ ver = [s \in Source |-> 0] /\ cast = [r \in Report |-> [pc |-> "idle", left |-> {}]]
  /\ dash = {} /\ tab = [b \in Browser |-> NoTab]

\* h.mu: a broadcast holds it shared from its first client to its last.
Unlocked == \A r \in Report : cast[r].pc # "cast"

enqueue(b, m) == IF Len(tab[b].q) < DashQueue THEN [tab EXCEPT ![b].q = Append(@, m)] ELSE tab
Other == {}
Snapshot(b) == {<<s, tab[b].snap[s]>> : s \in Source}

-----------------------------------------------------------------------------
(* Broadcast                                                                *)

\* Mutant: the reports of one device share one slot, and a report that finds it taken is not
\* broadcast.
AcceptReportShared(s) ==
  /\ ver[s] < MaxVer
  /\ ver' = [ver EXCEPT ![s] = @ + 1]
  /\ cast' = [cast EXCEPT ![<<s, ver[s] + 1>>].pc =
                IF \E r \in Report : r[1] = s /\ cast[r].pc # "idle" THEN "idle" ELSE "kept"]
  /\ UNCHANGED <<dash, tab>>

\* tryHandleAgentTelemetry: the row is committed before onTelemetryAccepted is called.
AcceptReport(s) ==
  /\ ver[s] < MaxVer
  /\ ver' = [ver EXCEPT ![s] = @ + 1] /\ cast' = [cast EXCEPT ![<<s, ver[s] + 1>>].pc = "kept"]
  /\ UNCHANGED <<dash, tab>>

BeginBroadcast(r) ==
  /\ cast[r].pc = "kept"
  /\ cast' = [cast EXCEPT ![r] = [pc |-> "cast", left |-> dash]]
  /\ UNCHANGED <<ver, dash, tab>>

\* What the browser will show of the report's device is not its newest row.
Behind(r, b) ==
  LET s == r[1]
      newest == r[2] = ver[s]
  IN  IF tab[b].pc = "send" THEN tab[b].snap[s] # ver[s]
      ELSE IF Len(tab[b].q) >= DashQueue THEN newest \/ s \in tab[b].missed
      ELSE ~newest

\* "Slow clients may drop messages": the send does not wait for a full queue.
BroadcastTo(r, b) ==
  /\ b \in cast[r].left
  /\ cast' = [cast EXCEPT ![r].left = @ \ {b}]
  /\ tab' = [enqueue(b, {r}) EXCEPT ![b].missed = IF Behind(r, b) THEN @ \cup {r[1]} ELSE @ \ {r[1]}]
  /\ UNCHANGED <<ver, dash>>

EndBroadcast(r) ==
  /\ cast[r].pc = "cast" /\ cast[r].left = {}
  /\ cast' = [cast EXCEPT ![r].pc = "idle"] /\ UNCHANGED <<ver, dash, tab>>

\* notifyIncidents, tryBroadcastAgentUplink: a message that says nothing of a device's row,
\* here as one step that fills a place of every queue.
BroadcastOther ==
  /\ Unlocked /\ \E b \in dash : Len(tab[b].q) < DashQueue
  /\ tab' = [b \in Browser |-> IF b \in dash THEN enqueue(b, Other)[b] ELSE tab[b]]
  /\ UNCHANGED <<ver, cast, dash>>

-----------------------------------------------------------------------------
(* RunDashboardSession                                                      *)

\* The upgrade; register, and the write pump is started.
OpenDashboard(b) ==
  /\ tab[b].pc = "off" /\ Unlocked
  /\ dash' = dash \cup {b}
  /\ tab' = [tab EXCEPT ![b].pc = "snap", ![b].pump = "run", ![b].conn = "up"]
  /\ UNCHANGED <<ver, cast>>

\* LoadAssetSnapshot; a failing query is answered and ends the session.
ReadSnapshot(b) ==
  /\ tab[b].pc = "snap"
  /\ \/ tab' = [tab EXCEPT ![b].pc = "send", ![b].snap = ver, ![b].missed = {}]
     \/ tab' = [enqueue(b, Other) EXCEPT ![b].pc = "drop"]
  /\ UNCHANGED <<ver, cast, dash>>

\* Mutant: the snapshot waits for room without a limit.
SendSnapshotBlocks(b) ==
  /\ tab[b].pc = "send" /\ Len(tab[b].q) < DashQueue
  /\ tab' = [enqueue(b, Snapshot(b)) EXCEPT ![b].pc = "list"]
  /\ UNCHANGED <<ver, cast, dash>>

\* The send waits five seconds for a full queue, then the session ends.
SendSnapshot(b) ==
  /\ tab[b].pc = "send"
  /\ IF Len(tab[b].q) < DashQueue
     THEN tab' = [enqueue(b, Snapshot(b)) EXCEPT ![b].pc = "list"]
     ELSE tab' = [tab EXCEPT ![b].pc = "drop"]
  /\ UNCHANGED <<ver, cast, dash>>

\* LoadIncidentSnapshot and its send, which may time out likewise
SendIncidents(b) ==
  /\ tab[b].pc = "list"
  /\ \/ Len(tab[b].q) < DashQueue /\ tab' = [enqueue(b, Other) EXCEPT ![b].pc = "loop"]
     \/ Len(tab[b].q) >= DashQueue /\ tab' = [tab EXCEPT ![b].pc = "drop"]
     \/ tab' = [enqueue(b, Other) EXCEPT ![b].pc = "drop"]
  /\ UNCHANGED <<ver, cast, dash>>

\* One turn of the command loop: whatever the principal may do and the hub answers, the browser
\* gets a command_result unless its queue is full.
DashCommand(b) ==
  /\ tab[b].pc = "loop" /\ tab[b].conn = "up"
  /\ tab' = enqueue(b, Other) /\ UNCHANGED <<ver, cast, dash>>

\* The browser goes away, or is silent for longer than dashReadDeadline.
LoseBrowser(b) ==
  /\ tab[b].conn = "up"
  /\ tab' = [tab EXCEPT ![b].conn = "down"] /\ UNCHANGED <<ver, cast, dash>>

\* ReadMessage fails.
LeaveLoop(b) ==
  /\ tab[b].pc = "loop" /\ tab[b].conn = "down"
  /\ tab' = [tab EXCEPT ![b].pc = "drop"] /\ UNCHANGED <<ver, cast, dash>>

\* Mutant: the map is changed without the lock.
UnregisterDashUnlocked(b) ==
  /\ tab[b].pc = "drop"
  /\ dash' = dash \ {b} /\ tab' = [tab EXCEPT ![b].pc = "close", ![b].conn = "down"]
  /\ UNCHANGED <<ver, cast>>

\* The deferred conn.Close and unregister up to its Unlock
UnregisterDash(b) ==
  /\ tab[b].pc = "drop" /\ Unlocked
  /\ dash' = dash \ {b} /\ tab' = [tab EXCEPT ![b].pc = "close", ![b].conn = "down"]
  /\ UNCHANGED <<ver, cast>>

\* close(c.send)
CloseQueue(b) ==
  /\ tab[b].pc = "close"
  /\ tab' = [tab EXCEPT ![b].pc = "gone", ![b].closed = TRUE] /\ UNCHANGED <<ver, cast, dash>>

\* dashWritePump: a failing write closes the connection and ends the pump, a closed channel is
\* emptied first.
DashWrite(b) ==
  /\ tab[b].pump = "run" /\ tab[b].q # <<>>
  /\ LET m == Head(tab[b].q) IN
     \/ /\ tab[b].conn = "up"
        /\ tab' = [tab EXCEPT ![b].q = Tail(@),
                     ![b].view = [s \in Source |-> IF \E v \in 0 .. MaxVer : <<s, v>> \in m
                                                   THEN CHOOSE v \in 0 .. MaxVer : <<s, v>> \in m
                                                   ELSE @[s]]]
     \/ tab' = [tab EXCEPT ![b].q = Tail(@), ![b].conn = "down", ![b].pump = "done"]
  /\ UNCHANGED <<ver, cast, dash>>

EndPump(b) ==
  /\ tab[b].pump = "run" /\ tab[b].q = <<>> /\ tab[b].closed
  /\ tab' = [tab EXCEPT ![b].pump = "done"] /\ UNCHANGED <<ver, cast, dash>>

\* What the goroutines of one browser do by themselves
Serves(b) == \/ ReadSnapshot(b) \/ SendSnapshot(b) \/ SendIncidents(b) \/ LeaveLoop(b)
             \/ UnregisterDash(b) \/ CloseQueue(b)
Pumps(b) == DashWrite(b) \/ EndPump(b)
Broadcasts(r) == BeginBroadcast(r) \/ (\E b \in Browser : BroadcastTo(r, b)) \/ EndBroadcast(r)

DashNext ==
  \/ \E s \in Source : AcceptReport(s)
  \/ \E r \in Report : Broadcasts(r)
  \/ \E b \in Browser : OpenDashboard(b) \/ Serves(b) \/ Pumps(b) \/ DashCommand(b) \/ LoseBrowser(b)
  \/ BroadcastOther

-----------------------------------------------------------------------------

DashTypeOK ==
  /\ ver \in [Source -> 0 .. MaxVer] /\ dash \subseteq Browser
  /\ \A r \in Report : cast[r].pc \in {"idle", "kept", "cast"} /\ cast[r].left \subseteq Browser
  /\ \A b \in Browser : Len(tab[b].q) <= DashQueue /\ tab[b].missed \subseteq Source

\* Broadcast sends on no closed channel: who is still to be served has not closed its queue, and
\* neither has who is in the map.
NoSendOnClosedQueue ==
  \A b \in Browser : tab[b].closed => b \notin dash /\ \A r \in Report : b \notin cast[r].left

\* A dashboard that has caught up shows the newest row of a device once that report's broadcast is
\* over, whatever older reports are still doing, unless the newest row met a full queue or an
\* older one (a snapshot read before it, the overtaken broadcast of an earlier report) was queued
\* behind it; with the next report it is right again.
DashboardCurrent ==
  \A b \in Browser : tab[b].pc = "loop" /\ tab[b].conn = "up" /\ tab[b].q = <<>> =>
    \A s \in Source : (\A r \in Report : r = <<s, ver[s]>> => cast[r].pc = "idle") =>
      tab[b].view[s] = ver[s] \/ s \in tab[b].missed

DashInv == DashTypeOK /\ NoSendOnClosedQueue /\ DashboardCurrent

\* A browser that is gone leaves nothing behind: its session is out of the hub and both its
\* goroutines have ended, although its queue may be full and its pump may have gone first.
DashboardLeaves ==
  \A b \in Browser : <>[](tab[b].conn = "down") => <>[](tab[b].pc = "gone" /\ tab[b].pump = "done")
=============================================================================
