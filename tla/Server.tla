------------------------------- MODULE Server -------------------------------
(***************************************************************************)
(* The server's own goroutines and the agent's connection, whose liveness       *)
(* depends on who waits for whom: file transfers, accounts, dashboards, the    *)
(* start of the process, the scheduler, the alert engine, and the agent's link.  *)
(* These areas share no variable that one writes and another reads (a            *)
(* connection that breaks is a choice in each), so every interleaving of two     *)
(* of them shows each one a behaviour of its own: one area moves, the others      *)
(* rest in their first state.                                                  *)
(***************************************************************************)
EXTENDS FileUpload, FileDownload, UserAdmin, Dashboard, AgentLink, ServerStart, Automations, Alerting

VARIABLE area

vars == <<area, upVars, downVars, userVars, dashVars, linkVars, startVars, autoVars, alertVars>>

Init ==
  /\ UpInit /\ DownInit /\ UserInit /\ DashInit /\ LinkInit /\ StartInit /\ AutoInit /\ AlertInit
  /\ area \in {"upload", "download", "users", "dashboard", "link", "start", "cron", "alerts"}
  /\ area # "upload" => body = 0
  /\ area # "download" => size = 0
  /\ area # "cron" => cert = [a \in Asset |-> 0]

Upload ==
  /\ area = "upload" /\ UpNext
  /\ UNCHANGED <<area, downVars, userVars, dashVars, linkVars, startVars, autoVars, alertVars>>
Download ==
  /\ area = "download" /\ DownNext
  /\ UNCHANGED <<area, upVars, userVars, dashVars, linkVars, startVars, autoVars, alertVars>>
Users ==
  /\ area = "users" /\ UserNext
  /\ UNCHANGED <<area, upVars, downVars, dashVars, linkVars, startVars, autoVars, alertVars>>
Dashboards ==
  /\ area = "dashboard" /\ DashNext
  /\ UNCHANGED <<area, upVars, downVars, userVars, linkVars, startVars, autoVars, alertVars>>
Link ==
  /\ area = "link" /\ LinkNext
  /\ UNCHANGED <<area, upVars, downVars, userVars, dashVars, startVars, autoVars, alertVars>>
Starting ==
  /\ area = "start" /\ StartNext
  /\ UNCHANGED <<area, upVars, downVars, userVars, dashVars, linkVars, autoVars, alertVars>>
Cron ==
  /\ area = "cron" /\ AutoNext
  /\ UNCHANGED <<area, upVars, downVars, userVars, dashVars, linkVars, startVars, alertVars>>

Alerts ==
  /\ area = "alerts" /\ AlertNext
  /\ UNCHANGED <<area, upVars, downVars, userVars, dashVars, linkVars, startVars, autoVars>>

\* A transfer that is over and a browser that is gone leave nothing to do.
Over ==
  /\ \/ area = "upload" /\ pc = "done"
     \/ area = "download" /\ copy = "done"
     \/ area = "dashboard" /\ \A b \in Browser : tab[b].pc = "gone"
  /\ UNCHANGED vars

Next == Upload \/ Download \/ Users \/ Dashboards \/ Link \/ Starting \/ Cron \/ Alerts \/ Over

-----------------------------------------------------------------------------
(* Fairness.  Outages, faults, requests and operators need not happen.        *)

\* Some goroutine of a transfer that can run does; its timers need not fire.
TransferFairness == WF_upVars(area = "upload" /\ UpRuns) /\ WF_downVars(area = "download" /\ DownRuns)

\* Time passes, and a login that has read the row goes on unless the server stops.
UserFairness ==
  \A u \in User :
    /\ WF_userVars(area = "users" /\ LoginIssue(u))
    /\ \A r \in Role : WF_userVars(area = "users" /\ Expire(u, r))

\* Sessions, write pumps and broadcasts run.
DashFairness ==
  /\ \A b \in Browser : WF_dashVars(area = "dashboard" /\ Serves(b)) /\ WF_dashVars(area = "dashboard" /\ Pumps(b))
  /\ \A r \in Report : WF_dashVars(area = "dashboard" /\ Broadcasts(r))

\* Timers fire, goroutines go on, select does not prefer the ticker for ever, the server can
\* be dialled when no outage is left, and the service manager restarts the agent.
LinkFairness ==
  /\ WF_linkVars(area = "link" /\ (Dial \/ Backoff \/ EndCommands \/ Join \/ Supervise))
  /\ WF_linkVars(area = "link" /\ (SendTelemetry \/ TickTelemetry))
  /\ SF_linkVars(area = "link" /\ TickTelemetry /\ tel' = "off")
  /\ WF_linkVars(area = "link" /\ (SyncPolicy \/ TickSync))
  /\ WF_linkVars(area = "link" /\ (ReadFails \/ Answer \/ StdinTaken))
  /\ WF_linkVars(area = "link" /\ WriteOutput)

\* A process that runs goes on, and the service manager restarts the server.
StartFairness ==
  /\ \A p \in Server : WF_startVars(area = "start" /\ (Launch(p) \/ Starts(p)))
  /\ \A p \in Tool : WF_startVars(area = "start" /\ Starts(p))

\* The ticker reloads again and again, and the database answers it.
CronFairness == WF_autoVars(area = "cron" /\ (LoadActive \/ StopCron \/ StartCron))

\* The engine's goroutine, the one that handles telemetry, those they start, the dispatcher and
\* the clock go on.
AlertFairness ==
  /\ WF_alertVars(area = "alerts" /\ Evaluates) /\ WF_alertVars(area = "alerts" /\ DeliverNotice)
  /\ WF_alertVars(area = "alerts" /\ (OnHeartbeat \/ TelemetryReturns))
  /\ WF_alertVars(area = "alerts" /\ \E j \in recov : AutoResolve(j))
  /\ \A f \in Critical : WF_alertVars(area = "alerts" /\ OpenIncident(f))
  /\ \A f \in FP : WF_alertVars(area = "alerts" /\ CooldownOver(f))

Spec ==
  /\ Init /\ [][Next]_vars
  /\ TransferFairness /\ UserFairness /\ DashFairness
  /\ LinkFairness /\ StartFairness /\ CronFairness /\ AlertFairness

-----------------------------------------------------------------------------

\* What every state of a transfer satisfies: the order of what was written at either end, no file
\* left open behind an answer of the agent, a success only for a file that is complete on the
\* device, and a file smaller than the channel is downloaded as it is.
TransferInv ==
  /\ UpTypeOK /\ DownTypeOK /\ WrittenInOrder /\ AnsweredIsClosed /\ ResponseInOrder
  /\ AcknowledgedIsComplete /\ SmallFileIsExact

\* Without faults, timeouts and a write after the deadline of an old telemetry message every upload
\* is answered by what its size deserves, and every download of a small file reaches its end.
TransferEnds == UploadAnswered /\ DownloadEnds

\* What every state of accounts, starting processes and the agent's link satisfies.
ServerInv == UserTypeOK /\ StartInv /\ LinkInv

\* "maintains a mutual-TLS WebSocket to /v1/ws": after broken connections, refused dials, dead
\* write sides and crashes the agent serves a working connection again, unless its command loop
\* waits for a terminal that reads no input.
AgentReturns == []<>(area = "link" => LinkServes)

\* Servers that start together do not keep one another from serving: the one that loses the race
\* for a version finds it recorded when it is started again.
StartsEnd == \A p \in Server : []<>(area = "start" => proc[p].pc = "up")
=============================================================================
