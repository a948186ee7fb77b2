# ARX MDM: TLA+ models and proofs

ARX MDM is a self-hosted device-management server (Go, PostgreSQL), a Go agent
for desktops, an Android agent and a web dashboard. Agents enrol with a one-time
token, receive a client certificate and then keep one mutually authenticated
WebSocket to the server; telemetry, commands, package and file transfers all go
through it. This directory models the parts of the server where the order of
concurrent steps, failures and restarts decides whether the system is right.

## 1. Inventory

### 1.1 Parts, state, interaction

| Part | Source | State | Operations | Talks to |
|---|---|---|---|---|
| C2 hub | `internal/ws/hub.go`, `handler.go` | `bySerial` map under `mu`; per session a socket and a bounded channel `send` | `register`, `unregister`, `DispatchJSON`, readPump, writePump | every part that sends a downlink |
| Device commands | `internal/database/device_commands.go`, `api/device_commands.go`, `api/incidents.go`, `ws/pending_device_commands.go`, `ws/device_command_outcome.go` | table `device_commands` | issue, flush on reconnect, result, incident journal | C2 hub, incidents, compliance |
| File proxy | `ws/fs_bridge.go`, `api/files.go`, `ws/agent_fs.go` | waiter maps `fsDown`, `fsUp` | chunked download and upload through the agent socket | C2 hub |
| Dashboard hub | `ws/dash_hub.go`, `ws/dash_session.go` | client set, channel per client | register, broadcast, unregister, console commands with RBAC | C2 hub, agent uplinks |
| Enrolment | `auth/enrollment_*.go`, `api/enroll.go`, `agent/enroll.go` | `enrollment_tokens` | claim, sign, release | PKI |
| Telemetry upsert | `api/telemetry.go` | `assets` | match by certificate, by hostname, or insert with the next `arx-c-N` | compliance, metrics, alerting |
| Compliance | `mdm/compliance` | `assets.compliance_*`, `quarantine_enabled` | evaluate, auto-quarantine, release | device commands |
| Alerting and ITSM | `alerting/engine.go`, `database/alerting.go`, `itsm/alert_bridge.go`, `database/incidents.go` | `alerts`, `incidents` | evaluate, raise, notify, resolve | notifications |
| Packages and deployments | `api/packages.go`, `ws/package_outcome.go` | `packages`, `deployments` | edit, insert a deployment, dispatch, store the answer, store the agent's outcome | C2 hub, scheduler |
| Automation scheduler | `scheduler/cron.go`, `api/automations.go` | `automations`, the running cron | reload every minute, stop, start, run jobs | deployments, C2 hub |
| App catalogue | `api/app_catalog.go`, `ws/app_install_outcome.go`, `api/agent_app_download.go` | `app_catalog`, files under AppsRoot, `device_apps` | upload, edit, delete, assign, authorised download, result | C2 hub, agent |
| Policy merge and profiles | `mdm/policy/merge.go`, `api/configuration_profiles.go`, `api/principal_groups.go`, `api/device_effective_policy.go` | profiles, groups, assignments with a conflict flag | edit, assign, merge with the most restrictive value winning, reconcile flags | telemetry answers, agent profile API |
| Android policies | `api/android_policies.go` | `android_policies` with a one-shot wipe | PATCH under a row lock, carry and clear in a telemetry answer | telemetry |
| Service desk | `api/incidents.go`, `database/incidents.go` | `incidents` with a journal, `resolutions` | create, edit, resolve, delete; alerts open and repeat, recoveries resolve | alerting, device commands, dashboards |
| Database migrations and start | `database/migrations.go`, `cmd/server/serve.go` | `arx_schema_migrations` | apply what is pending, open the store, start workers, listen | every process |
| Backup | `backup/engine.go`, `api/backups.go` | archives in a directory | dump, archive, publish, prune | database |
| PKI, users, install | `internal/pki`, `auth`, `bootstrap`, `serverinstall`, `envfile` | files, users, roles | issue certificates, sign JWTs | all |
| Agent link | `agent/client.go`, `ws/agent_handlers.go`, `agent/heartbeat.go` | connection, write deadline, terminal | dial, serve, back off; telemetry, policy sync, commands | C2 hub |
| Web UI, Android agent | `web/`, `mobile/` | view state | clients of the same interfaces | server |

### 1.2 What is hard

* Several goroutines per connection and per request share the hub; a lookup and
  the use of what it found are separate steps.
* A database row is changed by several handlers with unconditional UPDATEs; the
  agent's answer may overtake the server's own bookkeeping.
* The server may stop between any two SQL statements, the agent may reconnect at
  any moment, with another certificate after a re-enrolment.
* Files (CA material, agent identity) are written one by one and replaced by
  remove and rename; a process may die between any two of these operations.
* Channels are bounded and drop or refuse: the outbound queue of a session, the
  chunk channel of a download, the notification queue.
* Work is handed to goroutines whose context belongs to somebody else.
* A timer outlives what it was set for: a write deadline, a cron that is replaced
  while its jobs run, a retention that is computed before the new archive exists.

`PROJECT.json` lists these hazards one by one, at their lines.

### 1.3 What makes each part correct

| Part | Correct when |
|---|---|
| C2 hub | the newest session of a certificate is the one that is reached; a dead session leaves; payloads arrive in order, once |
| Device commands | nothing queued is forgotten; a status or journal entry never claims more than happened; only the owner of a command reports on it |
| Enrolment | a token yields at most one certificate; a failed attempt never frees another's claim; an agent's files are never somebody else's or an unsigned identity |
| PKI | interrupted starts never leave a mixture that is taken for a CA, and never change the root of certificates already issued |
| Alerting and incidents | alerts follow their condition; critical conditions have an incident; open alerts are announced in the end |
| File proxy | what arrives is in order and, when acknowledged, whole; requests end |
| Compliance | the status follows the agent's enforcement; automatic quarantine follows the status; the device is as isolated as its flag says |
| Asset identity | one row per device, found again through renames and new certificates |
| Users | an administrator remains; lost authority ends |
| Deployments | a row says no more than what the device did, and a stored outcome stays |
| Scheduler | an activation is not doubled and does not outlive its automation; the cron follows the table |
| App catalogue | an entry has its file; success means installed; the agent of a lone assignment gets its artifact |
| Policy | the merged setting is at least as strict as each profile, in any order; flags tell conflicts |
| Android policy | a requested wipe is not taken away by somebody else's write |
| Service desk | the journal holds what its writers were promised, and nothing of a failed edit; one incident per alert |
| Dashboards | no send on a closed queue; a dashboard whose queue is empty is current; sessions end |
| Agent link | sessions do not mix, and the agent comes back after any outage |
| Start | a migration runs once, in order; every server comes up |
| Backup | what is listed is whole; a backup once there remains |

## 2. Modules

| Module | Models | State | Actions |
|---|---|---|---|
| `C2Hub` | `ws/hub.go`, the pumps of `ws/handler.go` | `bySerial`; per connection the socket, the link, the program counters of readPump and writePump, the channel; per caller of `DispatchJSON` its progress | `Register`, `StartPumps`, `ReadEnd`, `Unregister`, `WriteOk`, `WriteError`, `DispatchLookup`, `DispatchEnqueue`, `DispatchTimeout`, `DispatchPanic`, `DispatchReturn`; `LinkDown` is the network |
| `C2HubDelivery` | the same, watched from both ends | two histories | those of `C2Hub` |
| `DeviceCommands` | `database/device_commands.go`, `api/device_commands.go`, the command path of `api/incidents.go` and `mdm/compliance/engine.go`, `ws/pending_device_commands.go`, `ws/device_command_outcome.go` | composes `C2Hub` with the table `device_commands`, `assets.cert_serial`, the incident journal, the issuing and flushing goroutines, the agent's work | `IssueStart` .. `IssueJournal`, `FlushList` .. `FlushEnd`, `Deliver`, `ReadResult`, `ApplyResult`, `ResultJournal`, `Crash`, `FlushPanic`, `Reenroll` |
| `TokenLedger` | what a token promises (abstract) | minted, available, certificates per token | `Mint`, `Take`, `GiveBack`, `Issue` |
| `Enrollment` | `auth/enrollment_*.go`, `api/enroll.go`, `agent/enroll.go`, `agent/mtls.go` | token rows, requests and their contexts, issued certificates, each machine's three files | `Post`, `Claim`, `Sign`, `Release`, `Respond`, `WriteKey`, `WriteCert`, `WriteRoot`, `Cancel`, `Expire`, `ServerStop`, `AgentDies` |
| `PKIStore` | `pki/ca.go`, `pki/server_tls.go` | the files of the PKI directory as key generations, the authority in each process' memory | `Open`, `ReadFile`, `RemoveOld`, `RenameNew`, `IssueClientCertificate`, `EnsureServerTLSMaterial`, `Die`, `Lose` |
| `Alerting` | `alerting/engine.go`, `database/alerting.go`, `database/incidents.go`, `notifications/dispatcher.go`, the alert part of `api/telemetry_process.go` | alert and incident rows, the evaluator's pass, recovery and opening goroutines with their contexts, the notification channel | `Tick`, `CheckRule`, `Upsert`, `CloseBuiltin`, `CloseRuleOffline`, `CloseRuleMetric`, `Return`, `OpenIncident`, `AutoResolve`, `Heartbeat`, `OnHeartbeat`, `DeliverNotice`, operators, `Restart` |
| `FileUpload`, `FileDownload` | `api/files.go`, `ws/fs_bridge.go`, `ws/agent_fs.go` | the handler's progress, waiters and channels, the agent's open file | `Begin`, `Chunk`, `Finish`, `Result`, `Handle`, `StartDownload`, `Copy`, `Read`, `DeliverChunk`, reconnects, timeouts, faults |
| `Compliance` | `mdm/compliance`, `database/device_compliance.go`, `api/compliance_routes.go`, `agent/mdm_sync.go`, the quarantine branch of `agent/c2/dispatcher.go` | the agent's note, telemetry handlers statement by statement, status, flag, commands, isolation | `SyncStart`, `SyncEnd`, `Report`, `ReadPrev`, `SetStatus`, `CheckAuto`, `Insert`, `SetFlag`, `Dispatch`, `Mark`, `Patch`, `Resolve`, `OpDispatch`, `OpMark`, `Execute`, reconnects |
| `AssetIdentity` | `upsertAssetFromTelemetry` in `api/telemetry.go` | asset rows with their unique indexes, the advisory lock, transactions under way, the fleet | `Receive`, `Lock`, `LookupSerial`, `LookupHost`, `NextSeq`, `Insert`, `Update`, `Fail`; `Rename`, `Enroll`, `Retire` |
| `UserAdmin` | `api/users_admin.go`, `auth/users.go`, `api/auth_handlers.go`, `cli/admin.go` | roles, tokens, logins and requests under way, the starting server | `Start`, `BootCount`, `BootInsert`, `CreateUser`, `LoginRead`, `LoginIssue`, `Expire`, `Patch`, `Delete`, `ReadRole`, `Count`, `Write`, `Abort` |
| `Deployments` | `api/packages.go`, `ws/package_outcome.go`, the agent's package handler | packages, certificates and sessions, deployments with the command they sent, handlers and jobs in progress | `RequestDeployment`, `ReadPackage`, `InsertDeployment`, `LookupSerial`, `DispatchDeployment`, `StoreDispatch`, `StartPackage`, `FinishPackage`, `ApplyPackageOutcome`, package edits, reconnects, `StopIssuers` |
| `Automations` | `scheduler/cron.go`; extends `Deployments` | automations, entries of the running crons, the reload, the clock | `LoadActive`, `StopCron`, `StartCron`, `Fire`, `FetchAutomation`, `ResolveTargets`, `DispatchDeploy`, `DispatchShutdown`, `RestartScheduler` |
| `AppCatalog` | `api/app_catalog.go`, `ws/app_install_outcome.go`, the agent's installer | catalogue rows, files, the device's app row, requests and installs in progress | uploads in three steps, `ReadPatch`/`UpdatePatch`, `ReadDelete`/`DeleteEntry`/`Unlink`, assignment in four steps, `Download`, `RunInstaller`, `ReportInstall`, `SerialMoves`, `ServerStops` |
| `PolicyMerge` | `mdm/policy/merge.go` as operators on abstract JSON values | one tuple of values | none: every tuple is an initial state |
| `Policy` | `api/configuration_profiles.go`, `api/principal_groups.go`, `api/device_effective_policy.go`, `database/mdm_*.go`; extends `PolicyMerge` | profiles with their payload and platform, groups, assignments, computations in progress | the edits, `ReadAssigned`, `Reconcile`, `GiveUpCalc` |
| `AndroidPolicy` | `api/android_policies.go` | the row, its lock, requests and answers in progress | `StartPatch`, `SelectForUpdate`, `CommitPatch`, `RollbackPatch`, `CarryPolicy`, `ClearWipe` |
| `ServiceDesk` | `api/incidents.go`, `database/incidents.go` | incidents with their journal, resolutions, transactions with what they have not committed | `CreateIncident`, `AppendNote`, `UpdateFields`, `UpdateOnly`, `CommitFields`, `Rollback`, `DeleteIncident`, `FindIncident`, `InsertResolution`, `JournalCommand`, `SelectFingerprint`, `InsertIncident`, `RepeatAlert`, `CommitAlert`, `AutoResolveIncident` |
| `Dashboard` | `ws/dash_hub.go`, `ws/dash_session.go` | client set under its read-write lock, per session a queue and two goroutines, broadcasts in progress | `AcceptReport`, `BeginBroadcast`, `BroadcastTo`, `OpenDashboard`, `ReadSnapshot`, `SendSnapshot`, `DashCommand`, `LeaveLoop`, `UnregisterDash`, `CloseQueue`, `DashWrite`, `EndPump` |
| `AgentLink` | `agent/client.go`, `ws/agent_handlers.go`, `agent/mdm_sync.go` | the loops of a session, the socket with its write deadline, `rt.mu`, terminals | `Dial`, `Backoff`, `EndCommands`, `Join`, `SendTelemetry`, `CollectFails`, `Collide`, `SyncPolicy`, `Execute`, `Answer`, terminal handlers; `Break`, `Crash`, `Kill` |
| `ServerStart` | `database/migrations.go`, the order of `cmd/server/serve.go` | recorded versions, the processes that start | `Launch`, `CheckMigration`, `ExecMigration`, `RecordMigration`, `CommitMigration`, `FinishStart`, `EndProcess` |
| `Backup` | `backup/engine.go`, `api/backups.go` | runs under `runMu`, archives | `AskBackup`, `LockRun`, `DumpDatabase`, `WriteArchive`, `PublishArchive`, `ListArchives`, `RemoveArchive`, `EndBackup`, `FailBackup`, `StopEngine`, `NextDay` |
| `Server` | composes `FileUpload`, `FileDownload`, `UserAdmin`, `Dashboard`, `AgentLink`, `ServerStart`, `Automations`, `Alerting` | `area` | those of the area |
| `Fleet` | composes `Automations` (with `Deployments`), `AppCatalog`, `Policy` (with `PolicyMerge`), `AndroidPolicy`, `ServiceDesk`, `Backup` | `area` | those of the area |
| `MCDeviceCommands`, `MCEnrollment`, `MCPKIStore` | instances for TLC | | |
| `C2HubProofs`, `DeviceCommandsProofs`, `EnrollmentProofs`, `PKIStoreProofs`, `ComplianceProofs`, `AssetIdentityProofs` | theorems about the module of that name | | |
| `ServerProofs`, `FleetProofs` | theorems about `Server` and `Fleet`, a section for each area | | |

`Server` and `Fleet` hold areas that write no variable another one reads. An
interleaving of two of them shows each a behaviour it also has alone, so one area
moves in a behaviour and the others rest in their first state; what they do share in
the program, the hub, is a choice in each (a session is there or not, a send is taken
or refused).

Conventions. One action is one atomic step of the program: a critical section, one
SQL statement, one file operation, one channel operation, or what a handler does
between two of these. Names follow the source. A definition whose comment starts
with "Mutant" is a plausible bug of the definition next to it; it is no part of any
specification. Variables called ghost or history only record; they enable nothing.
`DbFaults` lets any statement fail.

## 3. Runs

Every run finishes within a few minutes on two workers.

| Run | Instance | Shows |
|---|---|---|
| `Hub` | one certificate, 2 connections, queue of 2, 2 dispatchers, 3 payloads | `RegistryInv` (types, the map holds live sessions of the right certificate), `NewestSessionReachable`, `DeliveredInOrder`, `DeadSessionLeaves` |
| `HubSendOnClosed` | 3 connections, 1 dispatcher | `DispatchAnswers` is violated, see section 5 |
| `DevCmdQueue` | one quarantine command, 2 connections, one crash, fair | `NoLostPending`, `QueuedReachesAgent` |
| `DevCmdFaults` | one operator command of an incident, two certificates with one connection each, failing statements, one re-enrolment, a flush that panics and ends the process | `CommandsHonest` (types, `SentWasEnqueued`, `SuccessWasDelivered`), `StaleCertificateCannotReport`, `OutcomeIsJournalled`, `RefusalKeepsOutcome` |
| `Enrollment` | 3 attempts of 2 machines, 2 tokens, failing statements, one server stop | `TokenInv` (types, `SingleUse`, `ClaimExclusive`), `ImplementsLedger`, `UsableMaterial`, `IdentityKept` |
| `PKI` | 2 processes, 3 key generations, one lost file | `StoreInv` (types, `ChainsUp` always; the directory is one generation while one process uses it), `ClientsStayTrusted` |
| `Compliance` | 2 telemetry handlers, 2 commands, 1 operator call, fault or change of the environment | `RecoveredIsCompliant`; `ComplianceInv` (types; quarantine follows an entry into non_compliant; an idle device is isolated as its flag says) |
| `Assets` | 2 devices, 2 reports each under way, 3 hostnames, 2 changes, 1 fault | `AssetInv` (types, `InsertIsFresh`, one row per device), `ReportsPersist` |
| `Server`, transfers | bodies and files of 0 to 4 chunks, limit 3, queue 2, channel 3, 2 connections, 2 faults | `TransferInv` (order, closed when answered, complete when acknowledged over one connection, exact when it fits the channel), `TransferEnds` |
| `Server`, accounts | 2 accounts, one request at a time | `AuthorityEnds`; types in `ServerInv` |
| `AdminLost` | 2 accounts, 2 requests | `AdminRemains` is violated, see section 5 |
| `Server`, dashboards | one device with 2 reports that may overlap, one browser, queue of 2 | `DashInv` (no send on a closed queue; a dashboard whose queue is empty shows the newest row unless that met a full queue, or a snapshot or an older report was queued behind it), `DashboardLeaves` |
| `Server`, link | 2 terminals, 3 mishaps | `SessionsApart` in `ServerInv`, `AgentReturns` |
| `Server`, start | 2 servers and a tool, 2 migrations, 2 failures | `MigratedOnce` in `ServerInv`, `StartsEnd` |
| `Server`, scheduler | one automation, clock of 2, one restart | `ScheduleFollows` |
| `Server`, alerts | one alert of each kind, two of them critical, queue of 1, 2 events | `AlertInv` (types, `IncidentHasAlert`), `RecoveredAlertCloses`, `CriticalKeepsIncident`, `StillOpenIsAnnounced` |
| `Fleet`, deployments and jobs | one package, asset and automation, 2 deployments, 2 certificates, a handler and a job, clock of 2, a process that ends at any moment; jobs deploy packages that keep their command | `DeploymentsHold` (`HonestDeployments`, `JobsAreExact`), `OutcomeStays` |
| `Fleet`, catalogue | one app, one blob, 2 requests, 2 installs | `FilesHold` (`UploadsAreServed`, `SuccessIsInstalled`, `LoneInstallIsServed`) |
| `Fleet`, merge and profiles | every tuple of up to 3 abstract values; 2 profiles, 2 devices, a group, 2 computations, 4 edits | `ProfilesHold` (`MergeIsRestrictive`, `FlagsTellConflicts`) |
| `Fleet`, Android | 2 requests and an answer at once, 3 requests in all | `WipeIsKept` |
| `Fleet`, incidents | one clerk, 2 transactions of the alert engine, 2 incidents, 2 notes each | `DeskInv` (journal, one incident per alert, repeated alerts reopen, resolutions have incidents) |
| `Fleet`, backups | 2 runs, 2 names a day, retention of 1 day, 3 days | `FilesHold` (`BackupInv`) |
| `LinkDeadline` | 2 terminals, 3 mishaps | `UplinkIsSent` is violated, see section 5 |

Why the bounds are enough. Two connections of one certificate are the replaced one
and its successor, which is all that `register` and `unregister` ever compare; two
dispatchers and a queue of two give every order of sends around a full channel. Several
commands on one session, and statements of a flush that fail, are left to the proofs. Three attempts on two tokens let
one attempt hold a token, one present it again and one present another. Three key
generations are two of a CA and one interrupted between them (or a server pair).
Two events are a condition that comes and goes, or one with a fault in it. A body
above the limit, at the limit and below it, and a file below, at and above the
channel's capacity, are all within four chunks. Two reports of a device are a newer one
that overtakes an older; messages of other kinds fill the queue meanwhile. Two terminals are one that a
session left behind and one of its successor; three mishaps break a connection, the
next dial and the process. Two migrations and three processes are one that commits,
one that waits for it and one that comes late. Two deployments and two certificates are
one answered late, from a certificate the asset no longer has. Two requests and two
installs are all that a row or a file of the catalogue can be between. Four edits
assign two profiles, change the payload or the platform of one and remove an assignment
while two computations run. Three PATCH
requests are two that overlap and one that asks for the wipe. Two incidents are one
deleted and its successor. Three days are today's archive, one at the retention and
one behind it.

The bounds are named after what they bound: `MaxCrash`, `MaxFaults`, `MaxDownFaults`,
`MaxEvents`, `MaxChanges`, `MaxTurns`, `MaxReenroll`, `MaxStops`, `MaxLosses`, `MaxTrouble`,
`MaxFails` for crashes, faults and outside events, `MaxGen`, `MaxCmd`, `MaxConn`, `MaxBody`,
`MaxFile`, `MaxVer`, `MaxShell`, `MaxMig`, `MaxDep`, `MaxCert`, `MaxClock`, `MaxPolEdits`,
`MaxPatches`, `MaxInc`, `MaxNotes`, `MaxDay` for what may be made; each is a guard of the
action it bounds. Where the question is general (section 6), the proof does not depend
on them.

Certificates in `DevCmdFaults`, processes in `PKI`, and requests and installs of the
catalogue in `Fleet` are interchangeable in the modules, so their permutations are used
as symmetry; no liveness property is checked in those runs. Deadlock is not checked
where a system may come to rest (bounded connections or attempts used up).

## 4. Fairness

| Module | Assumed | Because |
|---|---|---|
| `C2Hub`, `DeviceCommands` | weak fairness of the server's goroutines; a read on a dead link ends | the Go scheduler; `SetReadDeadline` in readPump. Nothing is assumed of operators, agents or the network |
| `Alerting` | the ticker, the pass, the goroutines and the clock go on; a statement that can succeed eventually does after the bounded faults | `time.Ticker` in `Start`; `notifyDedupCooldown` is wall time |
| `FileUpload`, `FileDownload` | some goroutine of the request that can run does | the Go scheduler; timers and faults need not happen |
| `Compliance` | handlers, the agent's loops and its goroutines, and reconnection | `Run` in `agent/client.go` dials again for ever |
| `AssetIdentity` | agents in service keep reporting; strong fairness of the lock | the telemetry ticker; PostgreSQL queues those who wait for an advisory lock, so nobody is passed over for ever |
| `UserAdmin` | tokens run out; a login that has read its row goes on | wall time; the request's goroutine |
| `Dashboard` | the session, its pump and a broadcast in progress go on | the Go scheduler; a write to a browser that is gone fails |
| `AgentLink` | dialling, back-off, the loops and the service manager; strong fairness of the telemetry loop leaving once its context has ended | timers; `select` chooses among ready cases at random, so a loop whose context has ended does not choose the ticker for ever; the unit file restarts the service |
| `ServerStart` | a server is launched again and every started process goes on | `Restart=always` in the unit `serverinstall/install_linux.sh` writes; statements end |
| `Automations` | the reload loop | `time.Ticker` of a minute |

## 5. Where the code and its words part

`HubSendOnClosed` is a run of its own: `dispatchRaw` sends on a session's channel
after releasing the lock (`ws/hub.go:138`), `unregister` may have closed it
(`ws/hub.go:96`), and the send panics although the comment at `ws/hub.go:111`
promises true or false. In the flush goroutine nothing recovers it.

`AdminLost`: the guard for the last administrator reads the role and the number of
administrators, and the UPDATE or DELETE follows in a later statement without a lock
(`auth/users.go:266`, `api/users_admin.go:242-252` and `:306-316`). Two requests that each
see two administrators are both carried out and leave none, although
`api/users_admin.go:249` says "cannot demote the last admin" and `:313` "cannot delete the
last admin".

`LinkDeadline`: the telemetry loop sets a write deadline of 15 seconds
with each message and sends one a minute (`agent/client.go:178`); the command handlers
set none (`ws/agent_handlers.go:37`). A deadline stays on the connection, so an answer
written later than 15 seconds after the last telemetry message fails, and with it every
later write, until the next telemetry message finds the error and closes a connection
that was healthy. `agent/c2/dispatcher.go:13` says "JSONWriter sends uplink JSON to the C2
server".

The other divergences met while modelling are not runs; the properties that would be
refuted by them are stated with the condition that excludes them, which is named in
the last column; TLC shows the divergence when that condition is dropped.

| Where | What the code does | What it says | Condition |
|---|---|---|---|
| `database/device_commands.go:217` | `MarkDeviceCommandSent` runs after the agent's result and puts a completed row back to sent | `:154` "CompleteDeviceCommand records successful execution output" | `RefusalKeepsOutcome` speaks of the refusal only |
| `ws/pending_device_commands.go:18` | the flush lists by the new certificate before telemetry has moved the asset to it | `:13` "pushes pending device_command rows after an agent reconnects" | `reenrolls = 0` in `NoLostPending` |
| `ws/device_command_outcome.go:47` | ownership is checked in one statement and the result stored in another: a certificate that moves in between leaves a session that is stale when it writes | | `caught` in `StaleCertificateCannotReport` |
| `database/device_commands.go:162`, `:175`, `:196` | the error of the journal's append is ignored, and a stop of the process between the two statements is not made up for: an outcome may never reach the incident's journal | `:317` "mirrors C2 telemetry into incidents.work_notes for linked contexts" | `unnoted` in `OutcomeIsJournalled` |
| `auth/enrollment_service.go:73` | the release runs under the finished request context and fails as well | `:39` "the claim is released so the client may retry" | no property; `Release` has the failing branch |
| `pki/ca.go:563` | two processes that find the directory incomplete replace each other's root | `ca_test.go:40` "reload should preserve root material" | `solo` |
| `alerting/engine.go:439` | the recovery goroutine inherits a context that ends with its caller; the incident may stay open for ever | `database/incidents.go:162` "marks still-active incidents resolved when safe" | no property; `AutoResolve` has the cancelled branch |
| `api/files.go:223` | each chunk goes to whatever session is registered: after a reconnect an upload is acknowledged with a chunk missing | `api/filetransfer_types.go:10` "acknowledgement for a streamed upload" | `last = 1` |
| `ws/fs_bridge.go:145` | a full channel drops a chunk, and the response still ends as 200 | `api/filetransfer_types.go:3` "one chunk of a file streamed from an agent" | `size < ChanCap` |
| `agent/client.go:178`, `ws/agent_handlers.go:37` | the answer to an upload, or a chunk of a download, that is written more than 15 seconds after the last telemetry message fails and is lost (`LinkDeadline`) | | `upWrite`, `downWrite` in `TransferEnds` |
| `agent/mdm_sync.go:84` | success is noted before enforcement, so a failing device flaps to compliant | `mdm/compliance/critical.go:7` "enforcement failures must mark the device non-compliant" | no property |
| `agent/c2/dispatcher.go:101` | isolation and release run in unordered goroutines | `migrations/000018_phase39_compliance.sql:48` "toggled network/app isolation" | `apart` |
| `mdm/compliance/engine.go:34` | two handlers at once compare with a stale status and may queue no quarantine | | `alone` |
| `api/telemetry.go:292` | a rename to a hostname another row carries fails for ever | `api/telemetry_process.go:34` "upserts the asset row" | `fresh` |
| `api/packages.go:550`, `scheduler/cron.go:364`, `api/app_catalog.go:720` | the answer of the dispatch is stored by an unconditional UPDATE and may overwrite the agent's outcome | `ws/package_outcome.go` stores it as final | `OutcomeStays` speaks of outcomes stored after the answer |
| `api/packages.go` | a deployment whose agent disconnects after the dispatch stays `dispatched`; PATCH may take the `install_cmd` from a custom package | | no property |
| `scheduler/cron.go:304` | `fmt.Sprint` of a missing operation is `<nil>`, so the default "install" is never used | | the operation is not modelled |
| `api/app_catalog.go:511` | PATCH can point two entries to one blob, and deleting one removes the other's file; a failed INSERT leaves a file without an entry; PATCH reads and writes in two statements | | `moved` in `UploadsAreServed` |
| `ws/app_install_outcome.go:56` | a result names the app, not the assignment: with two at once the first result ends the second's authorisation | | a lone install in `LoneInstallIsServed` |
| `api/agent_app_download.go:75` | the download is authorised by the certificate on the agent's disk: between an enrolment and the next report, or after a report under another certificate, it is not the asset's and a lone install is refused | | `known` in `Download` |
| `mdm/policy/merge.go:333` | null among Booleans, and arrays with an element that is no string, depend on the order of the profiles; a scalar and an object at one path: one is dropped silently; one payload that is no object fails the whole policy | `:20` "restrictive-wins semantics" | `OrderMatters` |
| `database/mdm_assignment_state.go:38` | the flag of an assignment to a group is that of the device computed last; a late computation overwrites a newer one | | `settled` in `FlagsTellConflicts` |
| `database/mdm_assignment_state.go:31`, `:61` | only assignments of the device's platform are looked at: a profile that is moved to another platform keeps the flag it had | | the platform in `FlagsTellConflicts` |
| `api/mdm_downlink.go` | when the last profile is removed the answer has no policy key, and the agent keeps what it had | | only read, not modelled |
| `api/android_policies.go:220` | before the first row FOR UPDATE locks nothing: two first requests overwrite one another | | `raced` in `WipeIsKept` |
| `api/android_policies.go:285` | an answer that carried a wipe clears the column whatever it stands for by then: a wipe that was requested again meanwhile is gone without having been carried | | `taken` in `WipeIsKept` |
| `ws/dash_session.go:53`, `ws/dash_wire.go:84` | the role of a dashboard is that of its token for the life of the session; the outcome of an app install is not broadcast; a newer row that is queued before the snapshot read earlier, or before the broadcast of an older report (two connections, or `POST /v1/telemetry` beside one), is overwritten by it; one that meets a full queue is dropped | `ws/dash_hub.go` "Slow clients may drop messages" (of the last only) | `missed` in `DashboardCurrent` |
| `ws/agent_handlers.go:329`, `agent/client.go:179` | terminal input is written in the command loop and may block it; telemetry is written without `rt.mu`; shells of ended connections go on | | a blocked loop in `AgentReturns` |
| `backup/engine.go` | `os.Rename` across file systems fails; dump and PKI are copied at different times | | no property |
| `cmd/server/serve.go` | workers start before the JWT secret is checked, and at shutdown they are cancelled before HTTP requests are drained | | no property |

## 6. Proofs

TLAPS proves these for every value of the constants that satisfies the modules'
assumptions, which TLC evaluates in the runs. Every safety invariant and action property of
the runs that pass is proved. The assumptions say what kind of thing a
constant is: a bound or a capacity is a natural number (a channel's capacity is not 0), names
of different things differ (`Clerk` and `Opener`, `Handler` and `Job`, commands and sessions,
"nobody" and the runners), commands, devices and accounts are finitely many, there is a
hostname for each device, and a built-in alert is critical. None bounds a number from above.

| Theorem | Property | From | Besides the assumptions |
|---|---|---|---|
| `C2HubProofs` `NewestReachable`, `RegistryIsSound` | `NewestSessionReachable`, `RegistryInv` | `HubInv` | |
| `C2HubProofs` `DeliveryInOrder` | `DeliveredInOrder` | `DeliveryInv` | |
| `DeviceCommandsProofs` `TableIsHonest` | `CommandsHonest` | `CmdInv` | |
| `DeviceCommandsProofs` `StaleSessionsAreSilent` | `StaleCertificateCannotReport` | `CmdInv` | |
| `DeviceCommandsProofs` `RefusalsKeepOutcomes` | `RefusalKeepsOutcome` | `PathInv` | |
| `DeviceCommandsProofs` `NothingQueuedIsLost` | `NoLostPending` | `FlushInv` | `[]FewPending` |
| `DeviceCommandsProofs` `OutcomesAreJournalled` | `OutcomeIsJournalled` | `CmdInv` | |
| `EnrollmentProofs` `TokensAreSafe`, `MaterialIsSigned`, `TableImplementsLedger` | `TokenInv`, `UsableMaterial`, `ImplementsLedger` | `EnrollInv` | |
| `EnrollmentProofs` `IdentityStays` | `IdentityKept` | `EnrollInv`, `Storing` | |
| `PKIStoreProofs` `StoreIsSound`, `IssuedStayTrusted` | `StoreInv`, `ClientsStayTrusted` | `PKIInv` | |
| `PKIStoreProofs` `AuthorityStays` | (complete CA files are not changed) | `PKIInv` | |
| `ComplianceProofs` `QuarantineIsSound` | `ComplianceInv` | `ComplianceIInv` | |
| `AssetIdentityProofs` `AssetsAreSound` | `AssetInv` | `AssetIInv` | |
| `ServerProofs` `ServerIsSound`, `MigrationsApplyOnce` | `ServerInv` | `UserIInv`, `MigInv`, `LinkIInv` | |
| `ServerProofs` `AlertsAreSound` | `AlertInv` | `AlertIInv` | |
| `ServerProofs` `DashboardsAreSound` | `DashInv` | `DashIInv` | |
| `ServerProofs` `TransfersAreSound` | `TransferInv` | `UpIInv`, `DownIInv` | |
| `FleetProofs` `IncidentsAreSound` | `DeskInv` | `DeskIInv` | |
| `FleetProofs` `JournalsGrow` | (journals grow at the end) | `DeskIInv` | |
| `FleetProofs` `FilesAreKept` | `FilesHold` | `CatIInv`, `BackupIInv` | |
| `FleetProofs` `WipeStays` | `WipeIsKept` | `DroidInv` | |
| `FleetProofs` `DeploymentsAreHonest`, `OutcomesAreFinal` | `DeploymentsHold`, `OutcomeStays` | `DeployIInv` | |
| `FleetProofs` `ProfilesAreSound` | `ProfilesHold` | `PolIInv`, `MergeOK` | |
| `FleetProofs` `MergeTakesTheStrictest`, `MergedIsStrictest` | (of `mergeContributions`) | | `~OrderMatters` |

The hypotheses of the last column are conditions the program does not enforce, and each is
needed. The flush's SELECT has a LIMIT (`ws/pending_device_commands.go`), so more waiting
rows than that do get left behind (`FewPending`; the run's single command satisfies it). In the two cases of `OrderMatters` the merge depends on
the order of the profiles (section 5); the run checks `ProfilesHold` with the same exception.

**`C2HubProofs`**. `NewestSessionReachable` alone is not inductive: when a session
unregisters, one has to know that the map holds no session of another certificate and none
that is already gone (`RegisteredSessionIsOurs`); and that connections of a certificate are
numbered in the order in which they came (`InOrder`), so that a session registering now is
the newest. `SendingHolds` (a caller in the middle of a send holds a session and a payload)
carries the types through `DispatchEnqueue`. For `DeliveredInOrder` it adds that nothing has
passed through a session nobody registered (`UnusedIsEmpty`) and that whoever sends found its
session in the map (`SendsToUsed`).

**`DeviceCommandsProofs`**. First every step of the composition is shown to be a step of the
hub, a move of a readPump between its own stages, or a stop of the process, so the hub's part
carries over. Then the claims about rows are tied to the histories by following a command: an
issuing goroutine past its lookup has a serial (`Resolved`); a dispatcher carries its own
command (`Carries`); one whose send succeeded has its command among the accepted (`Accepted`);
what an agent works on it has received (`WorkingGot`); a result being applied or journalled is
of a command the agent received and whose row exists (`Applying`, `Journalling`).
`SentWasEnqueued` and `SuccessWasDelivered` then follow for each UPDATE. `OutcomeIsJournalled`
is preserved because every writer of an outcome goes on to its journal statement, and what
ends it there is recorded in `unnoted`. `PathInv` says which
rows exist and who is on the way with them, and that a refusal's text stands only in a failed
row. `FlushInv` says where a waiting
command is: still ahead of the flush, in a dispatcher's hand, or offered to the session
(`Kept`); a goroutine that inserts a row after the flush has listed knows the serial and
dispatches it itself (`QueuedPath`).

**`EnrollmentProofs`**. `SingleUse` needs that an attempt that holds a claim works on a row
that is marked used (`Spent`), that at most one does (`ClaimExclusive`), and that nothing has
been issued yet for its token (`SignedOnce`); `KeysSigned` says which attempts the key file of
a machine can stem from. `TableImplementsLedger` is the refinement: under the mapping in
`Enrollment` (`available` are the existing rows that are not used, `certs` counts the issued
requests per token) every step of the detailed specification is a step of `TokenLedger` or
changes nothing there. `IdentityKept` needs that a machine between two of its three files is
storing a reply of its own that it still has (`Storing`), so that every file that is removed is
removed for the sake of a certificate that was issued.

**`PKIStoreProofs`**. The intermediate's key is the last of the CA's files to be written, so a
directory that has it is complete and of one generation (`Complete`), and no process opens a
complete one for writing; the server pair is ordered the same way. `Progress` says per state
of a process how far it has read or written, `TodoShape` which files are left. `ChainsUp`
needs none of that and holds with several processes at once. `AuthorityStays` follows from the
same invariant: whoever writes while the CA is complete writes the bundle or the server pair.

**`ComplianceProofs`**. While handlers work one at a time the status a handler read is the one
it replaces, and a quarantine that is owed has a handler on its way to queue it (`AutoInv`,
`Debtor`). While each command is queued after the end of the one before, only the newest can be
under way and its success is the last word about the network (`FlagInv`). The two conditions
are the variables `alone` and `apart` of the properties themselves.

**`AssetIdentityProofs`**. The advisory lock is held by one report, from its first lookup to
the end of its transaction (`LockInv`), so what a report has found out is still true when it
writes (`Knows`): an INSERT meets no unique index. While names are not reused and changes
arrive one at a time a row differs from its device by at most the one change not stored yet
and carries nothing of another device (`OwnerInv`, `Owned`).

**`ServerProofs`**. `AreaSteps` first: for every area a step of the server is a step of that
area or leaves it alone. Then, by area:

* Start: a running process has left only recorded versions behind (`BehindIsRecorded`); a
  transaction that holds the primary key is the only one and its version is the next
  (`CommitIsNext`), which is why a commit extends the recorded versions by one.
* Link: the loops of a session have ended before the next dial (`LinkLoops`), and a session has
  closed every terminal it started but the one in `pty` (`LinkShells`).
* Accounts: a request under way names an account and a new role (`Asking`).
* Alerts: what an opening or recovery goroutine, or the engine's pass, is about was raised
  (`OpensRaised`, `RecovRaised`, `ClosedRaised`), and no step takes an alert back to none.
* Dashboards: who is registered runs, who is still to be served is registered
  (`SessionInv`, `CastInv`). A dashboard that has caught up is current only because its queue
  would make it so before: `Shows` says what a browser shows of a device once a queue has been
  written, and three lemmas say what appending and writing do to that.
* Uploads: file, queue and the part still to be sent follow one another (`UpOrder`); no begin
  is behind another message (`UpStart`), so nothing opens a file after an answer (`UpClosed`);
  on the first connection the positions are exact (`UpExact`), so finish finds the whole body.
* Downloads: response, channel, wire and the part still to be read follow one another
  (`DownOrder`); for a file smaller than the channel every message is at its place
  (`DownPlaced`), so a delivery never meets a full channel and eof comes last.

**`FleetProofs`**. By area again:

* Android: a request that holds the lock has read the row as it is now (`LockedRowStands`), so
  what it writes back is what it did not mean to change; an answer that is about to clear a
  wipe that is owed carried an earlier one (`OwedIsUncarried`).
* Service desk: a transaction that holds a row's lock has the row's newest version plus its own
  edit (`ClerkOK`, `OpenerOK`), no two hold the same row (`Apart`), and the unique index over the
  fingerprint covers what is about to be committed (`Unique`). So a commit writes the journal
  it found and at most one note more (`JournalsGrow`).
* Catalogue: a blob no PATCH has named belongs to one entry or to the requests about it
  (`Owned`, `Claims`); while an assignment is alone nothing else assigns or installs its app,
  and its row is open as long as the entry is there (`LoneInv`), so a download is refused only
  for its certificate or for the entry.
* Backup: a run past its lock holds `runMu`, and what it has published is not among what it is
  about to remove (`RunInv`).
* Deployments and automations: what an issuing goroutine, a job on the agent and the row of a
  deployment know of one another (`DepOK`, `IssOK`): a row tells an outcome only where the
  command is over or never left. A job has deployed to no target it still has before it
  (`JobOK`), and an activation that has been used is past and comes before the next one in
  the cron (`CronInv`), so no device gets two deployments of one activation (`ExactInv`).
* Policy merge: at every leaf strictness is a total order of JSON values, arrays of any length
  included (`Stricter`, `StrictnessIsOrder`, over `ArraysCompare`, `ArraysDiffer`,
  `ArraysChain`), as long as no Boolean meets null. Picking from two values takes the stricter
  (`PicksStricter`), so the loop of `restrictivePickMixed` ends with the strictest of all
  (`PicksStrictest`). The reference, `Expected`, is the strictest value by `Stricter`, which
  names no operator of the merge (`ExpectedIsStrictest`). The loop
  is a recursive function; that it exists, and what it returns for any number of values, is
  argued by a least counterexample (`Least`, which rests on the library's `WFMin`).
* Profiles: `flattenContributions` loses no value of a setting (`ContributionsAre`), so the
  profiles in conflict are a function of the set of profiles alone, `Clashing(Mates(d))`
  (`ConflictingIs`, `ListedConflicts`), and not of the order the query returned. `Told` says
  that the flags of a settled device are these; it is inductive only with `Current`: a
  computation that no edit has overtaken since its read is about to write the conflicts of the
  tables as they are now.

Only model-checked. Liveness (`DeadSessionLeaves`, `QueuedReachesAgent`,
`RecoveredIsCompliant`, `ReportsPersist` and the temporal properties of `Server`) rests on
fairness and ENABLED, which are out of this prover's reach.

## 7. Not modelled

* Audit log and the RBAC decision table: one INSERT after an answered request, and a
  table every handler checks again; no steps that could interfere.
* Knowledge articles, managed app configurations, device assignments, notification
  channels, device lock and wipe: single statements on one row, or one dispatch through
  the hub without stored state.
* Lists, details, charts, metrics, analytics: queries.
* Cryptography: a certificate is the key generations behind it. TLS, JWT and bcrypt
  either accept or refuse.
* Metric arithmetic and rule validation: a rule is firing or not.
* Platform code of the agents (package managers, enforcement, quarantine, wipe, system
  information): its outcome is a choice.
* Web dashboard and Android client: clients of the same interfaces.
* Installers, configuration, environment files, formatting, logging.

## 8. Plan

Every component with a protocol of its own is modelled, and every safety property of the
runs is proved. What is left:

1. `alone`, `apart`, `fresh` and `calm` as hypotheses on the environment's steps in place of
   ghost variables, where that makes a statement easier to read.
2. The merge of whole payloads: that `unflattenLeaves` keeps every leaf that is not in the
   place of another profile's object.
3. Managed app configurations and device assignments, should they get more than single
   statements.
