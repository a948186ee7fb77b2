----------------------------- MODULE AppCatalog -----------------------------
(***************************************************************************)
(* The app catalogue and its installs on one device: uploads staged on disk,  *)
(* entries edited and deleted, an entry assigned to the device, its command   *)
(* on the way, the agent's download of the artifact, the installer and the     *)
(* result the read pump stores.  A locator is an uploaded blob or "url".  An   *)
(* assignment refused because the entry is for another operating system         *)
(* changes nothing, so entries are those for the device's own.                 *)
(***************************************************************************)
EXTENDS Naturals, FiniteSets, Sequences

CONSTANTS
  App,         \* catalogue entries that may be created
  Blob,        \* names uploads may draw
  CatHandler,  \* requests in progress at once
  Install      \* install commands under way at once

\* The app of a request or command that is not there
Unnamed == ""

ASSUME CatAssumption == Unnamed \notin App /\ "url" \notin Blob

VARIABLES
  app,     \* app_catalog rows
  blob,    \* files under AppsRoot: "none", "partial", "file"
  row,     \* device_apps: "none" or a status
  online,  \* the device's session: "off", "on", or "other" (under a certificate that is not the asset's)
  req,     \* requests in progress
  inst,    \* install commands from their dispatch to their result
  installed,  \* history: apps whose installer has ended well
  moved    \* history: blobs a PATCH has named

catVars == <<app, blob, row, online, req, inst, installed, moved>>

NoApp == [st |-> "none", loc |-> "url"]
NoReq == [op |-> "idle", app |-> Unnamed, loc |-> "url", lone |-> FALSE]
NoInst == [st |-> "none", app |-> Unnamed, url |-> FALSE, own |-> FALSE, denied |-> FALSE, lone |-> FALSE]
Statuses == {"pending", "installing", "success", "failed"}

Entry(x) == app[x].st = "on"

CatInit ==
  /\ app = [x \in App |-> NoApp] /\ blob = [b \in Blob |-> "none"] /\ row = [x \in App |-> "none"]
  /\ online = "off"
  /\ req = [h \in CatHandler |-> NoReq] /\ inst = [k \in Install |-> NoInst] /\ installed = {} /\ moved = {}

do(h, op, x, loc) == req' = [req EXCEPT ![h] = [op |-> op, app |-> x, loc |-> loc, lone |-> FALSE]]
goto(h, op) == req' = [req EXCEPT ![h].op = op]
finish(h) == req' = [req EXCEPT ![h] = NoReq]

-----------------------------------------------------------------------------
(* The catalogue                                                            *)

\* handleCreateCatalogJSON: only a URL
CreateEntry(x) ==
  /\ app[x].st = "none" /\ \A h \in CatHandler : req[h].app # x
  /\ app' = [app EXCEPT ![x] = [st |-> "on", loc |-> "url"]]
  /\ UNCHANGED <<blob, row, online, req, inst, installed, moved>>

\* handleUploadCatalog: a fresh name, streamed to a .partial file
StartUpload(h, x, b) ==
  /\ req[h].op = "idle" /\ app[x].st = "none" /\ blob[b] = "none"
  /\ \A g \in CatHandler : req[g].app # x /\ ~(req[g].op = "insert" /\ req[g].loc = b)
  /\ blob' = [blob EXCEPT ![b] = "partial"]
  /\ do(h, "rename", x, b)
  /\ UNCHANGED <<app, row, online, inst, installed, moved>>

\* Rename, or the removal of the .partial file (whose own error is ignored)
RenameUpload(h) ==
  /\ req[h].op = "rename"
  /\ \/ blob' = [blob EXCEPT ![req[h].loc] = "file"] /\ goto(h, "insert")
     \/ \E f \in {"none", "partial"} : blob' = [blob EXCEPT ![req[h].loc] = f] /\ finish(h)
  /\ UNCHANGED <<app, row, online, inst, installed, moved>>

\* INSERT INTO app_catalog; when it fails the blob stays.
InsertUpload(h) ==
  /\ req[h].op = "insert"
  /\ \/ app' = [app EXCEPT ![req[h].app] = [st |-> "on", loc |-> req[h].loc]]
     \/ UNCHANGED app
  /\ finish(h) /\ UNCHANGED <<blob, row, online, inst, installed, moved>>

\* handlePatchCatalog reads the row, applies the fields of the request to the copy ...
ReadPatch(h, x) ==
  /\ req[h].op = "idle" /\ Entry(x)
  /\ \E loc \in {app[x].loc, "url"} \cup Blob :
       /\ do(h, "patch", x, loc)
       /\ moved' = IF loc = app[x].loc THEN moved ELSE moved \cup ({loc} \cap Blob)
  /\ UNCHANGED <<app, blob, row, online, inst, installed>>

\* ... and writes every column of it.
UpdatePatch(h) ==
  /\ req[h].op = "patch"
  /\ LET x == req[h].app IN
     app' = IF Entry(x) THEN [app EXCEPT ![x] = [st |-> "on", loc |-> req[h].loc]] ELSE app
  /\ finish(h) /\ UNCHANGED <<blob, row, online, inst, installed, moved>>

\* handleDeleteCatalog: the locator is read first,
ReadDelete(h, x) ==
  /\ req[h].op = "idle" /\ Entry(x)
  /\ do(h, "delete", x, app[x].loc)
  /\ UNCHANGED <<app, blob, row, online, inst, installed, moved>>

\* then the row goes, and with it the assignments,
DeleteEntry(h) ==
  /\ req[h].op = "delete"
  /\ LET x == req[h].app IN
     IF Entry(x)
     THEN app' = [app EXCEPT ![x] = [st |-> "deleted", loc |-> "url"]] /\ row' = [row EXCEPT ![x] = "none"] /\ goto(h, "unlink")
     ELSE UNCHANGED <<app, row>> /\ finish(h)
  /\ UNCHANGED <<blob, online, inst, installed, moved>>

\* then the file that was read, whatever refers to it now; an error is ignored.
Unlink(h) ==
  /\ req[h].op = "unlink"
  /\ IF req[h].loc \in Blob /\ blob[req[h].loc] = "file"
     THEN blob' \in {blob, [blob EXCEPT ![req[h].loc] = "none"]} ELSE UNCHANGED blob
  /\ finish(h) /\ UNCHANGED <<app, row, online, inst, installed, moved>>

-----------------------------------------------------------------------------
(* handleAssignApp                                                          *)

\* The entry is read; the locator of the copy decides what the command says.
StartAssign(h, x) ==
  /\ req[h].op = "idle" /\ Entry(x)
  /\ do(h, "upsert", x, app[x].loc)
  /\ UNCHANGED <<app, blob, row, online, inst, installed, moved>>

\* INSERT ... ON CONFLICT DO UPDATE SET status = 'pending'.  The assignment of an artifact is alone
\* when none of the app is under way, until the next one.
UpsertAssign(h) ==
  /\ req[h].op = "upsert"
  /\ LET x == req[h].app
         others == {g \in CatHandler : req[g].app = x /\ req[g].op \in {"dispatch", "sent", "refused"}}
         running == {k \in Install : inst[k].app = x} IN
     IF Entry(x)
     THEN /\ row' = [row EXCEPT ![x] = "pending"]
          /\ req' = [g \in CatHandler |->
                       IF g = h THEN [req[h] EXCEPT !.op = "dispatch", !.lone = (req[h].loc # "url" /\ others = {} /\ running = {})]
                       ELSE [req[g] EXCEPT !.lone = @ /\ g \notin others]]
          /\ inst' = [k \in Install |-> [inst[k] EXCEPT !.lone = @ /\ k \notin running]]
     ELSE UNCHANGED <<row, inst>> /\ finish(h)
  /\ UNCHANGED <<app, blob, online, installed, moved>>

\* The command names the URL, or the artifact of the app when its locator is a blob.
DispatchAssign(h) ==
  /\ req[h].op = "dispatch"
  /\ LET x == req[h].app IN
     \/ /\ online = "on" /\ do(h, "sent", x, "url")
        /\ \E k \in Install :
             /\ inst[k].st = "none"
             /\ inst' = [inst EXCEPT ![k] = [st |-> "wire", app |-> x, url |-> req[h].loc = "url", own |-> TRUE,
                                             denied |-> FALSE, lone |-> req[h].lone]]
     \/ do(h, "refused", x, "url") /\ UNCHANGED inst
  /\ UNCHANGED <<app, blob, row, online, installed, moved>>

\* UPDATE device_apps SET status, unconditional, its error ignored
StoreAssign(h) ==
  /\ req[h].op \in {"sent", "refused"}
  /\ LET x == req[h].app IN
     \/ row[x] # "none" /\ row' = [row EXCEPT ![x] = IF req[h].op = "sent" THEN "installing" ELSE "failed"]
     \/ UNCHANGED row
  /\ finish(h) /\ UNCHANGED <<app, blob, online, inst, installed, moved>>

-----------------------------------------------------------------------------
(* RunCatalogInstall                                                        *)

step(k, st) == inst' = [inst EXCEPT ![k].st = st]

\* handleDownlink starts a goroutine.
BeginInstall(k) ==
  /\ inst[k].st = "wire" /\ step(k, "get")
  /\ UNCHANGED <<app, blob, row, online, req, installed, moved>>

\* Mutant: an artifact is only served once the assignment counts as installing.
AuthorizedLate(x, known) == known /\ Entry(x) /\ row[x] = "installing"

\* handleDownload's query: an open assignment of the asset that has the certificate presented
Authorized(x, known) == known /\ Entry(x) /\ row[x] \in {"pending", "installing"}

\* downloadArtifact.  The agent reads its certificate from the disk, where an enrolment may have
\* put another and while telemetry may have given the asset another: it is known as the asset's
\* or not.  The server opens what the entry refers to now; any download may fail.
Download(k) ==
  /\ inst[k].st = "get"
  /\ \E known \in BOOLEAN :
     LET x == inst[k].app
         f == IF inst[k].url THEN "url" ELSE app[x].loc
         served == inst[k].url \/ (Authorized(x, known) /\ f \in Blob /\ blob[f] = "file") IN
     \/ served /\ inst' = [inst EXCEPT ![k] = [@ EXCEPT !.st = "have", !.url = FALSE, !.lone = FALSE]]
     \/ inst' = [inst EXCEPT ![k] = [@ EXCEPT !.st = "err", !.url = FALSE, !.lone = FALSE,
                                     !.denied = inst[k].lone /\ Entry(x) /\ known /\ ~Authorized(x, known)]]
  /\ UNCHANGED <<app, blob, row, online, req, installed, moved>>

\* executeInstaller; the downloaded copy is removed.
RunInstaller(k) ==
  /\ inst[k].st = "have"
  /\ \/ step(k, "ok") /\ installed' = installed \cup {inst[k].app}
     \/ step(k, "err") /\ UNCHANGED installed
  /\ UNCHANGED <<app, blob, row, online, req, moved>>

\* reportInstall on the connection the command came by; without it the result is lost.
\* ApplyInstallAppOutcome updates the row of the app on the asset that has the session's
\* certificate now.
ReportInstall(k) ==
  /\ inst[k].st \in {"ok", "err"} /\ inst' = [inst EXCEPT ![k] = NoInst]
  /\ LET x == inst[k].app IN
     \/ /\ inst[k].own /\ online = "on" /\ row[x] # "none"
        /\ row' = [row EXCEPT ![x] = IF inst[k].st = "ok" THEN "success" ELSE "failed"]
     \/ UNCHANGED row
  /\ UNCHANGED <<app, blob, online, req, installed, moved>>

-----------------------------------------------------------------------------
(* The session and the server process                                       *)

\* The commands of a connection that is gone: what was not delivered is lost, what runs has
\* nowhere to report to.
cut == inst' = [k \in Install |-> IF inst[k].st = "wire" THEN NoInst ELSE [inst[k] EXCEPT !.own = FALSE]]

\* The certificate it read from its disk need not be the asset's yet.
DeviceConnects ==
  /\ online = "off"
  /\ online' \in {"on", "other"} /\ UNCHANGED <<app, blob, row, req, inst, installed, moved>>

DeviceDrops ==
  /\ online # "off"
  /\ online' = "off" /\ cut /\ UNCHANGED <<app, blob, row, req, installed, moved>>

\* Telemetry with the device's hostname under a certificate that is not the asset's, which it
\* becomes: that of the session, or one of a later enrolment or of another device.
SerialMoves ==
  /\ \/ online = "other" /\ online' = "on"
     \/ online = "on" /\ online' = "other"
  /\ UNCHANGED <<app, blob, row, req, inst, installed, moved>>

\* A statement fails, or the request's context ends.
FailRequest(h) ==
  /\ req[h].op \in {"patch", "delete", "upsert"}
  /\ finish(h) /\ UNCHANGED <<app, blob, row, online, inst, installed, moved>>

\* The server process ends in the middle of its requests.
ServerStops ==
  /\ \E h \in CatHandler : req[h].op # "idle"
  /\ req' = [h \in CatHandler |-> NoReq] /\ online' = "off" /\ cut
  /\ UNCHANGED <<app, blob, row, installed, moved>>

CatNext ==
  \/ \E x \in App : CreateEntry(x)
  \/ \E h \in CatHandler :
       \/ \E x \in App : \/ \E b \in Blob : StartUpload(h, x, b)
                         \/ ReadPatch(h, x) \/ ReadDelete(h, x) \/ StartAssign(h, x)
       \/ RenameUpload(h) \/ InsertUpload(h) \/ UpdatePatch(h) \/ DeleteEntry(h) \/ Unlink(h)
       \/ UpsertAssign(h) \/ DispatchAssign(h) \/ StoreAssign(h) \/ FailRequest(h)
  \/ \E k \in Install : BeginInstall(k) \/ Download(k) \/ RunInstaller(k) \/ ReportInstall(k)
  \/ DeviceConnects \/ DeviceDrops \/ SerialMoves \/ ServerStops

-----------------------------------------------------------------------------

CatTypeOK ==
  /\ \A x \in App : app[x].st \in {"none", "on", "deleted"} /\ app[x].loc \in Blob \cup {"url"}
  /\ blob \in [Blob -> {"none", "partial", "file"}] /\ row \in [App -> Statuses \cup {"none"}]
  /\ online \in {"off", "on", "other"} /\ DOMAIN inst = Install

\* What an upload has entered can be served: until an operator names its blob in a PATCH, the
\* file an entry refers to is there and complete, whatever fails or stops on the way.
UploadsAreServed ==
  \A x \in App : Entry(x) /\ app[x].loc \in Blob \ moved => blob[app[x].loc] = "file"

\* A success on the dashboard is an installer that ended well on the device, and an app that has
\* no entry any more has no assignment.
SuccessIsInstalled ==
  \A x \in App :
    /\ row[x] = "success" => x \in installed
    /\ row[x] # "none" => Entry(x)

\* The only install of an app in progress is told that it is not authorised only when its
\* certificate is no longer, or not yet, the asset's or the entry is deleted: the row is pending before the command leaves, and stays
\* open until the command's own result.
LoneInstallIsServed == \A k \in Install : ~inst[k].denied

\* What the catalogue keeps, together.
CatInv == CatTypeOK /\ UploadsAreServed /\ SuccessIsInstalled /\ LoneInstallIsServed
=============================================================================
