------------------------------- MODULE Fleet --------------------------------
(***************************************************************************)
(* What operators ask of the fleet and what the server keeps of it: packages    *)
(* and their deployments, automations, the app catalogue, configuration         *)
(* profiles, Android policies, incidents and backups.  These areas have tables    *)
(* of their own and write none of another's, so one area moves and the others     *)
(* rest in their first state.                                                  *)
(***************************************************************************)
EXTENDS Automations, AppCatalog, Policy, AndroidPolicy, Backup, ServiceDesk

VARIABLE area

vars == <<area, autoVars, catVars, mergeVars, polVars, droidVars, backupVars, deskVars>>

Init ==
  /\ AutoInit /\ CatInit /\ MergeInit /\ PolInit /\ DroidInit /\ BackupInit /\ DeskInit
  /\ area \in {"deploy", "cron", "catalog", "merge", "policy", "droid", "backup", "desk"}
  /\ area \notin {"deploy", "cron"} => cert = [a \in Asset |-> 0]
  /\ area # "merge" => leaf = "plain" /\ parts = <<Null>>

\* Operators deploy packages while the server may end at any moment.
Deploys ==
  /\ area = "deploy" /\ (DepNext \/ StopIssuers)
  /\ UNCHANGED <<area, cronVars, catVars, mergeVars, polVars, droidVars, backupVars, deskVars>>
\* The scheduler deploys them; meanwhile operators do not, no device enrols and packages keep
\* their command.
Schedules ==
  /\ area = "cron" /\ AutoNext /\ UNCHANGED cert
  /\ (\A h \in Handler : iss'[h].pc = "idle") /\ \A p \in Pkg : pkg'[p] # "nocmd"
  /\ UNCHANGED <<area, catVars, mergeVars, polVars, droidVars, backupVars, deskVars>>
Catalogue ==
  /\ area = "catalog" /\ CatNext
  /\ UNCHANGED <<area, autoVars, mergeVars, polVars, droidVars, backupVars, deskVars>>
Profiles ==
  /\ area = "policy" /\ PolNext
  /\ UNCHANGED <<area, autoVars, catVars, mergeVars, droidVars, backupVars, deskVars>>
Android ==
  /\ area = "droid" /\ DroidNext
  /\ UNCHANGED <<area, autoVars, catVars, mergeVars, polVars, backupVars, deskVars>>
Backups ==
  /\ area = "backup" /\ BackupNext
  /\ UNCHANGED <<area, autoVars, catVars, mergeVars, polVars, droidVars, deskVars>>
Incidents ==
  /\ area = "desk" /\ DeskNext
  /\ UNCHANGED <<area, autoVars, catVars, mergeVars, polVars, droidVars, backupVars>>

Next == Deploys \/ Schedules \/ Catalogue \/ Profiles \/ Android \/ Backups \/ Incidents

Spec == Init /\ [][Next]_vars

-----------------------------------------------------------------------------

\* What deployments and scheduled jobs keep: rows tell the truth of the device, and no
\* activation is doubled or outlives its automation.
DeploymentsHold == DeployInv /\ JobsAreExact

\* Requests and installs of the catalogue are interchangeable.
CatSymmetry == Permutations(CatHandler) \cup Permutations(Install)

\* What is kept in files: an uploaded artifact is there for the device that may have it, and a
\* backup remains whatever fails.
FilesHold == CatInv /\ BackupInv

\* What profiles keep: merged settings are the strictest, and flags tell conflicts.
ProfilesHold == PolicyInv /\ MergeIsRestrictive
=============================================================================
