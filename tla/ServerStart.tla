---------------------------- MODULE ServerStart -----------------------------
(***************************************************************************)
(* Starting the server: every process that opens the database (the server and  *)
(* the command-line tools beside it) first applies the embedded migrations      *)
(* that are not yet recorded, each in a transaction of its own, and then the    *)
(* server opens its store, starts its workers and listens.  Processes start     *)
(* together, fail, and are started again by the service manager.               *)
(***************************************************************************)
EXTENDS Naturals, Sequences

CONSTANTS
  Server,      \* processes that run runServe
  Tool,        \* processes that run RunServerSetup or an admin subcommand
  MaxMig,      \* number of embedded migrations, versions 1 .. MaxMig
  MaxFails     \* bound: failing statements and processes that end

ASSUME StartAssumption == MaxMig \in Nat /\ MaxFails \in Nat

VARIABLES
  recorded,  \* arx_schema_migrations
  applied,   \* the versions whose statements were committed, in order
  proc,      \* "down", "check", "sql", "record", "commit", "boot", "up", with the version in hand
  fails

startVars == <<recorded, applied, proc, fails>>
Proc == Server \cup Tool

StartInit ==
  /\ recorded = {} /\ applied = <<>> /\ fails = 0
  /\ proc = [p \in Proc |-> [pc |-> "down", v |-> 1]]

at(p, label) == proc[p].pc = label
step(p, label) == proc' = [proc EXCEPT ![p].pc = label]

\* connectDatabasePool, CREATE TABLE IF NOT EXISTS, loadMigrations
Launch(p) ==
  /\ at(p, "down")
  /\ proc' = [proc EXCEPT ![p] = [pc |-> "check", v |-> 1]] /\ UNCHANGED <<recorded, applied, fails>>

\* Mutant: what is recorded is not looked at.
CheckMigrationNever(p) ==
  /\ at(p, "check")
  /\ step(p, IF proc[p].v > MaxMig THEN "boot" ELSE "sql")
  /\ UNCHANGED <<recorded, applied, fails>>

\* SELECT EXISTS: a recorded version is skipped.
CheckMigration(p) ==
  /\ at(p, "check")
  /\ IF proc[p].v > MaxMig THEN step(p, "boot")
     ELSE IF proc[p].v \in recorded THEN proc' = [proc EXCEPT ![p].v = @ + 1]
     ELSE step(p, "sql")
  /\ UNCHANGED <<recorded, applied, fails>>

\* The migration's statements.  On a schema that has them already they fail or, written with
\* IF NOT EXISTS, do nothing.
ExecMigration(p) ==
  /\ at(p, "sql")
  /\ \/ step(p, "record")
     \/ proc[p].v \in recorded /\ step(p, "down")
  /\ UNCHANGED <<recorded, applied, fails>>

\* Mutant: INSERT ... ON CONFLICT DO NOTHING
RecordMigrationAnyway(p) ==
  /\ at(p, "record")
  /\ step(p, "commit") /\ UNCHANGED <<recorded, applied, fails>>

\* INSERT INTO arx_schema_migrations: the primary key makes it wait for another transaction
\* with the same version, and fail when that one has committed.
RecordMigration(p) ==
  /\ at(p, "record")
  /\ \A q \in Proc \ {p} : ~(at(q, "commit") /\ proc[q].v = proc[p].v)
  /\ step(p, IF proc[p].v \in recorded THEN "down" ELSE "commit")
  /\ UNCHANGED <<recorded, applied, fails>>

CommitMigration(p) ==
  /\ at(p, "commit")
  /\ recorded' = recorded \cup {proc[p].v} /\ applied' = Append(applied, proc[p].v)
  /\ proc' = [proc EXCEPT ![p] = [pc |-> "check", v |-> @.v + 1]] /\ UNCHANGED fails

\* runServe after Migrate: store, workers, first administrator, listener; a tool ends.
FinishStart(p) ==
  /\ at(p, "boot")
  /\ step(p, IF p \in Server THEN "up" ELSE "down") /\ UNCHANGED <<recorded, applied, fails>>

\* An error of any step, a timeout, a signal: the transaction is rolled back, the process ends.
EndProcess(p) ==
  /\ ~at(p, "down") /\ fails < MaxFails
  /\ step(p, "down") /\ fails' = fails + 1 /\ UNCHANGED <<recorded, applied>>

Starts(p) == \/ CheckMigration(p) \/ ExecMigration(p) \/ RecordMigration(p)
             \/ CommitMigration(p) \/ FinishStart(p)

StartNext == \E p \in Proc : Launch(p) \/ Starts(p) \/ EndProcess(p)

StartSpec == StartInit /\ [][StartNext]_startVars

-----------------------------------------------------------------------------

StartTypeOK ==
  /\ recorded \subseteq 1 .. MaxMig /\ fails <= MaxFails
  /\ \A p \in Proc : proc[p].v \in 1 .. MaxMig + 1

\* "records applied versions in arx_schema_migrations and only runs pending steps": however
\* many processes start together and wherever they fail, each migration is committed once, in the
\* order of the versions, and a server that serves has all of them.
MigratedOnce ==
  /\ \A i \in DOMAIN applied : applied[i] = i
  /\ recorded = 1 .. Len(applied)
  /\ \A p \in Proc : proc[p].pc \in {"boot", "up"} => recorded = 1 .. MaxMig

StartInv == StartTypeOK /\ MigratedOnce
=============================================================================
