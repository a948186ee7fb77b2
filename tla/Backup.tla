------------------------------- MODULE Backup -------------------------------
(***************************************************************************)
(* The backup engine: scheduled runs and runs an administrator triggers, one    *)
(* at a time, each dumping the database, writing an archive in a staging        *)
(* directory, publishing it by a rename and pruning what is older than the      *)
(* retention.  Time is counted in days.  Several archives of a day differ by    *)
(* the second in their name.                                                  *)
(***************************************************************************)
EXTENDS Naturals, FiniteSets

CONSTANTS
  Runner,      \* runs that may be asked for at once
  Second,      \* seconds of a day at which archives are named
  Retention,   \* RetentionDays
  MaxDay       \* bound: days

\* parseRetentionDays
ASSUME BackupAssumption == Retention \in Nat \ {0} /\ MaxDay \in Nat

\* Nobody holds runMu.
NoHolder == ""

ASSUME RunnerAssumption == NoHolder \notin Runner

VARIABLES
  day,
  bk,      \* per run: its step and the archive it stages
  runMu,   \* the run that holds runMu, NoHolder for none
  store,   \* archives in the storage directory: name, day written, whether complete
  ever     \* history: an archive has been published

backupVars == <<day, bk, runMu, store, ever>>

NoRun == [pc |-> "idle", file |-> [name |-> <<>>, day |-> 0, whole |-> FALSE], todo |-> {}]

BackupInit ==
  /\ day = 0 /\ bk = [r \in Runner |-> NoRun] /\ runMu = NoHolder /\ store = {} /\ ever = FALSE

\* The deferred Unlock and the removal of the staging directory
endRun(r) == bk' = [bk EXCEPT ![r] = NoRun] /\ runMu' = NoHolder

\* RunOnce from the cron's job or from handleTrigger
AskBackup(r) ==
  /\ bk[r].pc = "idle"
  /\ bk' = [bk EXCEPT ![r].pc = "lock"] /\ UNCHANGED <<day, runMu, store, ever>>

\* runMu.Lock, MkdirTemp
LockRun(r) ==
  /\ bk[r].pc = "lock" /\ runMu = NoHolder
  /\ runMu' = r /\ bk' = [bk EXCEPT ![r].pc = "dump"] /\ UNCHANGED <<day, store, ever>>

\* execPgDump, the look at the PKI directory, and the name of the archive
DumpDatabase(r) ==
  /\ bk[r].pc = "dump"
  /\ \E s \in Second : bk' = [bk EXCEPT ![r].pc = "write", ![r].file.name = <<day, s>>]
  /\ UNCHANGED <<day, runMu, store, ever>>

\* writeBackupArchive
WriteArchive(r) ==
  /\ bk[r].pc = "write"
  /\ bk' = [bk EXCEPT ![r].pc = "publish", ![r].file.day = day, ![r].file.whole = TRUE]
  /\ UNCHANGED <<day, runMu, store, ever>>

\* os.Rename replaces an archive of the same second.
PublishArchive(r) ==
  /\ bk[r].pc = "publish"
  /\ store' = {a \in store : a.name # bk[r].file.name} \cup {bk[r].file} /\ ever' = TRUE
  /\ bk' = [bk EXCEPT ![r].pc = "prune"] /\ UNCHANGED <<day, runMu>>

\* PruneOlderThan: the names in the directory and the cutoff
ListArchives(r) ==
  /\ bk[r].pc = "prune"
  /\ bk' = [bk EXCEPT ![r].pc = "remove", ![r].todo = {a \in store : a.day + Retention < day}]
  /\ UNCHANGED <<day, runMu, store, ever>>

RemoveArchive(r) ==
  /\ bk[r].pc = "remove" /\ bk[r].todo # {}
  /\ \E a \in bk[r].todo :
       /\ store' \in {store \ {a}, store}
       /\ bk' = [bk EXCEPT ![r].todo = @ \ {a}]
  /\ UNCHANGED <<day, runMu, ever>>

EndBackup(r) ==
  /\ bk[r].pc = "remove" /\ bk[r].todo = {}
  /\ endRun(r) /\ UNCHANGED <<day, store, ever>>

\* Mutant: a run that fails prunes all the same.
FailBackupPrunes(r) ==
  /\ bk[r].pc \in {"dump", "write", "publish"}
  /\ bk' = [bk EXCEPT ![r].pc = "prune"] /\ UNCHANGED <<day, runMu, store, ever>>

\* A failing step, or the end of the caller's context, ends the run without pruning.
FailBackup(r) ==
  /\ bk[r].pc \in {"dump", "write", "publish", "prune", "remove"}
  /\ endRun(r) /\ UNCHANGED <<day, store, ever>>

\* The server process ends; a staging directory it leaves is never read again.
StopEngine ==
  /\ bk' = [r \in Runner |-> NoRun] /\ runMu' = NoHolder /\ runMu # NoHolder
  /\ UNCHANGED <<day, store, ever>>

\* A run does not take longer than a day from its archive to its end.
NextDay ==
  /\ day < MaxDay
  /\ \A r \in Runner : bk[r].pc \in {"publish", "prune", "remove"} => bk[r].file.day = day
  /\ day' = day + 1 /\ UNCHANGED <<bk, runMu, store, ever>>

BackupNext ==
  \/ \E r \in Runner : \/ AskBackup(r) \/ LockRun(r) \/ DumpDatabase(r) \/ WriteArchive(r)
                       \/ PublishArchive(r) \/ ListArchives(r) \/ RemoveArchive(r)
                       \/ EndBackup(r) \/ FailBackup(r)
  \/ StopEngine \/ NextDay

-----------------------------------------------------------------------------

\* What the storage directory lists is whole, whatever run failed or process ended meanwhile, no
\* two archives have one name, and once there was a backup there always is one: retention removes
\* old archives only behind a new one.
BackupInv ==
  /\ day \in 0 .. MaxDay /\ runMu \in Runner \cup {NoHolder}
  /\ \A a \in store : a.whole /\ \A b \in store : a.name = b.name => a = b
  /\ ever => store # {}
=============================================================================
