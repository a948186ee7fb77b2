---------------------------- MODULE ServerProofs ----------------------------
(***************************************************************************)
(* What the server's goroutines and the agent's connection keep true.         *)
(***************************************************************************)
EXTENDS Server, SequenceTheorems, FiniteSetTheorems, TLAPS

-----------------------------------------------------------------------------
(* Starting processes. *)

Label == {"down", "check", "sql", "record", "commit", "boot", "up"}

MigTypes ==
  /\ proc \in [Proc -> [pc : Label, v : Nat]] /\ applied \in Seq(Nat) /\ fails \in Nat
  /\ StartTypeOK

\* A running process has left only recorded versions behind.
BehindIsRecorded == \A p \in Proc : ~at(p, "down") => proc[p].v <= Len(applied) + 1

\* One in the middle of a version works on one that exists.
InHandExists == \A p \in Proc : proc[p].pc \in {"sql", "record", "commit"} => proc[p].v <= MaxMig

\* A transaction that holds the primary key is alone with it, and is the next to be recorded.
CommitIsNext ==
  /\ \A p \in Proc : at(p, "commit") => proc[p].v = Len(applied) + 1
  /\ \A p, q \in Proc : at(p, "commit") /\ at(q, "commit") => p = q

MigInv == MigTypes /\ MigratedOnce /\ BehindIsRecorded /\ InHandExists /\ CommitIsNext

USE StartAssumption

\* What is in the table counts at most the embedded migrations.
LEMMA AppliedBound == ASSUME MigInv PROVE Len(applied) \in Nat /\ Len(applied) <= MaxMig
<1>1. Len(applied) \in Nat  BY DEF MigInv, MigTypes
<1>2. 1 .. Len(applied) \subseteq 1 .. MaxMig  BY DEF MigInv, MigTypes, StartTypeOK, MigratedOnce
<1>3. CASE Len(applied) = 0  BY <1>3
<1>4. CASE Len(applied) # 0
  <2>1. Len(applied) \in 1 .. Len(applied)  BY <1>1, <1>4
  <2> QED BY <2>1, <1>2, <1>1
<1> QED BY <1>1, <1>3, <1>4

\* The first state satisfies the invariant.
LEMMA StartInitInv == StartInit => MigInv
<1> SUFFICES ASSUME StartInit PROVE MigInv
  OBVIOUS
<1>1. applied = <<>> /\ Len(applied) = 0 /\ recorded = {} /\ fails = 0  BY DEF StartInit
<1>2. \A p \in Proc : proc[p].pc = "down" /\ proc[p].v = 1  BY DEF StartInit
<1>3. proc \in [Proc -> [pc : Label, v : Nat]]  BY DEF StartInit, Label
<1>4. MigTypes  BY <1>1, <1>2, <1>3 DEF MigTypes, StartTypeOK
<1>5. MigratedOnce  BY <1>1, <1>2 DEF MigratedOnce
<1> QED BY <1>1, <1>2, <1>4, <1>5 DEF MigInv, BehindIsRecorded, InHandExists, CommitIsNext, at

\* A step that leaves the table alone keeps the invariant when the process it moves is where
\* it may be.
LEMMA MoveKeeps ==
  ASSUME MigInv, NEW p \in Proc, NEW l \in Label, NEW v \in 1 .. MaxMig + 1,
         proc' = [proc EXCEPT ![p] = [pc |-> l, v |-> v]],
         UNCHANGED <<recorded, applied>>, fails' \in Nat, fails' <= MaxFails,
         l # "down" => v <= Len(applied) + 1,
         l \in {"sql", "record", "commit"} => v <= MaxMig,
         l = "commit" => v = Len(applied) + 1 /\ \A q \in Proc \ {p} : ~at(q, "commit"),
         l \in {"boot", "up"} => recorded = 1 .. MaxMig
  PROVE  MigInv'
<1>1. proc'[p].pc = l /\ proc'[p].v = v /\ \A q \in Proc \ {p} : proc'[q] = proc[q]
  BY DEF MigInv, MigTypes
<1>2. proc' \in [Proc -> [pc : Label, v : Nat]]  BY DEF MigInv, MigTypes
<1>3. MigTypes'  BY <1>1, <1>2 DEF MigInv, MigTypes, StartTypeOK
<1>4. MigratedOnce'  BY <1>1 DEF MigInv, MigratedOnce
<1>5. BehindIsRecorded'  BY <1>1 DEF MigInv, BehindIsRecorded, at
<1>6. InHandExists'  BY <1>1 DEF MigInv, InHandExists
<1>7. CommitIsNext'
  <2>1. \A q \in Proc : at(q, "commit")' => proc'[q].v = Len(applied') + 1
    BY <1>1 DEF MigInv, CommitIsNext, at
  <2>2. \A q, r \in Proc : at(q, "commit")' /\ at(r, "commit")' => q = r
    BY <1>1 DEF MigInv, CommitIsNext, at
  <2> QED BY <2>1, <2>2 DEF CommitIsNext
<1> QED BY <1>3, <1>4, <1>5, <1>6, <1>7 DEF MigInv

\* The commit of a migration records the next version.
LEMMA CommitKeeps == ASSUME MigInv, NEW p \in Proc, CommitMigration(p) PROVE MigInv'
<1> DEFINE n == Len(applied)
<1>1. n \in Nat /\ n <= MaxMig  BY AppliedBound
<1>2. proc[p].pc = "commit" /\ proc[p].v = n + 1 /\ n + 1 <= MaxMig
  BY DEF CommitMigration, at, MigInv, CommitIsNext, InHandExists
<1>3. \A q \in Proc \ {p} : proc[q].pc # "commit"
  BY <1>2 DEF MigInv, CommitIsNext, at
<1>4. recorded = 1 .. n /\ recorded' = 1 .. n + 1
  <2>1. recorded = 1 .. n  BY DEF MigInv, MigratedOnce
  <2>2. recorded' = recorded \cup {n + 1}  BY <1>2 DEF CommitMigration
  <2> QED BY <2>1, <2>2, <1>1
<1>5. applied' \in Seq(Nat) /\ Len(applied') = n + 1 /\ \A i \in DOMAIN applied' : applied'[i] = i
  <2>1. applied' = Append(applied, n + 1) /\ applied \in Seq(Nat) /\ DOMAIN applied = 1 .. n
    BY <1>2 DEF CommitMigration, MigInv, MigTypes
  <2>2. Len(applied') = n + 1 /\ applied' \in Seq(Nat) /\ DOMAIN applied' = 1 .. n + 1
    BY <2>1, <1>1
  <2>3. applied'[n + 1] = n + 1 /\ \A i \in 1 .. n : applied'[i] = applied[i]  BY <2>1, <1>1
  <2>4. \A i \in 1 .. n : applied[i] = i  BY <2>1 DEF MigInv, MigratedOnce
  <2> QED BY <2>2, <2>3, <2>4, <1>1
<1>6. proc'[p] = [pc |-> "check", v |-> n + 2] /\ \A q \in Proc \ {p} : proc'[q] = proc[q]
  BY <1>1, <1>2 DEF CommitMigration, MigInv, MigTypes
<1>7. proc' \in [Proc -> [pc : Label, v : Nat]]
  BY <1>1, <1>2 DEF CommitMigration, MigInv, MigTypes, Label
<1>8. MigTypes'
  BY <1>1, <1>2, <1>4, <1>5, <1>6, <1>7 DEF CommitMigration, MigInv, MigTypes, StartTypeOK
<1>9. MigratedOnce'
  <2>1. \A q \in Proc : proc'[q].pc \notin {"boot", "up"}
    <3>1. \A q \in Proc : proc[q].pc \notin {"boot", "up"}
      BY <1>1, <1>2, <1>4 DEF MigInv, MigratedOnce
    <3> QED BY <3>1, <1>6
  <2> QED BY <2>1, <1>4, <1>5 DEF MigratedOnce
<1>10. BehindIsRecorded'
  <2>1. \A q \in Proc : proc[q].pc # "down" => proc[q].v \in Nat /\ proc[q].v <= n + 1
    BY DEF MigInv, MigTypes, BehindIsRecorded, at
  <2>2. \A q \in Proc : proc'[q].pc # "down" => proc'[q].v <= (n + 1) + 1
    BY <2>1, <1>1, <1>6
  <2> QED BY <2>2, <1>5 DEF BehindIsRecorded, at
<1>11. InHandExists'  BY <1>6 DEF MigInv, InHandExists
<1>12. CommitIsNext'  BY <1>3, <1>6 DEF CommitIsNext, at
<1> QED BY <1>8, <1>9, <1>10, <1>11, <1>12 DEF MigInv

\* Every other step moves one process as MoveKeeps allows.
LEMMA ProcessKeeps ==
  ASSUME MigInv, NEW p \in Proc, Launch(p) \/ Starts(p) \/ EndProcess(p)
  PROVE  MigInv'
<1> DEFINE v == proc[p].v
<1>1. Len(applied) \in Nat /\ Len(applied) <= MaxMig  BY AppliedBound
<1>2. v \in 1 .. MaxMig + 1 /\ fails \in Nat /\ fails <= MaxFails /\ recorded = 1 .. Len(applied)
  BY DEF MigInv, MigTypes, StartTypeOK, MigratedOnce
<1>3. proc \in [Proc -> [pc : Label, v : Nat]]  BY DEF MigInv, MigTypes
<1>4. \A l : step(p, l) => proc' = [proc EXCEPT ![p] = [pc |-> l, v |-> v]]
  BY <1>3 DEF step
<1>5. CASE Launch(p)
  <2>1. proc' = [proc EXCEPT ![p] = [pc |-> "check", v |-> 1]] /\ UNCHANGED <<recorded, applied, fails>>
    BY <1>5 DEF Launch
  <2>2. 1 \in 1 .. MaxMig + 1 /\ 1 <= Len(applied) + 1 /\ "check" \in Label  BY <1>1 DEF Label
  <2> QED BY <2>1, <2>2, <1>2, MoveKeeps
<1>6. CASE CheckMigration(p)
  <2>1. UNCHANGED <<recorded, applied, fails>> /\ v <= Len(applied) + 1
    BY <1>6 DEF CheckMigration, MigInv, BehindIsRecorded, at
  <2>2. CASE v > MaxMig
    <3>1. proc' = [proc EXCEPT ![p] = [pc |-> "boot", v |-> v]]  BY <1>4, <1>6, <2>2 DEF CheckMigration
    <3>2. Len(applied) = MaxMig  BY <1>1, <1>2, <2>1, <2>2
    <3> QED BY <3>1, <3>2, <2>1, <1>2, MoveKeeps DEF Label
  <2>3. CASE ~(v > MaxMig) /\ v \in recorded
    <3>1. proc' = [proc EXCEPT ![p] = [pc |-> "check", v |-> v + 1]]
      BY <1>3, <1>6, <2>3 DEF CheckMigration, at
    <3>2. v + 1 \in 1 .. MaxMig + 1 /\ v + 1 <= Len(applied) + 1  BY <1>1, <1>2, <2>3
    <3> QED BY <3>1, <3>2, <2>1, <1>2, MoveKeeps DEF Label
  <2>4. CASE ~(v > MaxMig) /\ v \notin recorded
    <3>1. proc' = [proc EXCEPT ![p] = [pc |-> "sql", v |-> v]]  BY <1>4, <1>6, <2>4 DEF CheckMigration
    <3>2. v <= MaxMig  BY <1>2, <2>4
    <3> QED BY <3>1, <3>2, <2>1, <1>2, MoveKeeps DEF Label
  <2> QED BY <2>2, <2>3, <2>4
<1>7. CASE ExecMigration(p)
  <2>1. PICK l \in {"record", "down"} : proc' = [proc EXCEPT ![p] = [pc |-> l, v |-> v]]
    BY <1>4, <1>7 DEF ExecMigration
  <2>2. UNCHANGED <<recorded, applied, fails>> /\ v <= Len(applied) + 1 /\ v <= MaxMig
    BY <1>7 DEF ExecMigration, MigInv, BehindIsRecorded, InHandExists, at
  <2> QED BY <2>1, <2>2, <1>2, MoveKeeps DEF Label
<1>8. CASE RecordMigration(p)
  <2>1. UNCHANGED <<recorded, applied, fails>> /\ v <= Len(applied) + 1 /\ v <= MaxMig
    BY <1>8 DEF RecordMigration, MigInv, BehindIsRecorded, InHandExists, at
  <2>2. CASE v \in recorded
    <3>1. proc' = [proc EXCEPT ![p] = [pc |-> "down", v |-> v]]  BY <1>4, <1>8, <2>2 DEF RecordMigration
    <3> QED BY <3>1, <2>1, <1>2, MoveKeeps DEF Label
  <2>3. CASE v \notin recorded
    <3>1. proc' = [proc EXCEPT ![p] = [pc |-> "commit", v |-> v]]  BY <1>4, <1>8, <2>3 DEF RecordMigration
    <3>2. v = Len(applied) + 1  BY <1>1, <1>2, <2>1, <2>3
    <3>3. \A q \in Proc \ {p} : ~at(q, "commit")
      BY <3>2, <1>8 DEF RecordMigration, MigInv, CommitIsNext
    <3> QED BY <3>1, <3>2, <3>3, <2>1, <1>2, MoveKeeps DEF Label
  <2> QED BY <2>2, <2>3
<1>9. CASE FinishStart(p)
  <2>1. PICK l \in {"up", "down"} : proc' = [proc EXCEPT ![p] = [pc |-> l, v |-> v]]
    BY <1>4, <1>9 DEF FinishStart
  <2>2. UNCHANGED <<recorded, applied, fails>> /\ v <= Len(applied) + 1 /\ recorded = 1 .. MaxMig
    BY <1>9 DEF FinishStart, MigInv, BehindIsRecorded, MigratedOnce, at
  <2> QED BY <2>1, <2>2, <1>2, MoveKeeps DEF Label
<1>10. CASE EndProcess(p)
  <2>1. proc' = [proc EXCEPT ![p] = [pc |-> "down", v |-> v]] /\ UNCHANGED <<recorded, applied>>
    BY <1>4, <1>10 DEF EndProcess
  <2>2. fails' \in Nat /\ fails' <= MaxFails  BY <1>2, <1>10 DEF EndProcess
  <2> QED BY <2>1, <2>2, <1>2, MoveKeeps DEF Label
<1> QED BY <1>5, <1>6, <1>7, <1>8, <1>9, <1>10, CommitKeeps DEF Starts

\* Every step of every process preserves it.
LEMMA StartStep == MigInv /\ [StartNext]_startVars => MigInv'
<1> SUFFICES ASSUME MigInv, [StartNext]_startVars PROVE MigInv'
  OBVIOUS
<1>1. CASE UNCHANGED startVars
  BY <1>1 DEF startVars, MigInv, MigTypes, StartTypeOK, MigratedOnce, BehindIsRecorded,
              InHandExists, CommitIsNext, at
<1>2. CASE StartNext  BY <1>2, ProcessKeeps DEF StartNext
<1> QED BY <1>1, <1>2

\* However many processes start together and wherever they fail, each migration is committed
\* once, in the order of the versions, and a server that serves has all of them.
THEOREM MigrationsApplyOnce == StartSpec => []StartInv
<1>1. MigInv => StartInv  BY DEF MigInv, MigTypes, StartInv
<1> QED BY StartInitInv, StartStep, <1>1, PTL DEF StartSpec

HIDE StartAssumption

-----------------------------------------------------------------------------
(* The agent's link. *)

\* The loops of a session end before Run dials again.
LinkLoops ==
  /\ run \in {"dial", "wait", "serve", "join", "dead"} /\ sock \in {"none", "good", "broken", "closed"}
  /\ cmd \in {"off", "read", "answer", "stdin"} /\ tel \in {"off", "idle", "write"}
  /\ sync \in {"off", "idle", "fetch"} /\ tty \in {"off", "read", "write"} /\ mu \in {Nobody, "cmd", "out"}
  /\ wr \in {"ok", "fatal"} /\ deadline \in {"none", "ahead", "past"}
  /\ run \in {"dial", "wait", "dead"} => cmd = "off" /\ tel = "off" /\ sync = "off"
  /\ run = "join" => cmd = "off"

\* A session has closed what it started, save its terminal.
LinkShells ==
  /\ started \in Nat /\ started <= MaxShell /\ pty \in 0 .. started
  /\ \A s \in shells : s \in 1 .. started
  /\ \A s \in owned : s \in 1 .. started /\ (s \in shells => s = pty)

LinkTroubles == trouble \in Nat /\ trouble <= MaxTrouble

LinkIInv == LinkLoops /\ LinkShells /\ LinkTroubles

USE LinkAssumption

\* The agent begins with no session.
LEMMA LinkInitInv == LinkInit => LinkIInv
BY DEF LinkInit, LinkIInv, LinkLoops, LinkShells, LinkTroubles

\* Every step of the agent's loops, and whatever happens to them, preserves it.
LEMMA LinkStep == LinkIInv /\ [LinkNext]_linkVars => LinkIInv'
<1>1. ASSUME LinkIInv, UNCHANGED linkVars PROVE LinkIInv'
  BY <1>1 DEF LinkIInv, LinkLoops, LinkShells, LinkTroubles, linkVars, sockVars, loops, term
<1>2. ASSUME LinkIInv, LinkNext PROVE LinkIInv'
  <2>1. LinkLoops /\ LinkShells /\ LinkTroubles  BY <1>2 DEF LinkIInv
  <2>2. ASSUME UNCHANGED <<pty, shells, owned, started>> PROVE LinkShells'  BY <2>1, <2>2 DEF LinkShells
  <2>3. ASSUME UNCHANGED term PROVE LinkShells'  BY <2>2, <2>3 DEF term
  <2>4. ASSUME trouble' = trouble \/ mishap PROVE LinkTroubles'  BY <2>1, <2>4 DEF LinkTroubles, mishap
  <2>5. ASSUME Dial PROVE LinkIInv'
    <3>1. LinkLoops'  BY <2>1, <2>5 DEF Dial, LinkLoops
    <3>2. LinkShells'  BY <2>1, <2>5 DEF Dial, LinkShells
    <3> QED BY <2>4, <2>5, <3>1, <3>2 DEF Dial, LinkIInv
  <2>6. ASSUME DialFails \/ Backoff \/ EndCommands \/ Join \/ Break \/ Supervise PROVE LinkIInv'
    <3>1. LinkLoops'
      BY <2>1, <2>6 DEF DialFails, Backoff, EndCommands, Join, Break, Supervise, LinkLoops, sockVars, loops, term
    <3>2. UNCHANGED term /\ (trouble' = trouble \/ mishap)
      BY <2>6 DEF DialFails, Backoff, EndCommands, Join, Break, Supervise
    <3> QED BY <2>3, <2>4, <3>1, <3>2 DEF LinkIInv
  <2>7. ASSUME Crash, mishap PROVE LinkIInv'
    <3>1. LinkLoops'  BY <2>1, <2>7 DEF Crash, LinkLoops
    <3>2. LinkShells'  BY <2>1, <2>7 DEF Crash, LinkShells
    <3> QED BY <2>4, <2>7, <3>1, <3>2 DEF LinkIInv
  <2>8. ASSUME DeadlinePasses \/ SendTelemetry \/ CollectFails \/ TickTelemetry \/ SyncPolicy \/ TickSync PROVE LinkIInv'
    <3>1. LinkLoops'
      BY <2>1, <2>8 DEF DeadlinePasses, SendTelemetry, CollectFails, TickTelemetry, SyncPolicy, TickSync,
           LinkLoops, sockVars, loops, term
    <3>2. UNCHANGED term /\ (trouble' = trouble \/ mishap)
      BY <2>8 DEF DeadlinePasses, SendTelemetry, CollectFails, TickTelemetry, SyncPolicy, TickSync
    <3> QED BY <2>3, <2>4, <3>1, <3>2 DEF LinkIInv
  <2>9. ASSUME ReadFails \/ Execute \/ Answer \/ WriteStdin \/ StdinTaken PROVE LinkIInv'
    <3>1. LinkLoops'
      BY <2>1, <2>9 DEF ReadFails, Execute, Answer, WriteStdin, StdinTaken, written, LinkLoops, sockVars, term
    <3>2. UNCHANGED <<pty, shells, owned, started, trouble>>
      BY <2>9 DEF ReadFails, Execute, Answer, WriteStdin, StdinTaken, term
    <3> QED BY <2>2, <2>4, <3>1, <3>2 DEF LinkIInv
  <2>10. ASSUME StartPTY PROVE LinkIInv'
    <3>1. LinkLoops'  BY <2>1, <2>10 DEF StartPTY, LinkLoops, sockVars
    <3>2. ASSUME started' = started + 1, pty' = started + 1, owned' = owned \cup {started + 1},
                 shells' = (shells \ {pty}) \cup {started + 1}
          PROVE  LinkShells'
      <4>1. started < MaxShell  BY <2>10 DEF StartPTY
      <4> QED BY <2>1, <3>2, <4>1 DEF LinkShells
    <3>3. ASSUME pty' = 0, shells' = shells \ {pty}, UNCHANGED <<started, owned>> PROVE LinkShells'
      BY <2>1, <3>3 DEF LinkShells
    <3>4. \/ /\ started' = started + 1 /\ pty' = started + 1 /\ owned' = owned \cup {started + 1}
             /\ shells' = (shells \ {pty}) \cup {started + 1}
          \/ pty' = 0 /\ shells' = shells \ {pty} /\ UNCHANGED <<started, owned>>
      BY <2>10, Zenon DEF StartPTY
    <3>5. LinkShells'  BY <3>2, <3>3, <3>4
    <3> QED BY <2>4, <2>10, <3>1, <3>5 DEF StartPTY, LinkIInv
  <2>11. ASSUME ClosePTY \/ TurnDeaf \/ Hears \/ (\E s \in shells : ShellExits(s)) PROVE LinkIInv'
    <3>1. UNCHANGED <<run, sock, wr, deadline, cmd, tel, sync, tty, mu, owned, started>>
          /\ (trouble' = trouble \/ mishap)
      BY <2>11 DEF ClosePTY, TurnDeaf, Hears, ShellExits, sockVars, loops
    <3>2. \/ shells' = shells \ {pty} /\ pty' = 0
          \/ pty' = pty /\ (shells' = shells \/ \E s \in shells : shells' = shells \ {s})
      BY <2>11 DEF ClosePTY, TurnDeaf, Hears, ShellExits
    <3>3. LinkLoops'  BY <2>1, <3>1 DEF LinkLoops
    <3>4. LinkShells'  BY <2>1, <3>1, <3>2 DEF LinkShells
    <3> QED BY <2>4, <3>1, <3>3, <3>4 DEF LinkIInv
  <2>12. ASSUME ReadOutput \/ WriteOutput PROVE LinkIInv'
    <3>1. LinkLoops'  BY <2>1, <2>12 DEF ReadOutput, WriteOutput, written, LinkLoops, sockVars, loops
    <3>2. UNCHANGED <<pty, shells, owned, started, trouble>>  BY <2>12 DEF ReadOutput, WriteOutput
    <3> QED BY <2>2, <2>4, <3>1, <3>2 DEF LinkIInv
  <2> QED BY <1>2, <2>5, <2>6, <2>7, <2>8, <2>9, <2>10, <2>11, <2>12 DEF LinkNext, Kill, Collide
<1> QED BY <1>1, <1>2

\* It says what the runs check.
LEMMA LinkInvHolds == LinkIInv => LinkInv
BY DEF LinkIInv, LinkLoops, LinkShells, LinkTroubles, LinkInv, LinkTypeOK, SessionsApart

HIDE LinkAssumption

-----------------------------------------------------------------------------
(* Accounts. *)

\* A request under way names an account and a new role.
Asking == \A h \in AdminCall : stage[h] # "idle" => req[h].target \in User /\ req[h].to \in Role \cup {"deleted"}
UserIInv == UserTypeOK /\ Asking

USE UserAssumption

\* Before the first start there is no account.
LEMMA UserInitInv == UserInit => UserIInv
BY DEF UserInit, UserIInv, UserTypeOK, Asking, NoReq

\* The accounts keep their types.
LEMMA UserStep == UserIInv /\ [UserNext]_userVars => UserIInv'
<1>1. ASSUME UserIInv, UNCHANGED userVars PROVE UserIInv'
  BY <1>1 DEF userVars, UserIInv, UserTypeOK, Asking
<1>2. ASSUME UserIInv, UserNext PROVE UserIInv'
  <2>1. UserTypeOK /\ Asking  BY <1>2 DEF UserIInv
  <2>2. ASSUME NEW u \in User, NEW r \in Role, insert(u, r) PROVE role' \in [User -> Role \cup {"unused", "deleted"}]
    BY <2>1, <2>2 DEF insert, UserTypeOK
  <2>3. ASSUME NEW h \in AdminCall, finish(h)
        PROVE  /\ stage' \in [AdminCall -> {"idle", "role", "count", "write"}]
               /\ req' \in [AdminCall -> [target : User \cup {Blank}, to : Role \cup {"deleted", Blank}]] /\ Asking'
    BY <2>1, <2>3 DEF finish, UserTypeOK, Asking, NoReq
  <2>4. ASSUME Start \/ BootCount \/ BootInsert \/ Stop PROVE UserIInv'
    <3>1. CASE Start \/ BootCount  BY <2>1, <3>1 DEF Start, BootCount, UserIInv, UserTypeOK, Asking
    <3>2. CASE BootInsert
      <4>1. role' \in [User -> Role \cup {"unused", "deleted"}]
        BY <2>1, <2>2, <3>2 DEF BootInsert, UserTypeOK, Role
      <4> QED BY <2>1, <3>2, <4>1 DEF BootInsert, UserIInv, UserTypeOK, Asking
    <3>3. CASE Stop  BY <2>1, <3>3 DEF Stop, UserIInv, UserTypeOK, Asking, NoReq
    <3> QED BY <2>4, <3>1, <3>2, <3>3
  <2>5. ASSUME NEW u \in User, CreateUser(u) \/ ApiCreate(u) PROVE UserIInv'
    <3>1. role' \in [User -> Role \cup {"unused", "deleted"}] /\ UNCHANGED <<boot, login, token, stage, req>>
      BY <2>2, <2>5 DEF CreateUser, ApiCreate
    <3> QED BY <2>1, <3>1 DEF UserIInv, UserTypeOK, Asking
  <2>6. ASSUME NEW u \in User, LoginRead(u) \/ LoginIssue(u) \/ \E r \in Role : Expire(u, r) PROVE UserIInv'
    <3>1. /\ login' \in [User -> Role \cup {Blank}] /\ token' \in [User -> SUBSET Role]
          /\ UNCHANGED <<role, boot, stage, req>>
      BY <2>1, <2>6 DEF LoginRead, LoginIssue, Expire, UserTypeOK, Rows
    <3> QED BY <2>1, <3>1 DEF UserIInv, UserTypeOK, Asking
  <2>7. ASSUME NEW h \in AdminCall, Patch(h) \/ Delete(h) PROVE UserIInv'
    <3>1. PICK u \in User, r \in Role \cup {"deleted"} : receive(h, u, r)  BY <2>7 DEF Patch, Delete
    <3>2. stage' = [stage EXCEPT ![h] = "role"] /\ req' = [req EXCEPT ![h] = [target |-> u, to |-> r]]
          /\ UNCHANGED <<role, boot, login, token>>
      BY <3>1 DEF receive
    <3> QED BY <2>1, <3>2 DEF UserIInv, UserTypeOK, Asking
  <2>8. ASSUME NEW h \in AdminCall, ReadRole(h) \/ Count(h) PROVE UserIInv'
    <3>1. UNCHANGED <<role, boot, login, token>>  BY <2>8 DEF ReadRole, Count
    <3>2. CASE finish(h)  BY <2>1, <2>3, <3>1, <3>2 DEF UserIInv, UserTypeOK
    <3>3. CASE \E l \in {"count", "write"} : stage' = [stage EXCEPT ![h] = l] /\ UNCHANGED req /\ stage[h] # "idle"
      BY <2>1, <3>1, <3>3 DEF UserIInv, UserTypeOK, Asking
    <3> QED BY <2>8, <3>2, <3>3 DEF ReadRole, Count
  <2>9. ASSUME NEW h \in AdminCall, Write(h) \/ Abort(h) PROVE UserIInv'
    <3>1. finish(h) /\ UNCHANGED <<boot, login, token>> /\ stage[h] # "idle"
          /\ role' \in {role, [role EXCEPT ![req[h].target] = req[h].to]}
      BY <2>9 DEF Write, Abort
    <3>2. role' \in [User -> Role \cup {"unused", "deleted"}]  BY <2>1, <3>1 DEF UserTypeOK, Asking
    <3> QED BY <2>1, <2>3, <3>1, <3>2 DEF UserIInv, UserTypeOK
  <2> QED BY <1>2, <2>4, <2>5, <2>6, <2>7, <2>8, <2>9 DEF UserNext
<1> QED BY <1>1, <1>2

HIDE UserAssumption

-----------------------------------------------------------------------------
(* Alerts. *)

\* The conditions, the two tables, the engine's pass, and the goroutines, by part
CondTypes == offline \in BOOLEAN /\ breach \subseteq RuleMetric /\ enabled \subseteq Rules
TableTypes ==
  /\ alert \in [FP -> {"none", "open", "resolved"}] /\ incident \in [FP -> IncidentState]
  /\ noted \subseteq FP /\ told \subseteq FP
PassTypes ==
  /\ eng \in {"idle", "builtin", "rules", "metric", "return"}
  /\ todo \subseteq Rules /\ pend \subseteq FP /\ desired \subseteq FP /\ closed \subseteq RuleOffline
  /\ beat \in {"idle", "seen", "resolved"}
QueueTypes == queue \in Seq(FP) /\ Len(queue) <= QueueCap /\ events \in 0 .. MaxEvents
Recovery == [fps : (SUBSET FP) \ {{}}, via : {"tick", "beat"}, live : BOOLEAN]

\* What a goroutine is about was raised: fingerprints to open an incident for, those of recoveries,
\* and those the pass has closed and not yet handed on.
Raised(f) == alert[f] # "none"
OpensRaised == opens \subseteq Critical /\ \A f \in opens : Raised(f)
IncidentsRaised == \A f \in FP : incident[f] # "none" => Raised(f) /\ f \in Critical
RecovRaised == recov \subseteq Recovery /\ \A j \in recov : \A f \in j.fps : Raised(f)
ClosedRaised == \A f \in closed : Raised(f)

\* The invariant of the engine: types, and nothing is about an alert that was not raised.
AlertIInv ==
  /\ CondTypes /\ TableTypes /\ PassTypes /\ QueueTypes
  /\ OpensRaised /\ IncidentsRaised /\ RecovRaised /\ ClosedRaised

USE AlertAssumption

\* Nothing has been raised at first.
LEMMA AlertInitInv == AlertInit => AlertIInv
<1> SUFFICES ASSUME AlertInit PROVE AlertIInv
  OBVIOUS
<1>1. CondTypes  BY DEF AlertInit, CondTypes
<1>2. TableTypes  BY DEF AlertInit, TableTypes, IncidentState
<1>3. PassTypes  BY DEF AlertInit, PassTypes
<1>4. QueueTypes  BY DEF AlertInit, QueueTypes
<1>5. OpensRaised /\ IncidentsRaised /\ RecovRaised /\ ClosedRaised
  BY DEF AlertInit, OpensRaised, IncidentsRaised, RecovRaised, ClosedRaised
<1> QED BY <1>1, <1>2, <1>3, <1>4, <1>5 DEF AlertIInv

\* No step takes an alert back to what was never raised.
StaysRaised == TableTypes' /\ \A f \in FP : Raised(f) => Raised(f)'

\* What the invariant says, part by part
LEMMA AlertFacts ==
  ASSUME AlertIInv
  PROVE  /\ CondTypes /\ TableTypes /\ PassTypes /\ QueueTypes
         /\ OpensRaised /\ IncidentsRaised /\ RecovRaised /\ ClosedRaised
BY DEF AlertIInv

\* Parts that a step leaves alone stay as they are.
LEMMA AlertRest ==
  ASSUME AlertIInv
  PROVE  /\ UNCHANGED condVars => CondTypes'
         /\ UNCHANGED <<alert, incident, noted, told>> => StaysRaised
         /\ UNCHANGED <<engVars, beat>> => PassTypes'
         /\ UNCHANGED <<queue, events>> => QueueTypes'
         /\ queue' = queue /\ event => QueueTypes'
         /\ StaysRaised /\ UNCHANGED opens => OpensRaised'
         /\ StaysRaised /\ UNCHANGED incident => IncidentsRaised'
         /\ StaysRaised /\ UNCHANGED recov => RecovRaised'
         /\ StaysRaised /\ (closed' = closed \/ closed' = {}) => ClosedRaised'
<1>1. /\ CondTypes /\ TableTypes /\ PassTypes /\ QueueTypes
      /\ OpensRaised /\ IncidentsRaised /\ RecovRaised /\ ClosedRaised
  BY AlertFacts
<1>2. UNCHANGED condVars => CondTypes'  BY <1>1 DEF condVars, CondTypes
<1>3. UNCHANGED <<alert, incident, noted, told>> => StaysRaised  BY <1>1 DEF TableTypes, StaysRaised, Raised
<1>4. UNCHANGED <<engVars, beat>> => PassTypes'  BY <1>1 DEF engVars, PassTypes
<1>5. UNCHANGED <<queue, events>> => QueueTypes'  BY <1>1 DEF QueueTypes
<1>6. queue' = queue /\ event => QueueTypes'  BY <1>1 DEF QueueTypes, event
<1>7. StaysRaised /\ UNCHANGED opens => OpensRaised'  BY <1>1 DEF OpensRaised, StaysRaised
<1>8. StaysRaised /\ UNCHANGED incident => IncidentsRaised'  BY <1>1 DEF IncidentsRaised, StaysRaised
<1>9. StaysRaised /\ UNCHANGED recov => RecovRaised'
  <2>1. \A j \in recov : j.fps \subseteq FP  BY <1>1 DEF RecovRaised, Recovery
  <2> QED BY <1>1, <2>1 DEF RecovRaised, StaysRaised
<1>10. StaysRaised /\ (closed' = closed \/ closed' = {}) => ClosedRaised'
  <2>1. closed \subseteq FP  BY <1>1 DEF PassTypes, FP
  <2> QED BY <1>1, <2>1 DEF ClosedRaised, StaysRaised
<1> QED BY <1>2, <1>3, <1>4, <1>5, <1>6, <1>7, <1>8, <1>9, <1>10

\* Closing open alerts, and handing them to a recovery
LEMMA AlertResolves ==
  ASSUME AlertIInv, NEW F, F \subseteq Open, resolve(F), UNCHANGED <<incident, noted, told>>
  PROVE  StaysRaised /\ \A f \in F : f \in FP /\ Raised(f) /\ Raised(f)'
<1>1. TableTypes  BY AlertFacts
<1>2. F \subseteq FP /\ \A f \in F : alert[f] = "open"  BY DEF Open
<1>3. alert' = [f \in FP |-> IF f \in F THEN "resolved" ELSE alert[f]]  BY DEF resolve
<1> QED BY <1>1, <1>2, <1>3 DEF TableTypes, StaysRaised, Raised

\* A recovery goroutine started for alerts that were raised is about raised alerts only.
LEMMA AlertSubmits ==
  ASSUME AlertIInv, StaysRaised, NEW F, NEW via \in {"tick", "beat"}, F \subseteq FP, \A f \in F : Raised(f)', submit(F, via)
  PROVE  RecovRaised'
<1>1. RecovRaised  BY AlertFacts
<1>2. \A j \in recov : j.fps \subseteq FP  BY <1>1 DEF RecovRaised, Recovery
<1>3. CASE F = {}  BY <1>1, <1>2, <1>3 DEF submit, RecovRaised, StaysRaised
<1>4. CASE F # {}
  <2>1. PICK j : j = job(F, via)  OBVIOUS
  <2>2. j \in Recovery /\ j.fps = F  BY <1>4, <2>1 DEF job, Recovery
  <2>3. recov' = recov \cup {j}  BY <1>4, <2>1 DEF submit
  <2> QED BY <1>1, <1>2, <2>2, <2>3 DEF RecovRaised, StaysRaised
<1> QED BY <1>3, <1>4

\* The end of a call's context changes no recovery but its context.
LEMMA AlertContexts ==
  ASSUME AlertIInv, StaysRaised, NEW via, endContexts(via)
  PROVE  RecovRaised'
<1>1. RecovRaised  BY AlertFacts
<1>2. ASSUME NEW k \in recov' PROVE k \in Recovery /\ \E j \in recov : k.fps = j.fps
  <2>1. PICK j \in recov : k = IF j.via = via THEN [j EXCEPT !.live = FALSE] ELSE j  BY <1>2 DEF endContexts
  <2>2. j \in Recovery  BY <1>1 DEF RecovRaised
  <2> QED BY <2>1, <2>2 DEF Recovery
<1>3. \A j \in recov : j.fps \subseteq FP  BY <1>1 DEF RecovRaised, Recovery
<1> QED BY <1>1, <1>2, <1>3 DEF RecovRaised, StaysRaised

\* The engine's pass preserves the invariant.
LEMMA AlertPass ==
  ASSUME AlertIInv, Tick \/ CloseBuiltin \/ CloseRuleOffline \/ CloseRuleMetric \/ Return \/ PassFails
  PROVE  AlertIInv'
<1>0. CondTypes /\ PassTypes /\ QueueTypes /\ ClosedRaised  BY AlertFacts
<1>1. UNCHANGED condVars /\ UNCHANGED <<incident, noted, told, opens, queue, beat>> /\ (events' = events \/ event)
  BY DEF Tick, CloseBuiltin, CloseRuleOffline, CloseRuleMetric, Return, PassFails
<1>2. CondTypes' /\ QueueTypes' /\ (UNCHANGED alert => StaysRaised)  BY <1>1, AlertRest
<1>3. \A K : CloseExcept(K) \subseteq Open  BY DEF CloseExcept
<1>4. ASSUME StaysRaised, PassTypes', RecovRaised', ClosedRaised' PROVE AlertIInv'
  <2>1. TableTypes'  BY <1>4 DEF StaysRaised
  <2> QED BY <1>1, <1>2, <1>4, <2>1, AlertRest DEF AlertIInv
<1>5. CASE Tick
  <2>1. PassTypes'  BY <1>0, <1>5 DEF Tick, PassTypes, FP
  <2> QED BY <1>2, <1>4, <1>5, <2>1, AlertRest DEF Tick
<1>6. CASE CloseBuiltin
  <2>1. resolve(CloseExcept(Builtin)) /\ submit(CloseExcept(Builtin), "tick")  BY <1>6 DEF CloseBuiltin
  <2>2. StaysRaised /\ \A f \in CloseExcept(Builtin) : f \in FP /\ Raised(f)'
    BY <1>1, <1>3, <2>1, AlertResolves
  <2>3. RecovRaised'  BY <2>1, <2>2, AlertSubmits
  <2>4. PassTypes' /\ closed' = closed  BY <1>0, <1>1, <1>6 DEF CloseBuiltin, PassTypes, CondTypes, FP
  <2> QED BY <1>4, <2>2, <2>3, <2>4, AlertRest
<1>7. CASE CloseRuleOffline
  <2>1. resolve(CloseExcept(RuleOffline)) /\ closed' = CloseExcept(RuleOffline)  BY <1>7 DEF CloseRuleOffline
  <2>2. StaysRaised /\ \A f \in CloseExcept(RuleOffline) : f \in FP /\ Raised(f)'
    BY <1>1, <1>3, <2>1, AlertResolves
  <2>3. ClosedRaised'  BY <2>1, <2>2 DEF ClosedRaised
  <2>4. PassTypes' /\ recov' = recov  BY <1>0, <1>1, <1>7 DEF CloseRuleOffline, PassTypes, CloseExcept
  <2> QED BY <1>4, <2>2, <2>3, <2>4, AlertRest
<1>8. CASE CloseRuleMetric
  <2>1. resolve(CloseExcept(RuleMetric)) /\ submit(closed \cup CloseExcept(RuleMetric), "tick") /\ closed' = {}
    BY <1>8 DEF CloseRuleMetric
  <2>2. StaysRaised /\ \A f \in CloseExcept(RuleMetric) : f \in FP /\ Raised(f)'
    BY <1>1, <1>3, <2>1, AlertResolves
  <2>3. \A f \in closed : f \in FP /\ Raised(f)'  BY <1>0, <2>2 DEF ClosedRaised, StaysRaised, PassTypes, FP
  <2>4. PICK F : F = closed \cup CloseExcept(RuleMetric)  OBVIOUS
  <2>5. F \subseteq FP /\ (\A f \in F : Raised(f)') /\ submit(F, "tick")  BY <2>1, <2>2, <2>3, <2>4
  <2>6. RecovRaised'  BY <2>2, <2>5, AlertSubmits
  <2>7. PassTypes'  BY <1>0, <1>1, <1>8 DEF CloseRuleMetric, PassTypes
  <2> QED BY <1>4, <2>1, <2>2, <2>6, <2>7, AlertRest
<1>9. CASE Return
  <2>1. UNCHANGED <<alert, closed>> /\ endContexts("tick")  BY <1>9 DEF Return
  <2>2. PassTypes'  BY <1>0, <1>1, <1>9 DEF Return, PassTypes
  <2> QED BY <1>2, <1>4, <2>1, <2>2, AlertRest, AlertContexts
<1>10. CASE PassFails
  <2>1. UNCHANGED <<alert, recov>> /\ closed' = {}  BY <1>10 DEF PassFails
  <2>2. PassTypes'  BY <1>0, <1>1, <1>10 DEF PassFails, PassTypes, CondTypes
  <2> QED BY <1>2, <1>4, <2>1, <2>2, AlertRest
<1> QED BY <1>5, <1>6, <1>7, <1>8, <1>9, <1>10

\* What is done for one fingerprint preserves the invariant.
LEMMA AlertSingle ==
  ASSUME AlertIInv, NEW f \in FP,
         \/ CheckRule(f) \/ Upsert(f) \/ RuleUpsertFails(f) \/ OpenIncident(f)
         \/ SwitchRule(f) \/ ResolveActiveAlertByID(f) \/ PatchIncident(f) \/ CooldownOver(f)
  PROVE  AlertIInv'
<1>0. /\ CondTypes /\ TableTypes /\ PassTypes /\ QueueTypes
      /\ OpensRaised /\ IncidentsRaised /\ RecovRaised /\ ClosedRaised
  BY AlertFacts
<1>1. ASSUME CondTypes', StaysRaised, PassTypes', QueueTypes', OpensRaised', IncidentsRaised', RecovRaised', ClosedRaised'
      PROVE  AlertIInv'
  BY <1>1 DEF StaysRaised, AlertIInv
<1>2. CASE CheckRule(f)
  <2>1. UNCHANGED <<condVars, alert, noted, incident, closed, opens, recov, beat, queue, told>> /\ (events' = events \/ event)
    BY <1>2 DEF CheckRule
  <2>2. PassTypes'  BY <1>0, <1>2 DEF CheckRule, PassTypes
  <2> QED BY <1>1, <2>1, <2>2, AlertRest
<1>3. CASE Upsert(f)
  <2>1. UNCHANGED <<condVars, incident, eng, todo, desired, closed, recov, beat, events>>  BY <1>3 DEF Upsert
  <2>2. alert' = [alert EXCEPT ![f] = "open"] /\ noted' = noted \cup {f} /\ told' \in {told, told \ {f}}
        /\ opens' \in {opens, opens \cup {f}} /\ (opens' # opens => f \in Critical) /\ pend' = pend \ {f}
    BY <1>3 DEF Upsert
  <2>3. StaysRaised /\ Raised(f)'  BY <1>0, <2>1, <2>2 DEF TableTypes, StaysRaised, Raised
  <2>4. OpensRaised'  BY <1>0, <2>2, <2>3 DEF OpensRaised, StaysRaised
  <2>5. PassTypes'  BY <1>0, <2>1, <2>2 DEF PassTypes
  <2>6. queue' = queue \/ (Len(queue) < QueueCap /\ queue' = Append(queue, f))  BY <1>3 DEF Upsert, Notify
  <2>7. QueueTypes'  BY <1>0, <2>1, <2>6 DEF QueueTypes
  <2> QED BY <1>1, <2>1, <2>3, <2>4, <2>5, <2>7, AlertRest
<1>4. CASE RuleUpsertFails(f)
  <2>1. UNCHANGED <<condVars, alert, noted, incident, closed, opens, recov, beat, queue, told>> /\ event
    BY <1>4 DEF RuleUpsertFails
  <2>2. PassTypes'  BY <1>0, <1>4 DEF RuleUpsertFails, PassTypes
  <2> QED BY <1>1, <2>1, <2>2, AlertRest
<1>5. ASSUME NEW s \in IncidentState, incident' = [incident EXCEPT ![f] = s], UNCHANGED <<alert, noted, told>>,
             s # "none" => Raised(f) /\ f \in Critical
      PROVE  StaysRaised /\ IncidentsRaised'
  BY <1>0, <1>5 DEF StaysRaised, TableTypes, IncidentsRaised, Raised
<1>6. CASE OpenIncident(f)
  <2>1. UNCHANGED <<condVars, alert, noted, engVars, recov, beat, queue, told>> /\ (events' = events \/ event)
        /\ f \in opens /\ opens' = opens \ {f}
    BY <1>6 DEF OpenIncident
  <2>2. UpsertedState(incident[f]) \in IncidentState  BY <1>0 DEF UpsertedState, TableTypes, IncidentState
  <2>3. Raised(f) /\ f \in Critical  BY <1>0, <2>1 DEF OpensRaised
  <2>4. incident' = incident \/ incident' = [incident EXCEPT ![f] = UpsertedState(incident[f])]  BY <1>6 DEF OpenIncident
  <2>5. StaysRaised /\ IncidentsRaised'  BY <1>5, <2>1, <2>2, <2>3, <2>4, AlertRest
  <2>6. OpensRaised'  BY <1>0, <2>1, <2>5 DEF OpensRaised, StaysRaised
  <2>7. closed' = closed  BY <2>1 DEF engVars
  <2> QED BY <1>1, <2>1, <2>5, <2>6, <2>7, AlertRest
<1>7. CASE SwitchRule(f)
  <2>1. UNCHANGED <<alert, noted, incident, engVars, opens, recov, beat, queue, told>> /\ event  BY <1>7 DEF SwitchRule
  <2>2. CondTypes'  BY <1>0, <1>7 DEF SwitchRule, CondTypes
  <2>3. closed' = closed  BY <2>1 DEF engVars
  <2> QED BY <1>1, <2>1, <2>2, <2>3, AlertRest
<1>8. CASE ResolveActiveAlertByID(f)
  <2>1. UNCHANGED <<condVars, noted, incident, engVars, opens, recov, beat, queue, told>> /\ event /\ resolve({f})
        /\ alert[f] = "open"
    BY <1>8 DEF ResolveActiveAlertByID
  <2>2. {f} \subseteq Open  BY <2>1 DEF Open
  <2>3. StaysRaised  BY <2>1, <2>2, AlertResolves
  <2>4. closed' = closed  BY <2>1 DEF engVars
  <2> QED BY <1>1, <2>1, <2>3, <2>4, AlertRest
<1>9. CASE PatchIncident(f)
  <2>1. UNCHANGED <<condVars, alert, noted, engVars, opens, recov, beat, queue, told>> /\ event /\ incident[f] # "none"
    BY <1>9 DEF PatchIncident
  <2>2. PICK s \in IncidentState : incident' = [incident EXCEPT ![f] = s]  BY <1>9 DEF PatchIncident, IncidentState
  <2>3. Raised(f) /\ f \in Critical  BY <1>0, <2>1 DEF IncidentsRaised
  <2>4. StaysRaised /\ IncidentsRaised'  BY <1>5, <2>1, <2>2, <2>3
  <2>5. closed' = closed  BY <2>1 DEF engVars
  <2> QED BY <1>1, <2>1, <2>4, <2>5, AlertRest
<1>10. CASE CooldownOver(f)
  <2>1. UNCHANGED <<condVars, alert, incident, engVars, opens, recov, beat, queue, told, events>> /\ noted' = noted \ {f}
    BY <1>10 DEF CooldownOver
  <2>2. StaysRaised  BY <1>0, <2>1 DEF StaysRaised, TableTypes, Raised
  <2>3. closed' = closed  BY <2>1 DEF engVars
  <2> QED BY <1>1, <2>1, <2>2, <2>3, AlertRest
<1> QED BY <1>2, <1>3, <1>4, <1>6, <1>7, <1>8, <1>9, <1>10

\* Recoveries, telemetry, the dispatcher and the end of the process preserve the invariant.
LEMMA AlertOthers ==
  ASSUME AlertIInv,
         \/ \E j \in recov : AutoResolve(j)
         \/ Heartbeat \/ OnHeartbeat \/ TelemetryReturns \/ Conditions \/ DeliverNotice \/ Restart
  PROVE  AlertIInv'
<1>0. /\ CondTypes /\ TableTypes /\ PassTypes /\ QueueTypes
      /\ OpensRaised /\ IncidentsRaised /\ RecovRaised /\ ClosedRaised
  BY AlertFacts
<1>1. ASSUME CondTypes', StaysRaised, PassTypes', QueueTypes', OpensRaised', IncidentsRaised', RecovRaised', ClosedRaised'
      PROVE  AlertIInv'
  BY <1>1 DEF StaysRaised, AlertIInv
<1>2. ASSUME NEW j \in recov, AutoResolve(j) PROVE AlertIInv'
  <2>1. UNCHANGED <<condVars, alert, noted, engVars, opens, beat, queue, told>> /\ (events' = events \/ event)
    BY <1>2 DEF AutoResolve
  <2>2. closed' = closed  BY <2>1 DEF engVars
  <2>3. j \in Recovery /\ \A f \in j.fps : f \in FP /\ Raised(f)  BY <1>0 DEF RecovRaised, Recovery
  <2>4. ASSUME NEW f \in j.fps, incident' = [incident EXCEPT ![f] =
                          IF incident[f] \in {"new", "in_progress", "on_hold"} THEN "resolved" ELSE incident[f]]
        PROVE  StaysRaised /\ IncidentsRaised'
    BY <1>0, <2>1, <2>3, <2>4 DEF StaysRaised, TableTypes, IncidentsRaised, Raised, IncidentState
  <2>5. ASSUME StaysRaised, recov' = recov \ {j} PROVE RecovRaised'
    <3>1. \A k \in recov : k.fps \subseteq FP  BY <1>0 DEF RecovRaised, Recovery
    <3> QED BY <1>0, <2>5, <3>1 DEF RecovRaised, StaysRaised
  <2>6. ASSUME NEW f \in j.fps, StaysRaised,
               recov' = (recov \ {j}) \cup (IF j.fps = {f} THEN {} ELSE {[j EXCEPT !.fps = j.fps \ {f}]})
        PROVE  RecovRaised'
    <3>1. CASE j.fps = {f}  BY <2>5, <2>6, <3>1
    <3>2. CASE j.fps # {f}
      <4>1. PICK G : G = j.fps \ {f}  OBVIOUS
      <4>2. G \subseteq FP /\ G # {} /\ G \subseteq j.fps  BY <2>3, <2>6, <3>2, <4>1
      <4>3. PICK k : k = [j EXCEPT !.fps = G]  OBVIOUS
      <4>4. k \in Recovery /\ k.fps = G  BY <2>3, <4>2, <4>3 DEF Recovery
      <4>5. recov' = (recov \ {j}) \cup {k}  BY <2>6, <3>2, <4>1, <4>3
      <4>6. \A x \in recov : x.fps \subseteq FP  BY <1>0 DEF RecovRaised, Recovery
      <4> QED BY <1>0, <2>3, <2>6, <4>2, <4>4, <4>5, <4>6 DEF RecovRaised, StaysRaised
    <3> QED BY <3>1, <3>2
  <2>7. CASE \E f \in j.fps :
               /\ incident' = [incident EXCEPT ![f] =
                     IF incident[f] \in {"new", "in_progress", "on_hold"} THEN "resolved" ELSE incident[f]]
               /\ recov' = (recov \ {j}) \cup (IF j.fps = {f} THEN {} ELSE {[j EXCEPT !.fps = j.fps \ {f}]})
    BY <1>1, <2>1, <2>2, <2>4, <2>6, <2>7, AlertRest
  <2>8. CASE recov' = recov \ {j} /\ UNCHANGED incident
    BY <1>1, <2>1, <2>2, <2>5, <2>8, AlertRest
  <2> QED BY <1>2, <2>7, <2>8 DEF AutoResolve
<1>3. CASE Heartbeat
  <2>1. UNCHANGED <<alert, noted, incident, engVars, opens, recov, queue, told>> /\ event /\ UNCHANGED <<breach, enabled>>
        /\ offline' = FALSE /\ beat' = "seen"
    BY <1>3 DEF Heartbeat
  <2>2. PassTypes' /\ closed' = closed  BY <1>0, <2>1 DEF PassTypes, engVars
  <2>3. CondTypes'  BY <1>0, <2>1 DEF CondTypes
  <2> QED BY <1>1, <2>1, <2>2, <2>3, AlertRest
<1>4. CASE OnHeartbeat
  <2>1. UNCHANGED <<condVars, noted, incident, engVars, opens, queue, told>> /\ (events' = events \/ event)
        /\ beat' \in {"resolved", "idle"}
    BY <1>4 DEF OnHeartbeat
  <2>2. PassTypes' /\ closed' = closed  BY <1>0, <2>1 DEF PassTypes, engVars
  <2>3. CASE resolve(Offline \cap Open) /\ submit(Offline \cap Open, "beat")
    <3>1. PICK F : F = Offline \cap Open  OBVIOUS
    <3>2. F \subseteq Open /\ resolve(F) /\ submit(F, "beat")  BY <2>3, <3>1
    <3>3. StaysRaised /\ \A f \in F : f \in FP /\ Raised(f)'  BY <2>1, <3>2, AlertResolves
    <3>4. RecovRaised'  BY <3>2, <3>3, AlertSubmits
    <3> QED BY <1>1, <2>1, <2>2, <3>3, <3>4, AlertRest
  <2>4. CASE UNCHANGED <<alert, recov>>  BY <1>1, <2>1, <2>2, <2>4, AlertRest
  <2> QED BY <1>4, <2>3, <2>4 DEF OnHeartbeat
<1>5. CASE TelemetryReturns
  <2>1. UNCHANGED <<condVars, alert, noted, incident, engVars, opens, queue, told, events>> /\ beat' = "idle"
        /\ endContexts("beat")
    BY <1>5 DEF TelemetryReturns
  <2>2. PassTypes' /\ closed' = closed  BY <1>0, <2>1 DEF PassTypes, engVars
  <2> QED BY <1>1, <2>1, <2>2, AlertRest, AlertContexts
<1>6. CASE Conditions
  <2>1. UNCHANGED <<enabled, alert, noted, incident, engVars, opens, recov, beat, queue, told>> /\ event
    BY <1>6 DEF Conditions
  <2>2. CondTypes'  BY <1>0, <1>6 DEF Conditions, CondTypes
  <2>3. closed' = closed  BY <2>1 DEF engVars
  <2> QED BY <1>1, <2>1, <2>2, <2>3, AlertRest
<1>7. CASE DeliverNotice
  <2>1. UNCHANGED <<condVars, alert, noted, incident, engVars, opens, recov, beat>> /\ (events' = events \/ event)
        /\ queue # << >> /\ queue' = Tail(queue) /\ (told' = told \/ told' = told \cup ({Head(queue)} \cap Open))
    BY <1>7 DEF DeliverNotice
  <2>2. StaysRaised  BY <1>0, <2>1 DEF StaysRaised, TableTypes, Raised, Open
  <2>3. QueueTypes'  BY <1>0, <2>1 DEF QueueTypes, event
  <2>4. closed' = closed  BY <2>1 DEF engVars
  <2> QED BY <1>1, <2>1, <2>2, <2>3, <2>4, AlertRest
<1>8. CASE Restart
  <2>1. UNCHANGED <<condVars, alert, noted, incident, told>> /\ event /\ closed' = {} /\ opens' = {} /\ recov' = {}
        /\ queue' = << >>
    BY <1>8 DEF Restart
  <2>2. PassTypes'  BY <1>0, <1>8 DEF Restart, PassTypes
  <2>3. QueueTypes'  BY <1>0, <2>1 DEF QueueTypes, event
  <2>4. OpensRaised' /\ RecovRaised'  BY <2>1 DEF OpensRaised, RecovRaised
  <2> QED BY <1>1, <2>1, <2>2, <2>3, <2>4, AlertRest
<1> QED BY <1>2, <1>3, <1>4, <1>5, <1>6, <1>7, <1>8

\* Every step preserves it.
LEMMA AlertStep == AlertIInv /\ [AlertNext]_alertVars => AlertIInv'
<1>1. ASSUME AlertIInv, UNCHANGED alertVars PROVE AlertIInv'
  <2>1. /\ UNCHANGED condVars /\ UNCHANGED <<alert, incident, noted, told>> /\ UNCHANGED <<engVars, beat>>
        /\ UNCHANGED <<queue, events>> /\ UNCHANGED <<opens, recov, closed>>
    BY <1>1 DEF alertVars, engVars
  <2>2. StaysRaised  BY <1>1, <2>1, AlertRest
  <2> QED BY <1>1, <2>1, <2>2, AlertRest DEF AlertIInv, StaysRaised
<1>2. ASSUME AlertIInv, AlertNext PROVE AlertIInv'
  BY <1>2, AlertPass, AlertSingle, AlertOthers DEF AlertNext
<1> QED BY <1>1, <1>2

\* It says what the runs check.
LEMMA AlertInvHolds == AlertIInv => AlertInv
<1> SUFFICES ASSUME AlertIInv PROVE AlertInv
  OBVIOUS
<1>1. AlertTypeOK
  BY AlertFacts DEF CondTypes, TableTypes, PassTypes, QueueTypes, OpensRaised, RecovRaised, Recovery, AlertTypeOK
<1>2. IncidentHasAlert  BY AlertFacts DEF OpensRaised, IncidentsRaised, RecovRaised, Raised, IncidentHasAlert
<1> QED BY <1>1, <1>2 DEF AlertInv

HIDE AlertAssumption

-----------------------------------------------------------------------------
(* Dashboards. *)

USE DashAssumption

\* A message names devices with a version; a session is a record of these fields.
Msg == SUBSET (Source \X (0 .. MaxVer))
\* Where a registered session is
Live == {"snap", "send", "list", "loop", "drop"}
Session == [pc : {"off", "close", "gone"} \cup Live, q : Seq(Msg), closed : BOOLEAN,
            pump : {"off", "run", "done"}, conn : {"none", "up", "down"},
            snap : [Source -> 0 .. MaxVer], view : [Source -> 0 .. MaxVer], missed : SUBSET Source]

\* The types of hub, broadcasts and sessions
DashTypes ==
  /\ ver \in [Source -> 0 .. MaxVer] /\ dash \in SUBSET Browser
  /\ cast \in [Report -> [pc : {"idle", "kept", "cast"}, left : SUBSET Browser]]
  /\ tab \in [Browser -> Session]

\* Who is still to be served is registered, only a broadcast has anybody to serve, and what is
\* not committed is not broadcast.
CastInv ==
  \A r \in Report : /\ cast[r].left \subseteq dash
                    /\ cast[r].pc # "cast" => cast[r].left = {}
                    /\ r[2] > ver[r[1]] => cast[r].pc = "idle"

\* Registered is who runs; the channel is closed last; a queue never outgrows its capacity.
SessionInv ==
  \A b \in Browser : /\ b \in dash <=> tab[b].pc \in Live
                     /\ tab[b].closed => tab[b].pc = "gone"
                     /\ Len(tab[b].q) <= DashQueue

\* The newest version of s is committed, and b has not been told.
Newest(s) == <<s, ver[s]>>
Due(s, b) == ver[s] # 0 /\ (cast[Newest(s)].pc = "kept" \/ b \in cast[Newest(s)].left)

\* The message does not speak of s.
Silent(m, s) == \A v \in 0 .. MaxVer : <<s, v>> \notin m

\* Once q is written to a browser that shows view, it shows v for s.
Shows(q, view, s, v) ==
  /\ \A i \in 1 .. Len(q), w \in 0 .. MaxVer :
       <<s, w>> \in q[i] /\ (\A j \in 1 .. Len(q) : j > i => Silent(q[j], s)) => w = v
  /\ (\A j \in 1 .. Len(q) : Silent(q[j], s)) => view[s] = v

\* The session shows v for s, or will when its snapshot and its queue are written.
Fresh(t, s, v) ==
  /\ t.pc = "send" => t.snap[s] = v
  /\ t.pc \in {"list", "loop"} /\ t.conn = "up" => Shows(t.q, t.view, s, v)

\* What was not missed and needs no further broadcast is, or will be, shown as it is.
CurrentInv ==
  \A b \in Browser, s \in Source : s \notin tab[b].missed /\ ~Due(s, b) => Fresh(tab[b], s, ver[s])

\* The invariant of the dashboards: what is queued is needed beside what is shown, since a
\* dashboard that has caught up is one whose queue has been written.
DashIInv == DashTypes /\ CastInv /\ SessionInv /\ CurrentInv

\* Appending a message that does not speak of s changes nothing about s.
LEMMA ShowsAppendSilent ==
  ASSUME NEW q \in Seq(Msg), NEW m \in Msg, NEW view, NEW s \in Source, NEW v \in 0 .. MaxVer,
         Silent(m, s), Shows(q, view, s, v)
  PROVE  Shows(Append(q, m), view, s, v)
<1> DEFINE p == Append(q, m)
<1>1. Len(q) \in Nat /\ Len(p) = Len(q) + 1 /\ p[Len(q) + 1] = m /\ \A i \in 1 .. Len(q) : p[i] = q[i]
  OBVIOUS
<1> HIDE DEF p
<1>2. ASSUME NEW i \in 1 .. Len(p), NEW w \in 0 .. MaxVer, <<s, w>> \in p[i],
             \A j \in 1 .. Len(p) : j > i => Silent(p[j], s)
      PROVE  w = v
  <2>1. i \in 1 .. Len(q) BY <1>1, <1>2 DEF Silent
  <2>2. \A j \in 1 .. Len(q) : j > i => Silent(q[j], s) BY <1>1, <1>2
  <2>3. <<s, w>> \in q[i] BY <1>1, <1>2, <2>1
  <2> QED BY <2>1, <2>2, <2>3 DEF Shows
<1>3. ASSUME \A j \in 1 .. Len(p) : Silent(p[j], s) PROVE view[s] = v
  <2>1. \A j \in 1 .. Len(q) : Silent(q[j], s) BY <1>1, <1>3
  <2> QED BY <2>1 DEF Shows
<1>4. Shows(p, view, s, v) BY <1>2, <1>3 DEF Shows
<1> QED BY <1>4 DEF p

\* Appending a message that tells v of s makes the browser show v in the end.
LEMMA ShowsAppendTelling ==
  ASSUME NEW q \in Seq(Msg), NEW m \in Msg, NEW view, NEW s \in Source, NEW v \in 0 .. MaxVer,
         <<s, v>> \in m, \A w \in 0 .. MaxVer : <<s, w>> \in m => w = v
  PROVE  Shows(Append(q, m), view, s, v)
<1> DEFINE p == Append(q, m)
<1>1. Len(q) \in Nat /\ Len(p) = Len(q) + 1 /\ p[Len(q) + 1] = m /\ \A i \in 1 .. Len(q) : p[i] = q[i]
  OBVIOUS
<1> HIDE DEF p
<1>2. ASSUME NEW i \in 1 .. Len(p), NEW w \in 0 .. MaxVer, <<s, w>> \in p[i],
             \A j \in 1 .. Len(p) : j > i => Silent(p[j], s)
      PROVE  w = v
  <2>1. ~Silent(p[Len(p)], s) BY <1>1 DEF Silent
  <2>2. i = Len(p) BY <1>1, <1>2, <2>1
  <2> QED BY <1>1, <1>2, <2>2
<1>3. ASSUME \A j \in 1 .. Len(p) : Silent(p[j], s) PROVE view[s] = v
  <2>1. ~Silent(p[Len(p)], s) BY <1>1 DEF Silent
  <2> QED BY <1>1, <1>3, <2>1
<1>4. Shows(p, view, s, v) BY <1>2, <1>3 DEF Shows
<1> QED BY <1>4 DEF p

\* Writing the head of the queue keeps what the browser shows in the end.
LEMMA ShowsTail ==
  ASSUME NEW q \in Seq(Msg), q # <<>>, NEW view, NEW seen, NEW s \in Source, NEW v \in 0 .. MaxVer,
         Shows(q, view, s, v),
         (\E w \in 0 .. MaxVer : <<s, w>> \in Head(q)) => seen[s] \in 0 .. MaxVer /\ <<s, seen[s]>> \in Head(q),
         ~(\E w \in 0 .. MaxVer : <<s, w>> \in Head(q)) => seen[s] = view[s]
  PROVE  Shows(Tail(q), seen, s, v)
<1> DEFINE p == Tail(q)
<1>1. Len(q) \in Nat \ {0} /\ Len(p) = Len(q) - 1 /\ Head(q) = q[1] /\ \A i \in 1 .. Len(p) : p[i] = q[i + 1]
  OBVIOUS
<1> HIDE DEF p
<1>0. \A j \in 2 .. Len(q) : q[j] = p[j - 1] /\ j - 1 \in 1 .. Len(p)
  BY <1>1
<1>2. ASSUME NEW i \in 1 .. Len(p), NEW w \in 0 .. MaxVer, <<s, w>> \in p[i],
             \A j \in 1 .. Len(p) : j > i => Silent(p[j], s)
      PROVE  w = v
  <2>1. i + 1 \in 1 .. Len(q) BY <1>1
  <2>2. \A j \in 1 .. Len(q) : j > i + 1 => Silent(q[j], s) BY <1>0, <1>1, <1>2
  <2>3. <<s, w>> \in q[i + 1] BY <1>1, <1>2
  <2> QED BY <2>1, <2>2, <2>3 DEF Shows
<1>3. ASSUME \A j \in 1 .. Len(p) : Silent(p[j], s) PROVE seen[s] = v
  <2>1. \A j \in 1 .. Len(q) : j > 1 => Silent(q[j], s) BY <1>0, <1>1, <1>3
  <2>2. CASE \E w \in 0 .. MaxVer : <<s, w>> \in q[1]
    <3>1. seen[s] \in 0 .. MaxVer /\ <<s, seen[s]>> \in q[1] BY <1>1, <2>2
    <3>2. 1 \in 1 .. Len(q) BY <1>1
    <3> QED BY <3>1, <3>2, <2>1 DEF Shows
  <2>3. CASE ~\E w \in 0 .. MaxVer : <<s, w>> \in q[1]
    <3>1. seen[s] = view[s] BY <1>1, <2>3
    <3>2. Silent(q[1], s) BY <2>3 DEF Silent
    <3>3. \A j \in 1 .. Len(q) : Silent(q[j], s) BY <2>1, <3>2, <1>1
    <3> QED BY <3>1, <3>3 DEF Shows
  <2> QED BY <2>2, <2>3
<1>4. Shows(p, seen, s, v) BY <1>2, <1>3 DEF Shows
<1> QED BY <1>4 DEF p

\* Only the session of b changes.
Only(b, t) == t \in Session /\ tab' = [tab EXCEPT ![b] = t] /\ UNCHANGED <<ver, cast, dash>>

\* What the new record of a session must satisfy for the invariant to survive
Sound(b, t) ==
  /\ t.pc \in Live <=> tab[b].pc \in Live
  /\ t.closed => t.pc = "gone"
  /\ Len(t.q) <= DashQueue
  /\ \A s \in Source : s \notin t.missed /\ ~Due(s, b) => Fresh(t, s, ver[s])

\* A step that only replaces a session's record by a sound one preserves the invariant.
LEMMA DashOnly ==
  ASSUME DashIInv, NEW b \in Browser, NEW t, Only(b, t), Sound(b, t)
  PROVE  DashIInv'
<1>1. tab' \in [Browser -> Session] /\ tab'[b] = t /\ \A c \in Browser : c # b => tab'[c] = tab[c]
  BY DEF DashIInv, DashTypes, Only
<1>2. DashTypes' BY <1>1 DEF DashIInv, DashTypes, Only
<1>3. CastInv' BY DEF DashIInv, CastInv, Only
<1>4. SessionInv'
  BY <1>1 DEF DashIInv, SessionInv, Only, Sound
<1>5. CurrentInv'
  <2> SUFFICES ASSUME NEW c \in Browser, NEW s \in Source, s \notin tab'[c].missed, ~Due(s, c)'
               PROVE  Fresh(tab'[c], s, ver'[s])
    BY DEF CurrentInv
  <2>1. ~Due(s, c) /\ ver' = ver BY DEF Due, Newest, Only
  <2>2. CASE c = b BY <2>1, <2>2, <1>1 DEF Sound
  <2>3. CASE c # b BY <2>1, <2>3, <1>1 DEF DashIInv, CurrentInv
  <2> QED BY <2>2, <2>3
<1> QED BY <1>2, <1>3, <1>4, <1>5 DEF DashIInv

\* The queue of b once enqueue has offered it m
Room(b, m) == IF Len(tab[b].q) < DashQueue THEN Append(tab[b].q, m) ELSE tab[b].q

\* Two updates of one session are the second.
LEMMA DashTwice ==
  ASSUME NEW f, f \in [Browser -> Session], NEW b \in Browser, NEW r, NEW t
  PROVE  /\ [f EXCEPT ![b] = r][b] = r
         /\ [[f EXCEPT ![b] = r] EXCEPT ![b] = t] = [f EXCEPT ![b] = t]
OBVIOUS

\* enqueue appends to the queue of one session if there is room, and to no other.
LEMMA DashEnqueue ==
  ASSUME DashIInv, NEW b \in Browser, NEW m \in Msg
  PROVE  /\ enqueue(b, m) = [tab EXCEPT ![b] = [tab[b] EXCEPT !.q = Room(b, m)]]
         /\ Room(b, m) \in Seq(Msg) /\ Len(Room(b, m)) <= DashQueue
<1>0. tab \in [Browser -> Session] /\ tab[b] \in Session BY DEF DashIInv, DashTypes
<1>1. tab[b].q \in Seq(Msg) /\ Len(tab[b].q) \in Nat /\ Len(tab[b].q) <= DashQueue
  BY <1>0 DEF DashIInv, SessionInv, Session
<1>2. Room(b, m) \in Seq(Msg) /\ Len(Room(b, m)) <= DashQueue BY <1>1 DEF Room
<1>3. CASE Len(tab[b].q) < DashQueue BY <1>2, <1>3 DEF enqueue, Room
<1>4. CASE ~(Len(tab[b].q) < DashQueue)
  <2>1. tab[b] = [tab[b] EXCEPT !.q = tab[b].q] BY <1>0 DEF Session
  <2>2. tab = [tab EXCEPT ![b] = tab[b]] BY <1>0
  <2> QED BY <1>2, <2>1, <2>2, <1>4 DEF enqueue, Room
<1> QED BY <1>2, <1>3, <1>4

\* A message that names no device leaves open what a session will show.
LEMMA DashRoomSilent ==
  ASSUME DashIInv, NEW b \in Browser, NEW m \in Msg, NEW s \in Source, NEW view, Silent(m, s),
         Shows(tab[b].q, view, s, ver[s])
  PROVE  Shows(Room(b, m), view, s, ver[s])
<1>1. tab[b].q \in Seq(Msg) /\ ver[s] \in 0 .. MaxVer BY DEF DashIInv, DashTypes, Session
<1> QED BY <1>1, ShowsAppendSilent DEF Room

\* Messages about anything but devices speak of no device.
LEMMA OtherSilent == Other \in Msg /\ \A s \in Source : Silent(Other, s)
BY DEF Other, Msg, Silent

\* What else a session keeps when its queue and its place change
Keeps(b, t) ==
  /\ t.closed = tab[b].closed
  /\ t.conn = tab[b].conn /\ t.snap = tab[b].snap /\ t.view = tab[b].view /\ t.missed = tab[b].missed

\* A session queues a message and goes on to p.
Pushes(b, m, p) == tab' = [enqueue(b, m) EXCEPT ![b].pc = p]

\* After that its record differs in queue and place only.
LEMMA DashPush ==
  ASSUME DashIInv, NEW b \in Browser, NEW m \in Msg, NEW p \in Live, Pushes(b, m, p)
  PROVE  \E t \in Session : /\ tab' = [tab EXCEPT ![b] = t] /\ Keeps(b, t)
                            /\ t.pc = p /\ t.q = Room(b, m) /\ Len(t.q) <= DashQueue
<1>0. tab \in [Browser -> Session] /\ tab[b] \in Session BY DEF DashIInv, DashTypes
<1> PICK t : t = [tab[b] EXCEPT !.q = Room(b, m), !.pc = p] OBVIOUS
<1>1. tab' = [tab EXCEPT ![b] = t]
  <2> PICK r : r = [tab[b] EXCEPT !.q = Room(b, m)] OBVIOUS
  <2>1. enqueue(b, m) = [tab EXCEPT ![b] = r] BY DashEnqueue
  <2>2. t = [r EXCEPT !.pc = p] OBVIOUS
  <2>3. tab' = [[tab EXCEPT ![b] = r] EXCEPT ![b] = t] BY <1>0, <2>1, <2>2, DashTwice DEF Pushes
  <2> QED BY <1>0, <2>3, DashTwice
<1>2. t.pc = p /\ t.q = Room(b, m) /\ Keeps(b, t) BY <1>0 DEF Session, Keeps
<1>3. t \in Session BY <1>0, DashEnqueue DEF Session, Live
<1> QED BY <1>1, <1>2, <1>3, DashEnqueue

\* ReadSnapshot preserves the invariant: the rows are the newest, and nothing is missed yet.
LEMMA DashRead ==
  ASSUME DashIInv, NEW b \in Browser, ReadSnapshot(b)
  PROVE  DashIInv'
<1> USE DEF DashIInv, DashTypes, SessionInv
<1>0. tab[b] \in Session /\ ver \in [Source -> 0 .. MaxVer] /\ tab[b].pc = "snap"
  BY DEF ReadSnapshot
<1>1. CASE tab' = [tab EXCEPT ![b].pc = "send", ![b].snap = ver, ![b].missed = {}]
  <2> PICK t : t = [tab[b] EXCEPT !.pc = "send", !.snap = ver, !.missed = {}] OBVIOUS
  <2>1. t \in Session BY <1>0 DEF Session, Live
  <2>2. t.pc = "send" /\ t.snap = ver /\ t.closed = tab[b].closed /\ t.q = tab[b].q
    BY <1>0 DEF Session
  <2>3. Only(b, t) BY <1>1, <2>1 DEF Only, ReadSnapshot
  <2>4. Sound(b, t) BY <1>0, <2>2 DEF Sound, Fresh, Live
  <2> QED BY <2>3, <2>4, DashOnly
<1>2. CASE tab' = [enqueue(b, Other) EXCEPT ![b].pc = "drop"]
  <2> PICK t \in Session : /\ tab' = [tab EXCEPT ![b] = t] /\ Keeps(b, t)
                           /\ t.pc = "drop" /\ Len(t.q) <= DashQueue
    <3>1. Pushes(b, Other, "drop") /\ "drop" \in Live BY <1>2 DEF Pushes, Live
    <3> QED BY <3>1, DashPush, OtherSilent
  <2>1. Only(b, t) BY DEF Only, ReadSnapshot
  <2>2. Sound(b, t) BY <1>0 DEF Sound, Fresh, Live, Keeps
  <2> QED BY <2>1, <2>2, DashOnly
<1> QED BY <1>1, <1>2 DEF ReadSnapshot

\* The session ends without a message.
LEMMA DashDrops ==
  ASSUME DashIInv, NEW b \in Browser, tab[b].pc \in {"send", "list", "loop"},
         tab' = [tab EXCEPT ![b].pc = "drop"], UNCHANGED <<ver, cast, dash>>
  PROVE  DashIInv'
<1>0. tab[b] \in Session /\ Len(tab[b].q) <= DashQueue /\ (tab[b].closed => tab[b].pc = "gone")
  BY DEF DashIInv, DashTypes, SessionInv
<1> PICK t : t = [tab[b] EXCEPT !.pc = "drop"] OBVIOUS
<1>1. t \in Session /\ t.pc = "drop" /\ t.closed = tab[b].closed /\ t.q = tab[b].q
  BY <1>0 DEF Session, Live
<1>2. Only(b, t) BY <1>1 DEF Only
<1>3. Sound(b, t) BY <1>0, <1>1 DEF Sound, Fresh, Live
<1> QED BY <1>2, <1>3, DashOnly

\* SendSnapshot preserves it: the rows read become the last message of the queue.
LEMMA DashSend ==
  ASSUME DashIInv, NEW b \in Browser, SendSnapshot(b)
  PROVE  DashIInv'
<1>0. /\ tab[b] \in Session /\ ver \in [Source -> 0 .. MaxVer] /\ tab[b].pc = "send"
      /\ (tab[b].closed => tab[b].pc = "gone") /\ UNCHANGED <<ver, cast, dash>>
  BY DEF SendSnapshot, DashIInv, DashTypes, SessionInv
<1>1. CASE Len(tab[b].q) < DashQueue
  <2>1. tab' = [enqueue(b, Snapshot(b)) EXCEPT ![b].pc = "list"] BY <1>1 DEF SendSnapshot
  <2>2. Snapshot(b) \in Msg
    <3>1. tab[b].snap \in [Source -> 0 .. MaxVer] BY <1>0 DEF Session
    <3> QED BY <3>1 DEF Snapshot, Msg
  <2> PICK t \in Session : /\ tab' = [tab EXCEPT ![b] = t] /\ Keeps(b, t)
                           /\ t.pc = "list" /\ t.q = Room(b, Snapshot(b)) /\ Len(t.q) <= DashQueue
    <3>1. Pushes(b, Snapshot(b), "list") /\ "list" \in Live BY <2>1 DEF Pushes, Live
    <3> QED BY <2>2, <3>1, DashPush
  <2>3. Only(b, t) BY <1>0 DEF Only
  <2>4. ASSUME NEW s \in Source, s \notin t.missed, ~Due(s, b) PROVE Shows(t.q, t.view, s, ver[s])
    <3>1. tab[b].snap[s] = ver[s]
      BY <1>0, <2>4 DEF DashIInv, CurrentInv, Keeps, Fresh
    <3>2. <<s, ver[s]>> \in Snapshot(b) /\ \A w \in 0 .. MaxVer : <<s, w>> \in Snapshot(b) => w = ver[s]
      BY <3>1 DEF Snapshot
    <3>3. tab[b].q \in Seq(Msg) /\ ver[s] \in 0 .. MaxVer BY <1>0 DEF Session
    <3>4. t.q = Append(tab[b].q, Snapshot(b)) BY <1>1 DEF Room
    <3> QED BY <2>2, <3>2, <3>3, <3>4, ShowsAppendTelling
  <2>5. Sound(b, t) BY <1>0, <2>4 DEF Sound, Fresh, Live, Keeps
  <2> QED BY <2>3, <2>5, DashOnly
<1>2. CASE ~(Len(tab[b].q) < DashQueue) BY <1>0, <1>2, DashDrops DEF SendSnapshot
<1> QED BY <1>1, <1>2

\* A message that names no device, at whatever place the session goes on
LEMMA DashPushOther ==
  ASSUME DashIInv, NEW b \in Browser, NEW p \in {"loop", "drop"}, tab[b].pc \in {"list", "loop"},
         Pushes(b, Other, p), UNCHANGED <<ver, cast, dash>>
  PROVE  DashIInv'
<1>0. /\ tab[b] \in Session /\ (tab[b].closed => tab[b].pc = "gone")
  BY DEF DashIInv, DashTypes, SessionInv
<1> PICK t \in Session : /\ tab' = [tab EXCEPT ![b] = t] /\ Keeps(b, t)
                         /\ t.pc = p /\ t.q = Room(b, Other) /\ Len(t.q) <= DashQueue
  <2>1. p \in Live BY DEF Live
  <2> QED BY <2>1, DashPush, OtherSilent
<1>1. Only(b, t) BY DEF Only
<1>2. ASSUME NEW s \in Source, s \notin t.missed, ~Due(s, b), t.conn = "up"
      PROVE  Shows(t.q, t.view, s, ver[s])
  <2>1. Shows(tab[b].q, t.view, s, ver[s])
    BY <1>2 DEF DashIInv, CurrentInv, Keeps, Fresh
  <2> QED BY <2>1, DashRoomSilent, OtherSilent
<1>3. Sound(b, t) BY <1>0, <1>2 DEF Sound, Fresh, Live, Keeps
<1> QED BY <1>1, <1>3, DashOnly

\* So does SendIncidents.
LEMMA DashList ==
  ASSUME DashIInv, NEW b \in Browser, SendIncidents(b)
  PROVE  DashIInv'
BY DashPushOther, DashDrops DEF SendIncidents, Pushes

\* So does an answer to a command of the browser.
LEMMA DashAnswers ==
  ASSUME DashIInv, NEW b \in Browser, DashCommand(b)
  PROVE  DashIInv'
<1>0. tab \in [Browser -> Session] /\ tab[b] \in Session /\ tab[b].pc = "loop"
  BY DEF DashIInv, DashTypes, DashCommand
<1>1. [enqueue(b, Other) EXCEPT ![b].pc = "loop"] = enqueue(b, Other)
  <2> PICK r : r = [tab[b] EXCEPT !.q = Room(b, Other)] OBVIOUS
  <2>1. enqueue(b, Other) = [tab EXCEPT ![b] = r] BY DashEnqueue, OtherSilent
  <2>2. r = [r EXCEPT !.pc = "loop"] BY <1>0 DEF Session
  <2>3. [tab EXCEPT ![b] = r] = [[tab EXCEPT ![b] = r] EXCEPT ![b] = r] BY <1>0, DashTwice
  <2>4. [tab EXCEPT ![b] = r][b] = r BY <1>0, DashTwice
  <2> QED BY <2>1, <2>2, <2>3, <2>4
<1> QED BY <1>0, <1>1, DashPushOther DEF DashCommand, Pushes

\* So does the loss of the browser: a lost browser shows nothing.
LEMMA DashLoses ==
  ASSUME DashIInv, NEW b \in Browser, LoseBrowser(b)
  PROVE  DashIInv'
<1>0. tab[b] \in Session /\ Len(tab[b].q) <= DashQueue /\ (tab[b].closed => tab[b].pc = "gone")
  BY DEF DashIInv, DashTypes, SessionInv
<1> PICK t : t = [tab[b] EXCEPT !.conn = "down"] OBVIOUS
<1>1. /\ t \in Session /\ t.conn = "down" /\ t.closed = tab[b].closed /\ t.q = tab[b].q
      /\ t.pc = tab[b].pc /\ t.snap = tab[b].snap /\ t.missed = tab[b].missed
  BY <1>0 DEF Session, Live
<1>2. Only(b, t) BY <1>1 DEF Only, LoseBrowser
<1>3. Sound(b, t) BY <1>0, <1>1 DEF Sound, Fresh, Live, DashIInv, CurrentInv
<1> QED BY <1>2, <1>3, DashOnly

\* So does the write pump: what it writes is shown, and the rest is still queued.
LEMMA DashPumps ==
  ASSUME DashIInv, NEW b \in Browser, Pumps(b) \/ CloseQueue(b)
  PROVE  DashIInv'
<1>0. /\ tab[b] \in Session /\ Len(tab[b].q) <= DashQueue /\ (tab[b].closed => tab[b].pc = "gone")
      /\ ver \in [Source -> 0 .. MaxVer] /\ tab \in [Browser -> Session]
  BY DEF DashIInv, DashTypes, SessionInv
<1>1. CASE EndPump(b)
  <2> PICK t : t = [tab[b] EXCEPT !.pump = "done"] OBVIOUS
  <2>1. /\ t \in Session /\ Keeps(b, t) /\ t.q = tab[b].q /\ t.pc = tab[b].pc
    BY <1>0 DEF Session, Live, Keeps
  <2>2. Only(b, t) BY <1>1, <2>1 DEF Only, EndPump
  <2>3. Sound(b, t) BY <1>0, <2>1 DEF Sound, Fresh, Live, Keeps, DashIInv, CurrentInv
  <2> QED BY <2>2, <2>3, DashOnly
<1>2. CASE CloseQueue(b)
  <2> PICK t : t = [tab[b] EXCEPT !.pc = "gone", !.closed = TRUE] OBVIOUS
  <2>1. /\ t \in Session /\ t.q = tab[b].q /\ t.pc = "gone"
    BY <1>0 DEF Session, Live
  <2>2. Only(b, t) BY <1>2, <2>1 DEF Only, CloseQueue
  <2>3. Sound(b, t) BY <1>0, <1>2, <2>1 DEF Sound, Fresh, Live, CloseQueue
  <2> QED BY <2>2, <2>3, DashOnly
<1>3. CASE DashWrite(b)
  <2>0. tab[b].q # <<>> /\ UNCHANGED <<ver, cast, dash>> BY <1>3 DEF DashWrite
  <2>1. /\ tab[b].q \in Seq(Msg) /\ Tail(tab[b].q) \in Seq(Msg) /\ Len(Tail(tab[b].q)) <= DashQueue
    BY <1>0, <2>0 DEF Session
  <2>2. CASE tab' = [tab EXCEPT ![b].q = Tail(@), ![b].conn = "down", ![b].pump = "done"]
    <3> PICK t : t = [tab[b] EXCEPT !.q = Tail(@), !.conn = "down", !.pump = "done"] OBVIOUS
    <3>1. /\ t.q = Tail(tab[b].q) /\ t.conn = "down" /\ t.closed = tab[b].closed
          /\ t.pc = tab[b].pc /\ t.snap = tab[b].snap /\ t.missed = tab[b].missed
      BY <1>0 DEF Session
    <3>2. t \in Session BY <1>0, <2>1 DEF Session
    <3>3. Only(b, t) BY <2>0, <2>2, <3>2 DEF Only
    <3>4. Sound(b, t) BY <1>0, <2>1, <3>1 DEF Sound, Fresh, Live, DashIInv, CurrentInv
    <3> QED BY <3>3, <3>4, DashOnly
  <2>3. ASSUME tab[b].conn = "up",
               tab' = [tab EXCEPT ![b].q = Tail(@),
                       ![b].view = [s \in Source |-> IF \E v \in 0 .. MaxVer : <<s, v>> \in Head(tab[b].q)
                                                     THEN CHOOSE v \in 0 .. MaxVer : <<s, v>> \in Head(tab[b].q)
                                                     ELSE @[s]]]
        PROVE  DashIInv'
    <3> PICK seen : seen = [s \in Source |-> IF \E v \in 0 .. MaxVer : <<s, v>> \in Head(tab[b].q)
                                             THEN CHOOSE v \in 0 .. MaxVer : <<s, v>> \in Head(tab[b].q)
                                             ELSE tab[b].view[s]]
      OBVIOUS
    <3>0. tab' = [tab EXCEPT ![b].q = Tail(@), ![b].view = seen] BY <2>3
    <3> PICK t : t = [tab[b] EXCEPT !.q = Tail(@), !.view = seen] OBVIOUS
    <3>1. /\ t.q = Tail(tab[b].q) /\ t.conn = "up" /\ t.closed = tab[b].closed /\ t.view = seen
          /\ t.pc = tab[b].pc /\ t.snap = tab[b].snap /\ t.missed = tab[b].missed
      BY <1>0, <2>3 DEF Session
    <3>2. seen \in [Source -> 0 .. MaxVer]
      <4>1. tab[b].view \in [Source -> 0 .. MaxVer] BY <1>0 DEF Session
      <4> QED BY <4>1
    <3>3. t \in Session BY <1>0, <2>1, <3>2 DEF Session
    <3>4. Only(b, t) BY <2>0, <3>0, <3>3 DEF Only
    <3>5. ASSUME NEW s \in Source, s \notin t.missed, ~Due(s, b), t.pc \in {"list", "loop"}
          PROVE  Shows(t.q, t.view, s, ver[s])
      <4>1. Shows(tab[b].q, tab[b].view, s, ver[s])
        BY <2>3, <3>1, <3>5 DEF DashIInv, CurrentInv, Fresh
      <4>2. ver[s] \in 0 .. MaxVer BY <1>0
      <4>3. /\ (\E v \in 0 .. MaxVer : <<s, v>> \in Head(tab[b].q))
                 => seen[s] \in 0 .. MaxVer /\ <<s, seen[s]>> \in Head(tab[b].q)
            /\ ~(\E v \in 0 .. MaxVer : <<s, v>> \in Head(tab[b].q)) => seen[s] = tab[b].view[s]
        OBVIOUS
      <4>4. Shows(Tail(tab[b].q), seen, s, ver[s]) BY <2>0, <2>1, <4>1, <4>2, <4>3, ShowsTail
      <4> QED BY <3>1, <4>4
    <3>6. Sound(b, t) BY <1>0, <2>1, <3>1, <3>5 DEF Sound, Fresh, Live, DashIInv, CurrentInv
    <3> QED BY <3>4, <3>6, DashOnly
  <2> QED BY <1>3, <2>2, <2>3 DEF DashWrite
<1> QED BY <1>1, <1>2, <1>3 DEF Pumps

\* Registration and unregistration preserve it, under the hub's lock.
LEMMA DashOpens ==
  ASSUME DashIInv, NEW b \in Browser, OpenDashboard(b) \/ UnregisterDash(b)
  PROVE  DashIInv'
<1>0. /\ tab \in [Browser -> Session] /\ tab[b] \in Session
      /\ (tab[b].closed => tab[b].pc = "gone") /\ Len(tab[b].q) <= DashQueue
  BY DEF DashIInv, DashTypes, SessionInv
<1>1. \E t \in Session : /\ tab' = [tab EXCEPT ![b] = t] /\ UNCHANGED <<ver, cast>> /\ Unlocked
                         /\ dash' = (IF t.pc = "snap" THEN dash \cup {b} ELSE dash \ {b})
                         /\ t.pc \in {"snap", "close"} /\ ~t.closed /\ t.q = tab[b].q
  <2>1. CASE OpenDashboard(b)
    <3> PICK t : t = [tab[b] EXCEPT !.pc = "snap", !.pump = "run", !.conn = "up"] OBVIOUS
    <3>1. t \in Session /\ t.pc = "snap" /\ t.closed = tab[b].closed /\ t.q = tab[b].q
      BY <1>0 DEF Session, Live
    <3> QED BY <1>0, <2>1, <3>1 DEF OpenDashboard
  <2>2. CASE UnregisterDash(b)
    <3> PICK t : t = [tab[b] EXCEPT !.pc = "close", !.conn = "down"] OBVIOUS
    <3>1. t \in Session /\ t.pc = "close" /\ t.closed = tab[b].closed /\ t.q = tab[b].q
      BY <1>0 DEF Session, Live
    <3> QED BY <1>0, <2>2, <3>1 DEF UnregisterDash
  <2> QED BY <2>1, <2>2
<1>2. PICK t \in Session : /\ tab' = [tab EXCEPT ![b] = t] /\ UNCHANGED <<ver, cast>> /\ Unlocked
                           /\ dash' = (IF t.pc = "snap" THEN dash \cup {b} ELSE dash \ {b})
                           /\ t.pc \in {"snap", "close"} /\ ~t.closed /\ t.q = tab[b].q
  BY <1>1
<1>3. tab' \in [Browser -> Session] /\ tab'[b] = t /\ \A c \in Browser : c # b => tab'[c] = tab[c]
  BY <1>0, <1>2
<1>4. dash' \in SUBSET Browser /\ (\A c \in Browser : c # b => (c \in dash' <=> c \in dash))
      /\ (b \in dash' <=> t.pc = "snap")
  BY <1>2 DEF DashIInv, DashTypes
<1>5. DashTypes' BY <1>2, <1>3, <1>4 DEF DashIInv, DashTypes
<1>6. CastInv'
  <2>1. \A r \in Report : cast[r].left = {} BY <1>2 DEF Unlocked, DashIInv, CastInv
  <2> QED BY <1>2, <2>1 DEF DashIInv, CastInv
<1>7. SessionInv'
  <2> SUFFICES ASSUME NEW c \in Browser
               PROVE  /\ c \in dash' <=> tab'[c].pc \in Live
                      /\ tab'[c].closed => tab'[c].pc = "gone"
                      /\ Len(tab'[c].q) <= DashQueue
    BY DEF SessionInv
  <2>1. CASE c = b BY <1>0, <1>2, <1>3, <1>4, <2>1 DEF Live
  <2>2. CASE c # b BY <1>3, <1>4, <2>2 DEF DashIInv, SessionInv
  <2> QED BY <2>1, <2>2
<1>8. CurrentInv'
  <2> SUFFICES ASSUME NEW c \in Browser, NEW s \in Source, s \notin tab'[c].missed, ~Due(s, c)'
               PROVE  Fresh(tab'[c], s, ver'[s])
    BY DEF CurrentInv
  <2>1. ~Due(s, c) /\ ver' = ver BY <1>2 DEF Due, Newest
  <2>2. CASE c = b BY <1>2, <1>3, <2>2 DEF Fresh
  <2>3. CASE c # b BY <2>1, <2>3, <1>3 DEF DashIInv, CurrentInv
  <2> QED BY <2>2, <2>3
<1> QED BY <1>5, <1>6, <1>7, <1>8 DEF DashIInv

\* A report is a device and a version, and the newest one of a device is one.
LEMMA ReportFacts ==
  ASSUME DashIInv
  PROVE  /\ \A r \in Report : r[1] \in Source /\ r[2] \in 1 .. MaxVer /\ r = <<r[1], r[2]>>
         /\ \A s \in Source : ver[s] \in 0 .. MaxVer /\ (ver[s] # 0 => Newest(s) \in Report)
<1>1. ver \in [Source -> 0 .. MaxVer] BY DEF DashIInv, DashTypes
<1>2. \A r \in Report : r[1] \in Source /\ r[2] \in 1 .. MaxVer /\ r = <<r[1], r[2]>> BY DEF Report
<1>3. ASSUME NEW s \in Source, ver[s] # 0 PROVE Newest(s) \in Report
  <2>1. ver[s] \in 1 .. MaxVer BY <1>1, <1>3
  <2> QED BY <2>1 DEF Newest, Report
<1> QED BY <1>1, <1>2, <1>3

\* A report that is committed is due everywhere, and changes no session.
LEMMA DashAccepts ==
  ASSUME DashIInv, NEW s \in Source, AcceptReport(s)
  PROVE  DashIInv'
<1> DEFINE Duty == [pc : {"idle", "kept", "cast"}, left : SUBSET Browser]
<1> PICK n : n = <<s, ver[s] + 1>> OBVIOUS
<1>0. /\ cast \in [Report -> Duty] /\ ver \in [Source -> 0 .. MaxVer]
      /\ UNCHANGED <<dash, tab>> /\ ver[s] < MaxVer
      /\ ver' = [ver EXCEPT ![s] = @ + 1] /\ cast' = [cast EXCEPT ![n].pc = "kept"]
  BY DEF DashIInv, DashTypes, AcceptReport
<1>1. ver[s] + 1 \in 1 .. MaxVer /\ ver'[s] = ver[s] + 1 /\ \A x \in Source : x # s => ver'[x] = ver[x]
  BY <1>0
<1>2. n \in Report /\ n[1] = s /\ n[2] = ver[s] + 1 BY <1>1 DEF Report
<1>3. cast[n] \in Duty /\ cast[n].left = {}
  <2>1. cast[n].pc = "idle" BY <1>0, <1>2 DEF DashIInv, CastInv
  <2> QED BY <1>0, <1>2, <2>1 DEF DashIInv, CastInv
<1> PICK h : h = [cast[n] EXCEPT !.pc = "kept"] OBVIOUS
<1>4. h \in Duty /\ h.pc = "kept" /\ h.left = {} BY <1>3
<1>5. cast' = [cast EXCEPT ![n] = h] BY <1>0
<1>6. cast' \in [Report -> Duty] /\ cast'[n] = h /\ \A r \in Report : r # n => cast'[r] = cast[r]
  BY <1>0, <1>2, <1>4, <1>5
<1>7. ver' \in [Source -> 0 .. MaxVer] BY <1>0, <1>1
<1> HIDE DEF Duty
<1>8. DashTypes' BY <1>0, <1>6, <1>7 DEF DashIInv, DashTypes, Duty
<1>9. CastInv'
  <2> SUFFICES ASSUME NEW r \in Report
               PROVE  /\ cast'[r].left \subseteq dash /\ (cast'[r].pc # "cast" => cast'[r].left = {})
                      /\ r[2] > ver'[r[1]] => cast'[r].pc = "idle"
    BY <1>0 DEF CastInv
  <2>1. CASE r = n
    <3>1. r[2] = ver'[r[1]] /\ r[2] \in Int BY <1>1, <1>2, <2>1
    <3>2. cast'[r].left = {} /\ cast'[r].pc = "kept" BY <1>4, <1>6, <2>1
    <3> QED BY <3>1, <3>2
  <2>2. CASE r # n
    <3>1. cast'[r] = cast[r] BY <1>6, <2>2
    <3>2. r[1] \in Source /\ r[2] \in 1 .. MaxVer BY ReportFacts
    <3>3. r[2] > ver'[r[1]] => r[2] > ver[r[1]] BY <1>0, <1>1, <3>2
    <3> QED BY <3>1, <3>3 DEF DashIInv, CastInv
  <2> QED BY <2>1, <2>2
<1>10. SessionInv' BY <1>0 DEF DashIInv, SessionInv
<1>11. CurrentInv'
  <2> SUFFICES ASSUME NEW b \in Browser, NEW x \in Source, x \notin tab'[b].missed, ~Due(x, b)'
               PROVE  Fresh(tab'[b], x, ver'[x])
    BY DEF CurrentInv
  <2>1. x # s
    <3>1. Due(s, b)'
      <4>1. ver'[s] # 0 /\ Newest(s)' = n BY <1>0, <1>1 DEF Newest
      <4> QED BY <4>1, <1>4, <1>6 DEF Due
    <3> QED BY <3>1
  <2>2. ver'[x] = ver[x] BY <1>1, <2>1
  <2>3. Newest(x)' = Newest(x) /\ Newest(x) # n BY <2>1, <2>2 DEF Newest
  <2>4. ~Due(x, b)
    <3>1. ver[x] # 0 => cast'[Newest(x)] = cast[Newest(x)] BY <1>6, <2>3, ReportFacts
    <3> QED BY <2>2, <2>3, <3>1 DEF Due
  <2> QED BY <1>0, <2>2, <2>4 DEF DashIInv, CurrentInv
<1> QED BY <1>8, <1>9, <1>10, <1>11 DEF DashIInv

\* The beginning and the end of a broadcast change no session.
LEMMA DashCasts ==
  ASSUME DashIInv, NEW r \in Report, BeginBroadcast(r) \/ EndBroadcast(r)
  PROVE  DashIInv'
<1> DEFINE Duty == [pc : {"idle", "kept", "cast"}, left : SUBSET Browser]
<1>0. /\ cast \in [Report -> Duty] /\ dash \in SUBSET Browser
      /\ UNCHANGED <<ver, dash, tab>> /\ cast[r] \in Duty
      /\ cast[r].pc # "idle" /\ (cast[r].pc = "cast" => cast[r].left = {})
  BY DEF DashIInv, DashTypes, BeginBroadcast, EndBroadcast
<1>1. \E h \in Duty : /\ cast' = [cast EXCEPT ![r] = h]
                         /\ \/ h.pc = "cast" /\ h.left = dash
                            \/ h.pc = "idle" /\ h.left = {} /\ cast[r].pc = "cast"
  <2>1. CASE BeginBroadcast(r)
    <3> PICK h : h = [pc |-> "cast", left |-> dash] OBVIOUS
    <3>1. h \in Duty /\ h.pc = "cast" /\ h.left = dash BY <1>0
    <3>2. cast' = [cast EXCEPT ![r] = h] BY <2>1 DEF BeginBroadcast
    <3> QED BY <3>1, <3>2
  <2>2. CASE EndBroadcast(r)
    <3> PICK h : h = [cast[r] EXCEPT !.pc = "idle"] OBVIOUS
    <3>1. h.pc = "idle" /\ h.left = cast[r].left /\ h \in Duty BY <1>0
    <3>2. cast' = [cast EXCEPT ![r] = h] /\ cast[r].pc = "cast" /\ cast[r].left = {} BY <2>2 DEF EndBroadcast
    <3> QED BY <3>1, <3>2
  <2> QED BY <2>1, <2>2
<1>2. PICK h \in Duty : /\ cast' = [cast EXCEPT ![r] = h]
                           /\ \/ h.pc = "cast" /\ h.left = dash
                              \/ h.pc = "idle" /\ h.left = {} /\ cast[r].pc = "cast"
  BY <1>1
<1>3. cast' \in [Report -> Duty] /\ cast'[r] = h /\ \A q \in Report : q # r => cast'[q] = cast[q]
  BY <1>0, <1>2
<1> HIDE DEF Duty
<1>4. DashTypes' BY <1>0, <1>3 DEF DashIInv, DashTypes, Duty
<1>5. CastInv'
  <2> SUFFICES ASSUME NEW q \in Report
               PROVE  /\ cast'[q].left \subseteq dash /\ (cast'[q].pc # "cast" => cast'[q].left = {})
                      /\ q[2] > ver[q[1]] => cast'[q].pc = "idle"
    BY <1>0 DEF CastInv
  <2>1. CASE q = r
    <3>1. ~(r[2] > ver[r[1]]) BY <1>0 DEF DashIInv, CastInv
    <3> QED BY <1>2, <1>3, <2>1, <3>1
  <2>2. CASE q # r BY <1>3, <2>2 DEF DashIInv, CastInv
  <2> QED BY <2>1, <2>2
<1>6. SessionInv' BY <1>0 DEF DashIInv, SessionInv
<1>7. CurrentInv'
  <2> SUFFICES ASSUME NEW b \in Browser, NEW x \in Source, x \notin tab'[b].missed, ~Due(x, b)'
               PROVE  Fresh(tab'[b], x, ver'[x])
    BY DEF CurrentInv
  <2>0. Newest(x)' = Newest(x) /\ ver' = ver BY <1>0 DEF Newest
  <2>1. CASE ver[x] # 0 /\ Newest(x) = r /\ h.pc = "cast"
    <3>1. b \notin dash BY <1>2, <1>3, <2>0, <2>1 DEF Due
    <3>2. tab[b].pc \notin Live BY <3>1 DEF DashIInv, SessionInv
    <3> QED BY <1>0, <3>2 DEF Fresh, Live
  <2>2. CASE ~(ver[x] # 0 /\ Newest(x) = r /\ h.pc = "cast")
    <3>1. ~Due(x, b)
      <4>1. CASE ver[x] = 0 BY <4>1 DEF Due
      <4>2. CASE ver[x] # 0 /\ Newest(x) = r
        <5>1. cast[r].pc = "cast" /\ cast[r].left = {} BY <1>0, <1>2, <2>2, <4>2
        <5> QED BY <4>2, <5>1 DEF Due
      <4>3. CASE ver[x] # 0 /\ Newest(x) # r
        <5>1. cast'[Newest(x)] = cast[Newest(x)] BY <1>3, <4>3, ReportFacts
        <5> QED BY <2>0, <5>1 DEF Due
      <4> QED BY <4>1, <4>2, <4>3
    <3> QED BY <1>0, <3>1 DEF DashIInv, CurrentInv
  <2> QED BY <2>1, <2>2
<1> QED BY <1>4, <1>5, <1>6, <1>7 DEF DashIInv

\* A broadcast that reaches one session preserves it: the newest row is queued or marked missed,
\* and an older one marks its device missed unless it is dropped or the snapshot is still to come.
LEMMA DashServes ==
  ASSUME DashIInv, NEW r \in Report, NEW b \in Browser, BroadcastTo(r, b)
  PROVE  DashIInv'
<1> DEFINE Duty == [pc : {"idle", "kept", "cast"}, left : SUBSET Browser]
<1> PICK s, v : s = r[1] /\ v = r[2] OBVIOUS
<1>0. /\ cast \in [Report -> Duty] /\ ver \in [Source -> 0 .. MaxVer] /\ dash \in SUBSET Browser
      /\ cast[r] \in Duty /\ tab \in [Browser -> Session] /\ tab[b] \in Session
      /\ s \in Source /\ v \in 1 .. MaxVer /\ r = <<s, v>> /\ ver[s] \in 0 .. MaxVer
  BY ReportFacts DEF DashIInv, DashTypes
<1>1. UNCHANGED <<ver, dash>> /\ b \in cast[r].left /\ cast' = [cast EXCEPT ![r].left = @ \ {b}]
  BY DEF BroadcastTo
<1>2. b \in dash /\ tab[b].pc \in Live /\ (tab[b].closed => tab[b].pc = "gone") /\ cast[r].pc = "cast"
  BY <1>0, <1>1 DEF DashIInv, CastInv, SessionInv
<1> PICK m : m = {r} OBVIOUS
<1>3. m \in Msg BY <1>0 DEF Msg
<1> PICK behind : behind = (IF tab[b].pc = "send" THEN tab[b].snap[s] # ver[s]
                            ELSE IF Len(tab[b].q) >= DashQueue THEN v = ver[s] \/ s \in tab[b].missed
                            ELSE v # ver[s])
  OBVIOUS
<1> PICK miss : miss = IF behind THEN tab[b].missed \cup {s} ELSE tab[b].missed \ {s}
  OBVIOUS
<1>4. miss \in SUBSET Source /\ (\A x \in Source : x # s => (x \in miss <=> x \in tab[b].missed))
  BY <1>0 DEF Session
<1>5. s \notin miss => \/ tab[b].pc = "send" /\ tab[b].snap[s] = ver[s]
                       \/ tab[b].pc # "send" /\ Len(tab[b].q) >= DashQueue /\ v # ver[s] /\ s \notin tab[b].missed
                       \/ tab[b].pc # "send" /\ ~(Len(tab[b].q) >= DashQueue) /\ v = ver[s]
  OBVIOUS
<1> PICK t : t = [tab[b] EXCEPT !.q = Room(b, m), !.missed = miss] OBVIOUS
<1>6. tab' = [tab EXCEPT ![b] = t]
  <2> PICK f : f = [tab[b] EXCEPT !.q = Room(b, m)] OBVIOUS
  <2>1. enqueue(b, m) = [tab EXCEPT ![b] = f] BY <1>3, DashEnqueue
  <2>2. [tab EXCEPT ![b] = f][b] = f BY <1>0, DashTwice
  <2>3. f.missed = tab[b].missed BY <1>0 DEF Session
  <2>4. t = [f EXCEPT !.missed = miss] OBVIOUS
  <2>5. tab' = [enqueue(b, m) EXCEPT ![b].missed = IF behind THEN @ \cup {s} ELSE @ \ {s}]
    BY DEF BroadcastTo, Behind
  <2>6. tab' = [[tab EXCEPT ![b] = f] EXCEPT ![b] = t]
    <3>1. enqueue(b, m)[b] = f BY <2>1, <2>2
    <3>2. (IF behind THEN f.missed \cup {s} ELSE f.missed \ {s}) = miss BY <2>3
    <3>3. tab' = [enqueue(b, m) EXCEPT ![b] = [f EXCEPT !.missed = miss]] BY <2>5, <3>1, <3>2
    <3> QED BY <2>1, <2>4, <3>3
  <2> QED BY <1>0, <2>6, DashTwice
<1>7. /\ t.pc = tab[b].pc /\ t.closed = tab[b].closed /\ t.q = Room(b, m) /\ t.missed = miss
      /\ t.snap = tab[b].snap /\ t.view = tab[b].view /\ t.conn = tab[b].conn
  BY <1>0 DEF Session
<1>8. t \in Session /\ Len(t.q) <= DashQueue BY <1>0, <1>3, <1>4, DashEnqueue DEF Session
<1>9. tab' \in [Browser -> Session] /\ tab'[b] = t /\ \A c \in Browser : c # b => tab'[c] = tab[c]
  BY <1>0, <1>6, <1>8
<1>10. /\ cast' \in [Report -> Duty]
       /\ cast'[r].left = cast[r].left \ {b} /\ cast'[r].pc = "cast"
       /\ \A q \in Report : q # r => cast'[q] = cast[q]
  BY <1>0, <1>1, <1>2
<1> HIDE DEF Duty
<1>11. DashTypes' BY <1>0, <1>1, <1>9, <1>10 DEF DashTypes, Duty
<1>12. CastInv'
  <2>1. ~(r[2] > ver[r[1]]) BY <1>2 DEF DashIInv, CastInv
  <2> QED BY <1>1, <1>10, <2>1 DEF DashIInv, CastInv
<1>13. SessionInv'
  <2> SUFFICES ASSUME NEW c \in Browser
               PROVE  /\ c \in dash' <=> tab'[c].pc \in Live
                      /\ tab'[c].closed => tab'[c].pc = "gone"
                      /\ Len(tab'[c].q) <= DashQueue
    BY DEF SessionInv
  <2>1. CASE c = b BY <1>1, <1>2, <1>7, <1>8, <1>9, <2>1
  <2>2. CASE c # b BY <1>1, <1>9, <2>2 DEF DashIInv, SessionInv
  <2> QED BY <2>1, <2>2
<1>14. ASSUME NEW x \in Source, NEW c \in Browser, ~Due(x, c)', Newest(x) # r \/ c # b PROVE ~Due(x, c)
  <2>0. Newest(x)' = Newest(x) /\ ver' = ver BY <1>1 DEF Newest
  <2>1. CASE ver[x] = 0 BY <2>1 DEF Due
  <2>2. CASE ver[x] # 0 /\ Newest(x) = r BY <1>2, <1>10, <1>14, <2>0, <2>2 DEF Due
  <2>3. CASE ver[x] # 0 /\ Newest(x) # r
    <3>1. cast'[Newest(x)] = cast[Newest(x)] BY <1>10, <2>3, ReportFacts
    <3> QED BY <1>14, <2>0, <3>1 DEF Due
  <2> QED BY <2>1, <2>2, <2>3
<1>15. CurrentInv'
  <2> SUFFICES ASSUME NEW c \in Browser, NEW x \in Source, x \notin tab'[c].missed, ~Due(x, c)'
               PROVE  Fresh(tab'[c], x, ver[x])
    BY <1>1 DEF CurrentInv
  <2>1. CASE c # b
    <3>1. ~Due(x, c) BY <1>14, <2>1
    <3> QED BY <1>9, <2>1, <3>1 DEF DashIInv, CurrentInv
  <2>2. CASE c = b /\ x # s
    <3>1. ~Due(x, b)
      <4>1. Newest(x) # r BY <1>0, <2>2 DEF Newest
      <4> QED BY <1>14, <2>2, <4>1
    <3>2. x \notin tab[b].missed BY <1>4, <1>7, <1>9, <2>2
    <3>3. Fresh(tab[b], x, ver[x]) BY <3>1, <3>2 DEF DashIInv, CurrentInv
    <3>4. Silent(m, x) BY <1>0, <2>2 DEF Silent
    <3>5. ASSUME Shows(tab[b].q, tab[b].view, x, ver[x])
          PROVE  Shows(Room(b, m), tab[b].view, x, ver[x])
      BY <1>3, <3>4, <3>5, DashRoomSilent
    <3>6. Fresh(t, x, ver[x]) BY <1>7, <3>3, <3>5 DEF Fresh
    <3> QED BY <1>9, <2>2, <3>6
  <2>3. CASE c = b /\ x = s
    <3>1. s \notin miss BY <1>7, <1>9, <2>3
    <3>2. CASE tab[b].pc = "send" BY <1>5, <1>7, <1>9, <2>3, <3>1, <3>2 DEF Fresh
    <3>3. CASE tab[b].pc # "send" /\ v = ver[s]
      <4>1. tab[b].q \in Seq(Msg) /\ Len(tab[b].q) \in Nat BY <1>0 DEF Session
      <4>2. t.q = Append(tab[b].q, m) BY <1>5, <1>7, <3>1, <3>3, <4>1 DEF Room
      <4>3. <<s, ver[s]>> \in m /\ \A w \in 0 .. MaxVer : <<s, w>> \in m => w = ver[s] BY <1>0, <3>3
      <4>0. s \in Source /\ ver[s] \in 0 .. MaxVer BY <1>0
      <4>4. Shows(Append(tab[b].q, m), t.view, s, ver[s]) BY <1>3, <4>0, <4>1, <4>3, ShowsAppendTelling
      <4> QED BY <1>7, <1>9, <2>3, <3>3, <4>2, <4>4 DEF Fresh
    <3>4. CASE tab[b].pc # "send" /\ v # ver[s]
      <4>1. Len(tab[b].q) >= DashQueue /\ s \notin tab[b].missed BY <1>5, <3>1, <3>4
      <4>2. Len(tab[b].q) \in Nat BY <1>0 DEF Session
      <4>3. t.q = tab[b].q BY <1>7, <4>1, <4>2 DEF Room
      <4>4. ~Due(s, b)
        <5>1. Newest(s) # r BY <1>0, <3>4 DEF Newest
        <5> QED BY <1>0, <1>14, <2>3, <5>1
      <4>5. Fresh(tab[b], s, ver[s]) BY <1>0, <4>1, <4>4 DEF DashIInv, CurrentInv
      <4> QED BY <1>7, <1>9, <2>3, <4>3, <4>5 DEF Fresh
    <3> QED BY <3>2, <3>3, <3>4
  <2> QED BY <2>1, <2>2, <2>3
<1> QED BY <1>11, <1>12, <1>13, <1>15 DEF DashIInv

\* A broadcast about anything but devices preserves it.
LEMMA DashOthers ==
  ASSUME DashIInv, BroadcastOther
  PROVE  DashIInv'
<1>0. UNCHANGED <<ver, cast, dash>> /\ tab \in [Browser -> Session]
  BY DEF DashIInv, DashTypes, BroadcastOther
<1>1. \A b \in Browser : tab'[b] = IF b \in dash THEN [tab[b] EXCEPT !.q = Room(b, Other)] ELSE tab[b]
  <2> SUFFICES ASSUME NEW b \in Browser
               PROVE  tab'[b] = IF b \in dash THEN [tab[b] EXCEPT !.q = Room(b, Other)] ELSE tab[b]
    OBVIOUS
  <2>1. tab'[b] = IF b \in dash THEN enqueue(b, Other)[b] ELSE tab[b] BY DEF BroadcastOther
  <2> PICK r : r = [tab[b] EXCEPT !.q = Room(b, Other)] OBVIOUS
  <2>2. enqueue(b, Other) = [tab EXCEPT ![b] = r] BY OtherSilent, DashEnqueue
  <2>3. enqueue(b, Other)[b] = r BY <1>0, <2>2, DashTwice
  <2> QED BY <2>1, <2>3
<1>2. ASSUME NEW b \in Browser
      PROVE  /\ tab'[b] \in Session /\ tab'[b].pc = tab[b].pc /\ Keeps(b, tab'[b])
             /\ tab'[b].q \in {tab[b].q, Room(b, Other)} /\ Len(tab'[b].q) <= DashQueue
  <2>1. tab[b] \in Session /\ Len(tab[b].q) <= DashQueue BY <1>0 DEF DashIInv, SessionInv
  <2>2. Room(b, Other) \in Seq(Msg) /\ Len(Room(b, Other)) <= DashQueue BY OtherSilent, DashEnqueue
  <2>3. CASE b \in dash
    <3> PICK r : r = [tab[b] EXCEPT !.q = Room(b, Other)] OBVIOUS
    <3>1. tab'[b] = r BY <1>1, <2>3
    <3>2. r \in Session /\ r.pc = tab[b].pc /\ Keeps(b, r) /\ r.q = Room(b, Other)
      BY <2>1, <2>2 DEF Session, Keeps
    <3> QED BY <2>2, <3>1, <3>2
  <2>4. CASE b \notin dash BY <1>1, <2>1, <2>4 DEF Keeps
  <2> QED BY <2>3, <2>4
<1>3. tab' \in [Browser -> Session]
  <2>1. tab' = [b \in Browser |-> tab'[b]] BY DEF BroadcastOther
  <2> QED BY <1>2, <2>1
<1>4. DashTypes' BY <1>0, <1>3 DEF DashIInv, DashTypes
<1>5. CastInv' BY <1>0 DEF DashIInv, CastInv
<1>6. SessionInv' BY <1>0, <1>2 DEF DashIInv, SessionInv, Keeps
<1>7. CurrentInv'
  <2> SUFFICES ASSUME NEW b \in Browser, NEW s \in Source, s \notin tab'[b].missed, ~Due(s, b)'
               PROVE  Fresh(tab'[b], s, ver[s])
    BY <1>0 DEF CurrentInv
  <2>1. ~Due(s, b) /\ s \notin tab[b].missed BY <1>0, <1>2 DEF Due, Newest, Keeps
  <2>2. Fresh(tab[b], s, ver[s]) BY <2>1 DEF DashIInv, CurrentInv
  <2>3. ASSUME Shows(tab[b].q, tab[b].view, s, ver[s])
        PROVE  Shows(tab'[b].q, tab[b].view, s, ver[s])
    <3>1. Shows(Room(b, Other), tab[b].view, s, ver[s]) BY <2>3, OtherSilent, DashRoomSilent
    <3> QED BY <1>2, <2>3, <3>1
  <2> QED BY <1>2, <2>2, <2>3 DEF Fresh, Keeps
<1> QED BY <1>4, <1>5, <1>6, <1>7 DEF DashIInv

\* No browser is there at first.
LEMMA DashInitInv == DashInit => DashIInv
<1> SUFFICES ASSUME DashInit PROVE DashIInv OBVIOUS
<1>0. NoTab \in Session /\ NoTab.pc = "off" /\ ~NoTab.closed /\ NoTab.q = <<>>
  BY DEF NoTab, Session
<1>1. DashTypes BY <1>0 DEF DashInit, DashTypes
<1>2. CastInv BY DEF DashInit, CastInv
<1>3. SessionInv BY <1>0 DEF DashInit, SessionInv, Live
<1>4. CurrentInv BY <1>0 DEF DashInit, CurrentInv, Fresh
<1> QED BY <1>1, <1>2, <1>3, <1>4 DEF DashIInv

\* Every step of sessions, pumps and broadcasts preserves it.
LEMMA DashStep ==
  ASSUME DashIInv, DashNext \/ UNCHANGED dashVars
  PROVE  DashIInv'
<1>1. CASE UNCHANGED dashVars
  BY <1>1 DEF dashVars, DashIInv, DashTypes, CastInv, SessionInv, CurrentInv, Due, Newest
<1>2. CASE DashNext
  <2>1. ASSUME NEW s \in Source, AcceptReport(s) PROVE DashIInv' BY <2>1, DashAccepts
  <2>3. ASSUME NEW r \in Report, Broadcasts(r) PROVE DashIInv'
    BY <2>3, DashCasts, DashServes DEF Broadcasts
  <2>2. ASSUME NEW b \in Browser, OpenDashboard(b) \/ Serves(b) \/ Pumps(b) \/ DashCommand(b) \/ LoseBrowser(b)
        PROVE  DashIInv'
    <3>1. CASE LeaveLoop(b) BY <3>1, DashDrops DEF LeaveLoop
    <3> QED BY <2>2, <3>1, DashOpens, DashRead, DashSend, DashList, DashPumps, DashAnswers, DashLoses DEF Serves
  <2> QED BY <1>2, <2>1, <2>2, <2>3, DashOthers DEF DashNext
<1> QED BY <1>1, <1>2

\* It says what the run checks.
LEMMA DashInvHolds == DashIInv => DashInv
<1> SUFFICES ASSUME DashIInv PROVE DashInv OBVIOUS
<1>0. \A b \in Browser : tab[b] \in Session BY DEF DashIInv, DashTypes
<1>1. DashTypeOK BY <1>0 DEF DashIInv, DashTypes, SessionInv, DashTypeOK, Session
<1>2. NoSendOnClosedQueue
  BY DEF DashIInv, CastInv, SessionInv, NoSendOnClosedQueue, Live
<1>3. DashboardCurrent
  <2> SUFFICES ASSUME NEW b \in Browser, tab[b].pc = "loop", tab[b].conn = "up", tab[b].q = <<>>,
                      NEW s \in Source, s \notin tab[b].missed,
                      \A r \in Report : r = <<s, ver[s]>> => cast[r].pc = "idle"
               PROVE  tab[b].view[s] = ver[s]
    BY DEF DashboardCurrent
  <2>1. ~Due(s, b)
    <3>1. ver[s] # 0 => Newest(s) \in Report /\ cast[Newest(s)].pc = "idle" BY ReportFacts DEF Newest
    <3> QED BY <3>1 DEF Due, DashIInv, CastInv
  <2>2. Shows(<<>>, tab[b].view, s, ver[s]) BY <2>1 DEF DashIInv, CurrentInv, Fresh
  <2> QED BY <2>2 DEF Shows
<1> QED BY <1>1, <1>2, <1>3 DEF DashInv

HIDE DashAssumption

-----------------------------------------------------------------------------
(* Uploads. *)

USE UploadAssumption

\* The queue after the file continues the body: nothing in it is older than what is written, and
\* everything was dispatched.
UpOrder ==
  /\ \A i, j \in 1 .. Len(file) : i < j => file[i] < file[j]
  /\ \A i \in 1 .. Len(file) : file[i] <= sent
  /\ \A i \in 1 .. Len(send) : send[i].action = "chunk" => send[i].n \in 1 .. sent
  /\ \A i, j \in 1 .. Len(send) : i < j /\ send[i].action = "chunk" /\ send[j].action = "chunk" => send[i].n < send[j].n
  /\ \A i \in 1 .. Len(file), j \in 1 .. Len(send) : send[j].action = "chunk" => file[i] < send[j].n

\* Before the request has begun nothing is under way; begin is never behind another message.
UpStart ==
  /\ pc = "start" => send = << >> /\ up = << >> /\ waiter = "none" /\ resp = 0 /\ sent = 0
  /\ \A i \in 1 .. Len(send) : i > 1 => send[i].action # "begin"

\* No begin is queued any more.
Begun == \A i \in 1 .. Len(send) : send[i].action # "begin"

\* Once the agent has answered its file is closed, and no begin can open it again.
UpClosed == up # << >> \/ waiter \in {"ok", "error"} \/ resp \in {200, 502} => ~open /\ Begun

\* On the first connection the file and the queue make up the body so far.
Written == IF Begun THEN Len(file) ELSE 0 - 1

\* There nothing is lost: the file is a prefix of the body, the queue continues it, and finish
\* comes after the last chunk.
UpExact ==
  last = 1 /\ agent # 0 =>
    /\ hub = 1
    /\ open \/ ~Begun =>
         /\ open /\ Begun => \A i \in 1 .. Len(file) : file[i] = i
         /\ \A i \in 1 .. Len(send) : send[i].action = "chunk" => send[i].n = Written + i
         /\ pc = "body" => Written + Len(send) = sent
         /\ \A i \in 1 .. Len(send) : send[i].action = "finish" => Written + i = sent + 1 /\ sent = body /\ pc \in {"wait", "done"}

\* The file is the body.
Whole == Len(file) = body /\ \A i \in 1 .. body : file[i] = i

\* On the first connection an agent that reports success has written the whole body.
UpWhole ==
  last = 1 /\ ((\E i \in 1 .. Len(up) : up[i] = "ok") \/ waiter = "ok" \/ resp = 200) => Whole

\* The messages of an upload
Note == [action : {"begin", "chunk", "finish", "abort"}, n : 0 .. MaxBody]

\* The types of request, connections, queue, agent, faults and flags
UpReq ==
  /\ body \in 0 .. MaxBody /\ sent \in 0 .. body /\ pc \in {"start", "body", "wait", "done"}
  /\ resp \in {0, 200, 400, 404, 408, 413, 502, 503} /\ waiter \in {"none", "empty", "ok", "error"}
UpConns == last \in 1 .. MaxConn /\ hub \in 0 .. last /\ agent \in 0 .. last
UpQueue == send \in Seq(Note) /\ Len(send) <= Depth
UpAgent == up \in Seq({"ok", "error"}) /\ file \in Seq(1 .. MaxBody)
UpCount == faults \in 0 .. MaxFaults
UpFlags == open \in BOOLEAN /\ late \in BOOLEAN /\ upWrite \in {"ok", "past", "fatal"}
UpTypes == UpReq /\ UpConns /\ UpQueue /\ UpAgent /\ UpCount /\ UpFlags

\* The invariant of an upload
UpIInv == UpTypes /\ UpOrder /\ UpStart /\ UpClosed /\ UpExact /\ UpWhole

\* What one request step may do to the channel, the timers and the fault count
LEMMA UpNotes ==
  /\ msg("begin", 0) \in Note /\ msg("finish", 0) \in Note /\ msg("abort", 0) \in Note
  /\ \A n \in 0 .. MaxBody : msg("chunk", n) \in Note
BY DEF msg, Note

\* A step of the handler; the connection and the agent rest.
HandlerSteps == Begin \/ NoAsset \/ Chunk \/ BodyFails \/ Finish \/ Result \/ UpTimeout

\* What the agent may do with the message m
AgentDoes(m) ==
  \/ m.action = "begin" /\ ~open /\ open' /\ file' = << >> /\ up' = up
  \/ m.action = "chunk" /\ open /\ open' /\ file' = Append(file, m.n) /\ up' = up
  \/ m.action = "finish" /\ open /\ ~open' /\ file' = file /\ up' = Append(up, "ok")
  \/ ~open' /\ file' = file /\ up' = Append(up, "error")
  \/ ~open' /\ file' = file /\ up' = up

\* Handle takes the head of the queue and does one of these with it.
LEMMA UpAgentDoes ==
  ASSUME UpTypes, Handle
  PROVE  /\ agent # 0 /\ agent = hub /\ send # << >> /\ send' = Tail(send)
         /\ AgentDoes(Head(send)) /\ UNCHANGED <<reqVars, connVars>>
<1>1. agent # 0 /\ agent = hub /\ send # << >> /\ send' = Tail(send) /\ UNCHANGED <<reqVars, connVars>>
  BY DEF Handle
<1>2. Head(send).action \in {"begin", "chunk", "finish", "abort"}
  <2>1. Head(send) \in Note BY <1>1 DEF UpTypes, UpQueue
  <2> QED BY <2>1 DEF Note
<1>3. \/ Head(send).action = "begin" /\ AgentBegin
      \/ Head(send).action = "finish" /\ AgentFinish
      \/ Head(send).action = "abort" /\ AgentAbort
      \/ Head(send).action = "chunk" /\ AgentChunk(Head(send).n)
  BY <1>2 DEF Handle
<1>4. AgentDoes(Head(send))
  BY <1>3, Zenon DEF AgentDoes, AgentBegin, AgentFinish, AgentAbort, AgentChunk, reply, quiet
<1> QED BY <1>1, <1>4

\* A connection is lost, forgotten by the hub, or made.
Lost == agent' = 0 /\ up' = << >> /\ UNCHANGED <<hub, last, send>>
Forgotten == hub # 0 /\ hub # agent /\ hub' = 0 /\ send' = << >> /\ UNCHANGED <<agent, last, up>>
Made == agent = 0 /\ last < MaxConn /\ last' = last + 1 /\ agent' = last' /\ hub' = last' /\ send' = << >> /\ up' = up

\* What becomes of a connection never opens a file.
LEMMA UpConnects ==
  ASSUME Disconnect \/ AgentRestart \/ Unregister \/ Connect
  PROVE  (Lost \/ Forgotten \/ Made) /\ (open' => open) /\ UNCHANGED <<reqVars, file>>
<1>1. CASE Disconnect BY <1>1, Zenon DEF Disconnect, Lost
<1>2. CASE AgentRestart BY <1>2, Zenon DEF AgentRestart, Lost
<1>3. CASE Unregister BY <1>3, Zenon DEF Unregister, Forgotten
<1>4. CASE Connect BY <1>4, Zenon DEF Connect, Made
<1> QED BY <1>1, <1>2, <1>3, <1>4

\* Faults are counted up to their bound, and flags stay flags.
LEMMA UpCounts ==
  ASSUME UpTypes, UpNext
  PROVE  UpCount' /\ UpFlags'
<1>1. UNCHANGED faults \/ (faults < MaxFaults /\ faults' = faults + 1)
  BY Zenon DEF UpNext, Begin, NoAsset, Chunk, BodyFails, Finish, Result, UpTimeout, Deliver, Handle, UpDeadline, Disconnect,
     AgentRestart, Unregister, Connect, AgentBegin, AgentFinish, AgentAbort, AgentChunk, Dispatched,
     Undispatched, fault, noFault, timer
<1>2. UpCount' BY <1>1 DEF UpTypes, UpCount
<1>3. UNCHANGED late \/ late' = TRUE
  BY Zenon DEF UpNext, Begin, NoAsset, Chunk, BodyFails, Finish, Result, UpTimeout, Deliver, Handle, UpDeadline, Disconnect,
     AgentRestart, Unregister, Connect, AgentBegin, AgentFinish, AgentAbort, AgentChunk, Dispatched,
     Undispatched, fault, noFault, timer
<1>4. UNCHANGED open \/ open' \in BOOLEAN
  BY Zenon DEF UpNext, Begin, NoAsset, Chunk, BodyFails, Finish, Result, UpTimeout, Deliver, Handle, UpDeadline, Disconnect,
     AgentRestart, Unregister, Connect, AgentBegin, AgentFinish, AgentAbort, AgentChunk
<1>5. UNCHANGED upWrite \/ upWrite' \in {"ok", "past", "fatal"}
  BY Zenon DEF UpNext, Begin, NoAsset, Chunk, BodyFails, Finish, Result, UpTimeout, Deliver, Handle, UpDeadline, Disconnect,
     AgentRestart, Unregister, Connect, AgentBegin, AgentFinish, AgentAbort, AgentChunk, reply, quiet
<1>6. UpFlags' BY <1>3, <1>4, <1>5, Zenon DEF UpTypes, UpFlags
<1> QED BY <1>2, <1>6

\* The handler's steps keep the types.
LEMMA UpHandlerTypes ==
  ASSUME UpTypes, HandlerSteps
  PROVE  UpTypes'
<1>0. UpNext BY DEF UpNext, HandlerSteps
<1>1. UNCHANGED <<body, hub, agent, last, up, open, file>>
  BY DEF HandlerSteps, Begin, NoAsset, Chunk, BodyFails, Finish, Result, UpTimeout, connVars
<1>2. UpConns' /\ UpAgent' BY <1>1 DEF UpTypes, UpConns, UpAgent
<1>3. UpCount' /\ UpFlags' BY <1>0, UpCounts
<1>4. UpReq'
  <2>1. ASSUME NEW k \in {200, 400, 404, 408, 413, 502, 503}, answer(k), sent' = sent PROVE UpReq'
    BY <1>1, <2>1 DEF UpTypes, UpReq, answer
  <2>2. CASE Begin BY <1>1, <2>1, <2>2 DEF UpTypes, UpReq, Begin
  <2>3. CASE Chunk BY <1>1, <2>1, <2>3 DEF UpTypes, UpReq, Chunk
  <2>4. CASE Finish BY <1>1, <2>1, <2>4 DEF UpTypes, UpReq, Finish
  <2>5. CASE Result BY <1>1, <2>1, <2>5 DEF UpTypes, UpReq, Result
  <2>6. CASE NoAsset \/ BodyFails \/ UpTimeout BY <1>1, <2>1, <2>6 DEF NoAsset, BodyFails, UpTimeout
  <2> QED BY <2>2, <2>3, <2>4, <2>5, <2>6 DEF HandlerSteps
<1>5. UpQueue'
  <2>0. send \in Seq(Note) /\ Len(send) \in Nat /\ Len(send) <= Depth BY DEF UpTypes, UpQueue
  <2>1. ASSUME NEW m \in Note, send' = Append(send, m), Len(send) < Depth PROVE UpQueue'
    BY <2>0, <2>1 DEF UpQueue
  <2>2. ASSUME NEW m \in Note, Dispatched(m) PROVE UpQueue' BY <2>1, <2>2 DEF Dispatched
  <2>3. ASSUME send' = send PROVE UpQueue' BY <2>0, <2>3 DEF UpQueue
  <2>4. CASE Begin BY <2>2, <2>3, <2>4, UpNotes DEF Begin, Undispatched
  <2>5. CASE Chunk
    <3>1. msg("chunk", sent + 1) \in Note
      <4>1. sent + 1 \in 0 .. MaxBody BY <2>5 DEF Chunk, UpTypes, UpReq
      <4> QED BY <4>1, UpNotes
    <3> QED BY <2>2, <2>3, <2>5, <3>1, UpNotes DEF Chunk, Undispatched
  <2>6. CASE Finish BY <2>2, <2>3, <2>6, UpNotes DEF Finish, Undispatched
  <2>7. CASE BodyFails BY <2>1, <2>3, <2>7, UpNotes DEF BodyFails
  <2>8. CASE NoAsset \/ Result \/ UpTimeout BY <2>3, <2>8 DEF NoAsset, Result, UpTimeout
  <2> QED BY <2>4, <2>5, <2>6, <2>7, <2>8 DEF HandlerSteps
<1> QED BY <1>2, <1>3, <1>4, <1>5 DEF UpTypes

\* So do the agent's and the connection's.
LEMMA UpOtherTypes ==
  ASSUME UpTypes, UpOrder, Deliver \/ Handle \/ Disconnect \/ AgentRestart \/ Unregister \/ Connect
  PROVE  UpTypes'
<1>0. send \in Seq(Note) /\ Len(send) \in Nat /\ Len(send) <= Depth BY DEF UpTypes, UpQueue
<1>4. /\ << >> \in Seq(Note) /\ Len(<< >>) <= Depth
      /\ << >> \in Seq({"ok", "error"}) /\ << >> \in Seq(1 .. MaxBody)
  OBVIOUS
<1>5. UpCount' /\ UpFlags'
  <2>1. UpNext BY DEF UpNext
  <2> QED BY <2>1, UpCounts
<1>1. CASE Deliver
  <2>1. Head(up) \in {"ok", "error"} /\ Tail(up) \in Seq({"ok", "error"}) BY <1>1 DEF Deliver, UpTypes, UpAgent
  <2>2. UpReq' /\ UpAgent' BY <1>1, <2>1 DEF UpTypes, UpReq, UpAgent, Deliver
  <2>3. UpConns' /\ UpQueue' BY <1>1 DEF UpTypes, UpConns, UpQueue, Deliver, connVars
  <2> QED BY <1>5, <2>2, <2>3 DEF UpTypes
<1>2. CASE Handle
  <2>0. /\ send # << >> /\ send' = Tail(send) /\ AgentDoes(Head(send)) /\ UNCHANGED <<reqVars, connVars>>
    BY <1>2, UpAgentDoes
  <2>1. UpReq' /\ UpConns' BY <2>0 DEF UpTypes, UpReq, UpConns, reqVars, connVars
  <2>2. /\ Tail(send) \in Seq(Note) /\ Len(Tail(send)) <= Depth /\ Head(send) = send[1] /\ 1 \in 1 .. Len(send)
    BY <1>0, <2>0
  <2>3. UpQueue' BY <2>0, <2>2 DEF UpQueue
  <2>6. UpAgent'
    <3>0. up \in Seq({"ok", "error"}) /\ file \in Seq(1 .. MaxBody) BY DEF UpTypes, UpAgent
    <3>4. Append(up, "ok") \in Seq({"ok", "error"}) /\ Append(up, "error") \in Seq({"ok", "error"}) BY <3>0
    <3>1. up' \in Seq({"ok", "error"}) BY <2>0, <3>0, <3>4 DEF AgentDoes
    <3>2. Head(send).action = "chunk" => Head(send).n \in 1 .. MaxBody
      BY <2>2 DEF UpOrder, UpTypes, UpReq
    <3>5. Head(send).action = "chunk" => Append(file, Head(send).n) \in Seq(1 .. MaxBody) BY <3>0, <3>2
    <3>3. file' \in Seq(1 .. MaxBody) BY <1>4, <2>0, <3>0, <3>5 DEF AgentDoes
    <3> QED BY <3>1, <3>3 DEF UpAgent
  <2> QED BY <1>5, <2>1, <2>3, <2>6 DEF UpTypes
<1>3. CASE Disconnect \/ AgentRestart \/ Unregister \/ Connect
  <2>0. (Lost \/ Forgotten \/ Made) /\ UNCHANGED <<reqVars, file>> BY <1>3, UpConnects
  <2>1. UpReq' BY <2>0 DEF UpTypes, UpReq, reqVars
  <2>2. UpConns' BY <2>0 DEF UpTypes, UpConns, Lost, Forgotten, Made
  <2>3. UpQueue' BY <1>4, <2>0 DEF UpTypes, UpQueue, Lost, Forgotten, Made
  <2>4. UpAgent' BY <1>4, <2>0 DEF UpTypes, UpAgent, Lost, Forgotten, Made
  <2> QED BY <1>5, <2>1, <2>2, <2>3, <2>4 DEF UpTypes
<1> QED BY <1>1, <1>2, <1>3

\* One message more in the session's channel; the connection and the agent rest.
Queued(m) ==
  /\ Len(send') = Len(send) + 1
  /\ \A i \in 1 .. Len(send') : \/ i \in 1 .. Len(send) /\ send'[i] = send[i]
                                \/ i = Len(send) + 1 /\ send'[i] = m
  /\ \A i \in 1 .. Len(send) : i \in 1 .. Len(send') /\ send'[i] = send[i]
\* Connection and agent rest.
Rests == UNCHANGED <<body, hub, agent, last, up, file>> /\ (open' <=> open)

\* What a step of the handler may do, as what changes
HandlerDoes ==
  \/ pc = "start" /\ Queued(msg("begin", 0)) /\ pc' = "body" /\ waiter' = "empty" /\ UNCHANGED <<resp, sent>>
  \/ pc = "body" /\ sent < body /\ Queued(msg("chunk", sent + 1)) /\ sent' = sent + 1 /\ UNCHANGED <<pc, resp, waiter>>
  \/ pc = "body" /\ sent = body /\ Queued(msg("finish", 0)) /\ pc' = "wait" /\ UNCHANGED <<sent, resp, waiter>>
  \/ pc = "body" /\ Queued(msg("abort", 0)) /\ pc' = "done" /\ resp' \in {400, 413} /\ waiter' = "none" /\ sent' = sent
  \/ /\ send' = send /\ pc' = "done" /\ waiter' = "none" /\ sent' = sent
     /\ resp' \notin {200, 502} \/ (waiter = "ok" /\ resp' = 200) \/ (waiter = "error" /\ resp' = 502)

\* Every step of the handler is one of these.
LEMMA UpHandlerDoes ==
  ASSUME UpTypes, HandlerSteps
  PROVE  HandlerDoes /\ Rests
<1>1. UNCHANGED <<body, hub, agent, last, up, file>>
  BY DEF HandlerSteps, Begin, NoAsset, Chunk, BodyFails, Finish, Result, UpTimeout, connVars
<1>2. UNCHANGED open
  BY DEF HandlerSteps, Begin, NoAsset, Chunk, BodyFails, Finish, Result, UpTimeout
<1>3. Rests
  <2>1. open' <=> open BY <1>2, Zenon
  <2> QED BY <1>1, <2>1 DEF Rests
<1> SUFFICES HandlerDoes BY <1>3
<1>4. ASSUME NEW m, m \in Note, send' = Append(send, m) PROVE Queued(m)
  <2>1. send \in Seq(Note) BY DEF UpTypes, UpQueue
  <2> QED BY <1>4, <2>1 DEF Queued
<1>5. ASSUME NEW m, m \in Note, Dispatched(m) PROVE Queued(m) BY <1>4, <1>5 DEF Dispatched
<1>6. CASE Begin BY <1>5, <1>6, UpNotes DEF Begin, Undispatched, answer, HandlerDoes
<1>7. CASE Chunk
  <2>1. msg("chunk", sent + 1) \in Note
    <3>1. sent + 1 \in 0 .. MaxBody BY <1>7 DEF Chunk, UpTypes, UpReq
    <3> QED BY <3>1, UpNotes
  <2> QED BY <1>5, <1>7, <2>1, UpNotes DEF Chunk, Undispatched, answer, HandlerDoes
<1>8. CASE Finish BY <1>5, <1>8, UpNotes DEF Finish, Undispatched, answer, HandlerDoes
<1>9. CASE BodyFails BY <1>4, <1>9, UpNotes DEF BodyFails, answer, HandlerDoes
<1>10. CASE NoAsset \/ Result \/ UpTimeout BY <1>10 DEF NoAsset, Result, UpTimeout, answer, HandlerDoes
<1> QED BY <1>6, <1>7, <1>8, <1>9, <1>10 DEF HandlerSteps

\* Lengths and chunk numbers are numbers.
UpNumbers ==
  /\ Len(send) \in Nat /\ Len(file) \in Nat /\ sent \in Nat /\ body \in Nat
  /\ \A i \in 1 .. Len(file) : file[i] \in Nat
  /\ \A i \in 1 .. Len(send) : send[i].n \in Nat

\* The invariant makes them so.
LEMMA UpHasNumbers == ASSUME UpIInv PROVE UpNumbers
<1>1. send \in Seq(Note) /\ file \in Seq(1 .. MaxBody) /\ sent \in Nat /\ body \in Nat
  BY DEF UpIInv, UpTypes, UpQueue, UpAgent, UpReq
<1>2. \A i \in 1 .. Len(send) : send[i] \in Note BY <1>1
<1>3. \A i \in 1 .. Len(send) : send[i].n \in Nat BY <1>2 DEF Note
<1>4. \A i \in 1 .. Len(file) : file[i] \in 1 .. MaxBody BY <1>1
<1> QED BY <1>1, <1>3, <1>4 DEF UpNumbers

\* A chunk continues what was sent; any other message says nothing of the order.
LEMMA UpQueuedOrder ==
  ASSUME UpIInv, NEW m, Queued(m), Rests,
         \/ m.action = "chunk" /\ m.n = sent + 1 /\ sent' = sent + 1
         \/ m.action # "chunk" /\ sent' = sent
  PROVE  UpOrder'
<1>0. UpNumbers BY UpHasNumbers
<1>1. file' = file BY DEF Rests
<1>2. /\ \A i, j \in 1 .. Len(file) : i < j => file[i] < file[j]
      /\ \A i \in 1 .. Len(file) : file[i] <= sent
      /\ \A i \in 1 .. Len(send) : send[i].action = "chunk" => send[i].n \in 1 .. sent
      /\ \A i, j \in 1 .. Len(send) : i < j /\ send[i].action = "chunk" /\ send[j].action = "chunk" => send[i].n < send[j].n
      /\ \A i \in 1 .. Len(file), j \in 1 .. Len(send) : send[j].action = "chunk" => file[i] < send[j].n
  BY DEF UpIInv, UpOrder
<1>3. \A i \in 1 .. Len(file) : file[i] <= sent' BY <1>0, <1>2 DEF UpNumbers
<1>4. ASSUME NEW i \in 1 .. Len(send'), send'[i].action = "chunk" PROVE send'[i].n \in 1 .. sent'
  BY <1>0, <1>2, <1>4 DEF Queued, UpNumbers
<1>5. ASSUME NEW i \in 1 .. Len(send'), NEW j \in 1 .. Len(send'), i < j,
             send'[i].action = "chunk", send'[j].action = "chunk"
      PROVE  send'[i].n < send'[j].n
  <2>1. i \in 1 .. Len(send) /\ send'[i] = send[i] BY <1>0, <1>5 DEF Queued, UpNumbers
  <2>2. CASE j \in 1 .. Len(send) /\ send'[j] = send[j] BY <1>2, <1>5, <2>1, <2>2
  <2>3. CASE j = Len(send) + 1 /\ send'[j] = m BY <1>0, <1>2, <1>5, <2>1, <2>3 DEF UpNumbers
  <2> QED BY <2>2, <2>3 DEF Queued
<1>6. ASSUME NEW i \in 1 .. Len(file), NEW j \in 1 .. Len(send'), send'[j].action = "chunk"
      PROVE  file[i] < send'[j].n
  <2>2. CASE j \in 1 .. Len(send) /\ send'[j] = send[j] BY <1>2, <1>6, <2>2
  <2>3. CASE j = Len(send) + 1 /\ send'[j] = m BY <1>0, <1>2, <1>6, <2>3 DEF UpNumbers
  <2> QED BY <2>2, <2>3 DEF Queued
<1> QED BY <1>1, <1>2, <1>3, <1>4, <1>5, <1>6 DEF UpOrder

\* A message that follows begin changes nothing of what is said about begin.
LEMMA UpQueuedBegun ==
  ASSUME UpIInv, NEW m, Queued(m), Rests, m.action # "begin", pc = "body", pc' # "start"
  PROVE  UpStart' /\ (Begun' <=> Begun) /\ Written' = Written
<1>1. Len(send) \in Nat BY DEF UpIInv, UpTypes, UpQueue
<1>2. UpStart' BY <1>1 DEF UpIInv, UpStart, Queued
<1>3. Begun' => Begun BY <1>1 DEF Begun, Queued
<1>4. Begun => Begun' BY <1>1 DEF Begun, Queued
<1>5. Written' = Written BY <1>3, <1>4 DEF Written, Rests
<1> QED BY <1>2, <1>3, <1>4, <1>5

\* The exact queue grows by the next chunk, or by a finish after the last.
LEMMA UpQueuedExact ==
  ASSUME UpIInv, NEW m, Queued(m), Rests, m.action # "begin", pc = "body", pc' # "start",
         Begun' <=> Begun, Written' = Written,
         \/ m.action = "chunk" /\ m.n = sent + 1 /\ sent' = sent + 1 /\ pc' = "body"
         \/ m.action = "finish" /\ sent' = sent /\ sent = body /\ pc' = "wait"
         \/ m.action = "abort" /\ sent' = sent /\ pc' = "done"
  PROVE  UpExact'
<1>0. Len(send) \in Nat /\ Len(file) \in Nat /\ sent \in Nat /\ Written \in Int
  BY DEF UpIInv, UpTypes, UpQueue, UpAgent, UpReq, Written
<1>1. UNCHANGED <<body, hub, agent, last, file>> BY DEF Rests
<1> SUFFICES ASSUME last = 1, agent # 0, open \/ ~Begun
             PROVE  /\ open /\ Begun => \A i \in 1 .. Len(file) : file[i] = i
                    /\ \A i \in 1 .. Len(send') : send'[i].action = "chunk" => send'[i].n = Written + i
                    /\ pc' = "body" => Written + Len(send') = sent'
                    /\ \A i \in 1 .. Len(send') : send'[i].action = "finish"
                         => Written + i = sent' + 1 /\ sent' = body /\ pc' \in {"wait", "done"}
  BY <1>1 DEF UpIInv, UpExact, Rests
<1>2. /\ open /\ Begun => \A i \in 1 .. Len(file) : file[i] = i
      /\ \A i \in 1 .. Len(send) : send[i].action = "chunk" => send[i].n = Written + i
      /\ Written + Len(send) = sent
      /\ \A i \in 1 .. Len(send) : send[i].action # "finish"
  BY DEF UpIInv, UpExact
<1>3. ASSUME NEW i \in 1 .. Len(send'), send'[i].action = "chunk" PROVE send'[i].n = Written + i
  BY <1>0, <1>2, <1>3 DEF Queued
<1>4. pc' = "body" => Written + Len(send') = sent' BY <1>0, <1>2 DEF Queued
<1>5. ASSUME NEW i \in 1 .. Len(send'), send'[i].action = "finish"
      PROVE  Written + i = sent' + 1 /\ sent' = body /\ pc' \in {"wait", "done"}
  BY <1>0, <1>2, <1>5 DEF Queued
<1> QED BY <1>2, <1>3, <1>4, <1>5

\* The handler preserves the invariant.
LEMMA UpHandlerStep ==
  ASSUME UpIInv, UpTypes', HandlerDoes, Rests
  PROVE  UpIInv'
<1>1. CASE pc = "start" /\ Queued(msg("begin", 0)) /\ pc' = "body" /\ waiter' = "empty" /\ UNCHANGED <<resp, sent>>
  <2>0. up = << >> /\ resp = 0 /\ sent = 0 /\ send = << >> BY <1>1 DEF UpIInv, UpStart
  <2>1. Len(send) = 0 /\ Len(send') = 1 /\ send'[1].action = "begin"
    BY <1>1, <2>0 DEF Queued, msg
  <2>3. UpOrder' BY <1>1, UpQueuedOrder DEF msg
  <2>4. UpStart' BY <1>1, <2>1 DEF UpStart
  <2>5. UpClosed' /\ UpWhole'
    <3>1. up' = << >> BY <2>0 DEF Rests
    <3>2. Len(<< >>) = 0 OBVIOUS
    <3> QED BY <1>1, <2>0, <3>1, <3>2 DEF UpClosed, UpWhole
  <2>6. ~Begun' BY <2>1 DEF Begun
  <2>7. Written' = 0 - 1 BY <2>6 DEF Written
  <2>8. hub' = 1 \/ ~(last' = 1 /\ agent' # 0) BY DEF UpIInv, UpExact, Rests
  <2>9. UpExact' BY <1>1, <2>0, <2>1, <2>6, <2>7, <2>8 DEF UpExact
  <2> QED BY <2>3, <2>4, <2>5, <2>9 DEF UpIInv
<1>2. ASSUME NEW m, Queued(m), pc = "body", pc' # "start", m.action # "begin",
             \/ m.action = "chunk" /\ m.n = sent + 1 /\ sent' = sent + 1 /\ pc' = "body"
             \/ m.action = "finish" /\ sent' = sent /\ sent = body /\ pc' = "wait"
             \/ m.action = "abort" /\ sent' = sent /\ pc' = "done",
             UNCHANGED <<resp, waiter>> \/ (resp' \notin {200, 502} /\ waiter' = "none")
      PROVE  UpIInv'
  <2>1. UpOrder' BY <1>2, UpQueuedOrder
  <2>2. UpStart' /\ (Begun' <=> Begun) /\ Written' = Written BY <1>2, UpQueuedBegun
  <2>3. UpExact' BY <1>2, <2>2, UpQueuedExact
  <2>4. UpClosed' BY <1>2, <2>2 DEF UpIInv, UpClosed, Rests
  <2>5. UpWhole' BY <1>2 DEF UpIInv, UpWhole, Whole, Rests
  <2> QED BY <2>1, <2>2, <2>3, <2>4, <2>5 DEF UpIInv
<1>3. CASE pc = "body" /\ sent < body /\ Queued(msg("chunk", sent + 1)) /\ sent' = sent + 1 /\ UNCHANGED <<pc, resp, waiter>>
  BY <1>2, <1>3 DEF msg
<1>4. CASE pc = "body" /\ sent = body /\ Queued(msg("finish", 0)) /\ pc' = "wait" /\ UNCHANGED <<sent, resp, waiter>>
  BY <1>2, <1>4 DEF msg
<1>5. CASE pc = "body" /\ Queued(msg("abort", 0)) /\ pc' = "done" /\ resp' \in {400, 413} /\ waiter' = "none" /\ sent' = sent
  BY <1>2, <1>5 DEF msg
<1>6. CASE /\ send' = send /\ pc' = "done" /\ waiter' = "none" /\ sent' = sent
           /\ resp' \notin {200, 502} \/ (waiter = "ok" /\ resp' = 200) \/ (waiter = "error" /\ resp' = 502)
  <2>2. UpOrder' BY <1>6 DEF UpIInv, UpOrder, Rests
  <2>3. UpStart' BY <1>6 DEF UpIInv, UpStart
  <2>4. Begun' <=> Begun BY <1>6 DEF Begun
  <2>5. UpClosed' BY <1>6, <2>4 DEF UpIInv, UpClosed, Rests
  <2>8. UpWhole' BY <1>6 DEF UpIInv, UpWhole, Whole, Rests
  <2>6. Written' = Written BY <2>4 DEF Written, Rests
  <2>7. UpExact' BY <1>6, <2>4, <2>6 DEF UpIInv, UpExact, Rests
  <2> QED BY <2>2, <2>3, <2>5, <2>7, <2>8 DEF UpIInv
<1> QED BY <1>1, <1>3, <1>4, <1>5, <1>6 DEF HandlerDoes

\* The message at the head of the channel has been taken.
Taken ==
  /\ Len(send) \in Nat \ {0} /\ Len(send') = Len(send) - 1
  /\ \A i \in 1 .. Len(send') : i + 1 \in 1 .. Len(send) /\ send'[i] = send[i + 1]

\* Tail takes the head.
LEMMA UpTaken ==
  ASSUME UpTypes, send # << >>, send' = Tail(send)
  PROVE  Taken /\ Head(send) = send[1]
<1>1. send \in Seq(Note) BY DEF UpTypes, UpQueue
<1> QED BY <1>1 DEF Taken

\* Only the head can be begin, so what is left has begun.
LEMMA UpTakenBegun ==
  ASSUME UpIInv, Taken, UNCHANGED reqVars
  PROVE  Begun' /\ UpStart' /\ (Begun <=> send[1].action # "begin")
<1>1. \A i \in 1 .. Len(send) : i > 1 => send[i].action # "begin" BY DEF UpIInv, UpStart
<1>2. \A i \in 1 .. Len(send') : send'[i].action # "begin" BY <1>1 DEF Taken
<1>3. Begun' BY <1>2 DEF Begun
<1>4. pc # "start"
  <2>1. Len(<< >>) = 0 OBVIOUS
  <2> QED BY <2>1 DEF Taken, UpIInv, UpStart
<1>5. UpStart' BY <1>2, <1>4 DEF UpStart, reqVars
<1>6. Begun <=> send[1].action # "begin" BY <1>1 DEF Begun, Taken
<1> QED BY <1>3, <1>5, <1>6

\* Whatever the agent does with the head, the order of what is written and queued stays.
LEMMA UpTakenOrder ==
  ASSUME UpIInv, Taken, UNCHANGED reqVars,
         \/ file' = << >>
         \/ file' = file
         \/ send[1].action = "chunk" /\ file' = Append(file, send[1].n)
  PROVE  UpOrder'
<1>0. UpNumbers BY UpHasNumbers
<1>1. sent' = sent BY DEF reqVars
<1>2. /\ \A i, j \in 1 .. Len(file) : i < j => file[i] < file[j]
      /\ \A i \in 1 .. Len(file) : file[i] <= sent
      /\ \A i \in 1 .. Len(send) : send[i].action = "chunk" => send[i].n \in 1 .. sent
      /\ \A i, j \in 1 .. Len(send) : i < j /\ send[i].action = "chunk" /\ send[j].action = "chunk" => send[i].n < send[j].n
      /\ \A i \in 1 .. Len(file), j \in 1 .. Len(send) : send[j].action = "chunk" => file[i] < send[j].n
  BY DEF UpIInv, UpOrder
<1>3. \A i \in 1 .. Len(send') : send'[i].action = "chunk" => send'[i].n \in 1 .. sent
  BY <1>2 DEF Taken
<1>4. ASSUME NEW i \in 1 .. Len(send'), NEW j \in 1 .. Len(send'), i < j,
             send'[i].action = "chunk", send'[j].action = "chunk"
      PROVE  send'[i].n < send'[j].n
  <2>1. i + 1 \in 1 .. Len(send) /\ j + 1 \in 1 .. Len(send) /\ i + 1 < j + 1
        /\ send'[i] = send[i + 1] /\ send'[j] = send[j + 1]
    BY <1>4 DEF Taken
  <2> QED BY <1>2, <1>4, <2>1
<1>5. ASSUME NEW i \in 1 .. Len(file), NEW j \in 1 .. Len(send'), send'[j].action = "chunk"
      PROVE  file[i] < send'[j].n
  <2>1. j + 1 \in 1 .. Len(send) /\ send'[j] = send[j + 1] BY DEF Taken
  <2> QED BY <1>2, <1>5, <2>1
<1>6. CASE file' = << >>
  <2>1. Len(file') = 0 BY <1>6
  <2> QED BY <1>1, <1>3, <1>4, <2>1 DEF UpOrder
<1>7. CASE file' = file BY <1>1, <1>2, <1>3, <1>4, <1>5, <1>7 DEF UpOrder
<1>8. CASE send[1].action = "chunk" /\ file' = Append(file, send[1].n)
  <2>0. 1 \in 1 .. Len(send) /\ send[1].n \in 1 .. sent BY <1>2, <1>8 DEF Taken
  <2>1. /\ Len(file') = Len(file) + 1
        /\ \A i \in 1 .. Len(file') : \/ i \in 1 .. Len(file) /\ file'[i] = file[i]
                                      \/ i = Len(file) + 1 /\ file'[i] = send[1].n
    <3>1. file \in Seq(1 .. MaxBody) BY DEF UpIInv, UpTypes, UpAgent
    <3> QED BY <1>8, <3>1
  <2>2. \A i \in 1 .. Len(file') : file'[i] <= sent BY <1>0, <1>2, <2>0, <2>1 DEF UpNumbers
  <2>3. ASSUME NEW i \in 1 .. Len(file'), NEW j \in 1 .. Len(file'), i < j
        PROVE  file'[i] < file'[j]
    <3>1. i \in 1 .. Len(file) /\ file'[i] = file[i] BY <1>0, <2>1, <2>3 DEF UpNumbers
    <3>2. CASE j \in 1 .. Len(file) /\ file'[j] = file[j] BY <1>2, <2>3, <3>1, <3>2
    <3>3. CASE j = Len(file) + 1 /\ file'[j] = send[1].n BY <1>2, <1>8, <2>0, <3>1, <3>3
    <3> QED BY <2>1, <3>2, <3>3
  <2>4. ASSUME NEW i \in 1 .. Len(file'), NEW j \in 1 .. Len(send'), send'[j].action = "chunk"
        PROVE  file'[i] < send'[j].n
    <3>1. CASE i \in 1 .. Len(file) /\ file'[i] = file[i] BY <1>5, <2>4, <3>1
    <3>2. CASE i = Len(file) + 1 /\ file'[i] = send[1].n
      <4>1. j + 1 \in 1 .. Len(send) /\ 1 < j + 1 /\ send'[j] = send[j + 1] BY DEF Taken
      <4> QED BY <1>2, <1>8, <2>0, <2>4, <3>2, <4>1
    <3> QED BY <2>1, <3>1, <3>2
  <2> QED BY <1>1, <1>3, <1>4, <2>2, <2>3, <2>4 DEF UpOrder
<1> QED BY <1>6, <1>7, <1>8

\* The queue that is left follows the file that has grown by its head.
LEMMA UpTakenExact ==
  ASSUME UpIInv, Taken, UNCHANGED <<reqVars, connVars>>, Begun', Begun <=> send[1].action # "begin",
         \/ ~open'
         \/ send[1].action = "begin" /\ file' = << >>
         \/ send[1].action = "chunk" /\ open /\ file' = Append(file, send[1].n)
  PROVE  UpExact'
<1>0. UpNumbers BY UpHasNumbers
<1>1. UNCHANGED <<body, pc, sent, hub, agent, last>> BY DEF reqVars, connVars
<1>2. Written' = Len(file') BY DEF Written
<1>3. last' = 1 /\ agent' # 0 => hub' = 1 BY <1>1 DEF UpIInv, UpExact
<1> SUFFICES ASSUME last = 1, agent # 0, open'
             PROVE  /\ \A i \in 1 .. Len(file') : file'[i] = i
                    /\ \A i \in 1 .. Len(send') : send'[i].action = "chunk" => send'[i].n = Len(file') + i
                    /\ pc = "body" => Len(file') + Len(send') = sent
                    /\ \A i \in 1 .. Len(send') : send'[i].action = "finish"
                         => Len(file') + i = sent + 1 /\ sent = body /\ pc \in {"wait", "done"}
  BY <1>1, <1>2, <1>3 DEF UpExact
<1>4. /\ Len(file') = Written + 1 /\ Written \in Int
      /\ open \/ ~Begun
      /\ open /\ Begun => \A i \in 1 .. Len(file) : file[i] = i
      /\ \A i \in 1 .. Len(file') : file'[i] = i
  <2>1. CASE send[1].action = "begin" /\ file' = << >>
    <3>1. Len(file') = 0 /\ Written = 0 - 1 BY <2>1 DEF Written
    <3> QED BY <2>1, <3>1
  <2>2. CASE send[1].action = "chunk" /\ open /\ file' = Append(file, send[1].n)
    <3>1. /\ Len(file') = Len(file) + 1
          /\ \A i \in 1 .. Len(file') : \/ i \in 1 .. Len(file) /\ file'[i] = file[i]
                                        \/ i = Len(file) + 1 /\ file'[i] = send[1].n
      <4>1. file \in Seq(1 .. MaxBody) BY DEF UpIInv, UpTypes, UpAgent
      <4> QED BY <2>2, <4>1
    <3>2. Begun /\ Written = Len(file) BY <2>2 DEF Written
    <3>3. /\ \A i \in 1 .. Len(file) : file[i] = i
          /\ \A i \in 1 .. Len(send) : send[i].action = "chunk" => send[i].n = Written + i
      BY <2>2, <3>2 DEF UpIInv, UpExact
    <3>4. send[1].n = Len(file) + 1 BY <2>2, <3>2, <3>3 DEF Taken
    <3> QED BY <1>0, <2>2, <3>1, <3>2, <3>3, <3>4 DEF UpNumbers
  <2> QED BY <2>1, <2>2
<1>5. /\ \A i \in 1 .. Len(send) : send[i].action = "chunk" => send[i].n = Written + i
      /\ pc = "body" => Written + Len(send) = sent
      /\ \A i \in 1 .. Len(send) : send[i].action = "finish"
           => Written + i = sent + 1 /\ sent = body /\ pc \in {"wait", "done"}
  BY <1>4 DEF UpIInv, UpExact
<1>6. ASSUME NEW i \in 1 .. Len(send') PROVE i + 1 \in 1 .. Len(send) /\ send'[i] = send[i + 1] /\ Written + (i + 1) = Len(file') + i
  <2>1. i + 1 \in 1 .. Len(send) /\ send'[i] = send[i + 1] BY DEF Taken
  <2>2. i \in Int OBVIOUS
  <2>3. Written + (i + 1) = Len(file') + i BY <1>4, <2>2
  <2> QED BY <2>1, <2>3
<1>7. pc = "body" => Len(file') + Len(send') = sent BY <1>4, <1>5 DEF Taken
<1>8. ASSUME NEW i \in 1 .. Len(send'), send'[i].action = "chunk" PROVE send'[i].n = Len(file') + i
  <2>1. send[i + 1].n = Written + (i + 1) BY <1>5, <1>6, <1>8
  <2> QED BY <1>6, <2>1
<1>9. ASSUME NEW i \in 1 .. Len(send'), send'[i].action = "finish"
      PROVE  Len(file') + i = sent + 1 /\ sent = body /\ pc \in {"wait", "done"}
  <2>1. Written + (i + 1) = sent + 1 /\ sent = body /\ pc \in {"wait", "done"} BY <1>5, <1>6, <1>9
  <2> QED BY <1>6, <2>1
<1> QED BY <1>4, <1>7, <1>8, <1>9

\* The agent preserves the invariant.
LEMMA UpAgentStep ==
  ASSUME UpIInv, UpTypes', Handle
  PROVE  UpIInv'
<1>0. /\ agent # 0 /\ agent = hub /\ send # << >> /\ send' = Tail(send)
      /\ AgentDoes(Head(send)) /\ UNCHANGED <<reqVars, connVars>>
  BY UpAgentDoes DEF UpIInv
<1>1. Taken /\ Head(send) = send[1] BY <1>0, UpTaken DEF UpIInv
<1>2. UNCHANGED <<body, pc, sent, resp, waiter>> /\ UNCHANGED <<hub, agent, last>> BY <1>0 DEF reqVars, connVars
<1>3. Begun' /\ UpStart' /\ (Begun <=> send[1].action # "begin") BY <1>0, <1>1, UpTakenBegun
<1>4. AgentDoes(send[1]) BY <1>0, <1>1
<1>5. UpOrder' BY <1>0, <1>1, <1>4, UpTakenOrder DEF AgentDoes
<1>6. UpExact' BY <1>0, <1>1, <1>3, <1>4, UpTakenExact DEF AgentDoes
<1>7. UpClosed' BY <1>2, <1>3, <1>4 DEF UpIInv, UpClosed, AgentDoes
<1>8. UpWhole'
  <2>0. up \in Seq({"ok", "error"}) /\ Len(up) \in Nat BY DEF UpIInv, UpTypes, UpAgent
  <2> SUFFICES ASSUME last = 1, (\E i \in 1 .. Len(up') : up'[i] = "ok") \/ waiter = "ok" \/ resp = 200
               PROVE  Len(file') = body /\ \A i \in 1 .. body : file'[i] = i
    BY <1>2 DEF UpWhole, Whole
  <2>1. ASSUME (\E i \in 1 .. Len(up) : up[i] = "ok") \/ waiter = "ok" \/ resp = 200
        PROVE  Len(file') = body /\ \A i \in 1 .. body : file'[i] = i
    <3>1. up # << >> \/ waiter = "ok" \/ resp = 200
      <4>1. Len(<< >>) = 0 OBVIOUS
      <4> QED BY <2>1, <4>1
    <3>2. ~open /\ Begun BY <3>1 DEF UpIInv, UpClosed
    <3>3. file' = file BY <1>3, <1>4, <3>2 DEF AgentDoes
    <3> QED BY <2>1, <3>3 DEF UpIInv, UpWhole, Whole
  <2>2. CASE up' = up BY <2>1, <2>2
  <2>3. CASE up' = Append(up, "error")
    <3>1. /\ Len(up') = Len(up) + 1
          /\ \A i \in 1 .. Len(up') : (i \in 1 .. Len(up) /\ up'[i] = up[i]) \/ up'[i] = "error"
      BY <2>0, <2>3
    <3> QED BY <2>1, <3>1
  <2>4. CASE send[1].action = "finish" /\ open /\ file' = file
    <3>1. Begun /\ Written = Len(file) BY <1>3, <2>4 DEF Written
    <3>2. /\ \A i \in 1 .. Len(file) : file[i] = i
          /\ \A i \in 1 .. Len(send) : send[i].action = "finish" => Written + i = sent + 1 /\ sent = body
      BY <1>0, <2>4, <3>1 DEF UpIInv, UpExact
    <3>3. Len(file) + 1 = sent + 1 /\ sent = body BY <1>1, <2>4, <3>1, <3>2 DEF Taken
    <3>4. UpNumbers BY UpHasNumbers
    <3> QED BY <2>4, <3>2, <3>3, <3>4 DEF UpNumbers
  <2> QED BY <1>4, <2>2, <2>3, <2>4 DEF AgentDoes
<1> QED BY <1>3, <1>5, <1>6, <1>7, <1>8 DEF UpIInv

\* So does the delivery of its answer.
LEMMA UpDeliverStep ==
  ASSUME UpIInv, UpTypes', Deliver
  PROVE  UpIInv'
<1>1. UNCHANGED <<body, pc, sent, resp, hub, agent, last, send, file>> /\ UNCHANGED open
  BY DEF Deliver, connVars
<1>2. open' <=> open BY <1>1, Zenon
<1>3. UpOrder' BY <1>1 DEF UpIInv, UpOrder
<1>4. up # << >> /\ up' = Tail(up) /\ waiter' \in {waiter, up[1]} /\ up \in Seq({"ok", "error"})
      /\ Len(up') = Len(up) - 1 /\ Len(up) \in Nat \ {0}
      /\ \A i \in 1 .. Len(up') : up'[i] = up[i + 1]
  BY DEF Deliver, UpIInv, UpTypes, UpAgent
<1>5. UpStart' BY <1>1, <1>4 DEF UpIInv, UpStart
<1>6. Begun' <=> Begun BY <1>1 DEF Begun
<1>7. Written' = Written BY <1>1, <1>6 DEF Written
<1>8. UpClosed' BY <1>1, <1>2, <1>4, <1>6 DEF UpIInv, UpClosed
<1>9. UpExact' BY <1>1, <1>2, <1>6, <1>7 DEF UpIInv, UpExact
<1>10. UpWhole' BY <1>1, <1>4 DEF UpIInv, UpWhole, Whole
<1> QED BY <1>3, <1>5, <1>8, <1>9, <1>10 DEF UpIInv

\* So do the loss, the removal and the making of a connection.
LEMMA UpConnStep ==
  ASSUME UpIInv, UpTypes', Disconnect \/ AgentRestart \/ Unregister \/ Connect
  PROVE  UpIInv'
<1>1. (Lost \/ Forgotten \/ Made) /\ (open' => open) /\ UNCHANGED <<body, pc, sent, resp, waiter, file>>
  BY UpConnects DEF reqVars
<1>2. Len(<< >>) = 0 OBVIOUS
<1>3. send' = send \/ send' = << >> BY <1>1 DEF Lost, Forgotten, Made
<1>4. up' = up \/ up' = << >> BY <1>1 DEF Lost, Forgotten, Made
<1>5. UpOrder'
  <2>1. CASE send' = send BY <1>1, <2>1 DEF UpIInv, UpOrder
  <2>2. CASE send' = << >> BY <1>1, <1>2, <2>2 DEF UpIInv, UpOrder
  <2> QED BY <1>3, <2>1, <2>2
<1>6. UpStart' BY <1>1, <1>2, <1>3, <1>4 DEF UpIInv, UpStart
<1>7. Begun => Begun' BY <1>2, <1>3 DEF Begun
<1>8. UpClosed' BY <1>1, <1>4, <1>7 DEF UpIInv, UpClosed
<1>9. UpExact'
  <2>1. CASE Lost BY <2>1 DEF Lost, UpExact
  <2>2. CASE Forgotten BY <2>2 DEF UpIInv, UpExact, Forgotten, UpTypes, UpConns
  <2>3. CASE Made BY <2>3 DEF UpIInv, UpExact, Made, UpTypes, UpConns
  <2> QED BY <1>1, <2>1, <2>2, <2>3
<1>10. UpWhole'
  <2>1. last' = 1 => last = 1 BY <1>1 DEF Lost, Forgotten, Made, UpIInv, UpTypes, UpConns
  <2> QED BY <1>1, <1>2, <1>4, <2>1 DEF UpIInv, UpWhole, Whole
<1> QED BY <1>5, <1>6, <1>8, <1>9, <1>10 DEF UpIInv

\* Nothing is under way at first.
LEMMA UpInitInv == UpInit => UpIInv
<1> SUFFICES ASSUME UpInit PROVE UpIInv OBVIOUS
<1>0. Len(<< >>) = 0 /\ << >> \in Seq(Note) /\ << >> \in Seq({"ok", "error"}) /\ << >> \in Seq(1 .. MaxBody)
  OBVIOUS
<1>1. UpReq /\ UpConns /\ UpQueue /\ UpAgent /\ UpCount
  BY <1>0 DEF UpInit, UpReq, UpConns, UpQueue, UpAgent, UpCount
<1>2. UpFlags BY Zenon DEF UpInit, UpFlags
<1>3. UpOrder /\ UpStart BY <1>0 DEF UpInit, UpOrder, UpStart
<1>4. UpClosed BY DEF UpInit, UpClosed
<1>5. Begun /\ Written = 0 BY <1>0 DEF UpInit, Begun, Written
<1>6. ~open BY Zenon DEF UpInit
<1>7. UpExact BY <1>5, <1>6 DEF UpInit, UpExact
<1>8. UpWhole BY <1>0 DEF UpInit, UpWhole
<1> QED BY <1>1, <1>2, <1>3, <1>4, <1>7, <1>8 DEF UpIInv, UpTypes

\* Every step of an upload preserves it.
LEMMA UpStep ==
  ASSUME UpIInv, UpNext \/ UNCHANGED upVars
  PROVE  UpIInv'
<1>1. CASE UNCHANGED upVars \/ UpDeadline
  <2>1. UNCHANGED <<body, pc, sent, resp, waiter, hub, agent, last, send, up, file, faults>> /\ UNCHANGED <<open, late>>
    BY <1>1 DEF upVars, reqVars, connVars, UpDeadline
  <2>2. open' <=> open BY <2>1, Zenon
  <2>9. upWrite' = upWrite \/ upWrite' = "past" \/ upWrite' = "ok" BY <1>1 DEF upVars, UpDeadline
  <2>3. UpFlags' BY <2>1, <2>9, Zenon DEF UpIInv, UpTypes, UpFlags
  <2>4. UpReq' /\ UpConns' /\ UpQueue' /\ UpAgent' /\ UpCount'
    BY <2>1 DEF UpIInv, UpTypes, UpReq, UpConns, UpQueue, UpAgent, UpCount
  <2>5. UpOrder' /\ UpStart' BY <2>1 DEF UpIInv, UpOrder, UpStart
  <2>6. (Begun' <=> Begun) /\ UpWhole' BY <2>1 DEF UpIInv, Begun, UpWhole, Whole
  <2>7. Written' = Written BY <2>1, <2>6 DEF Written
  <2>8. UpClosed' /\ UpExact' BY <2>1, <2>2, <2>6, <2>7 DEF UpIInv, UpClosed, UpExact
  <2> QED BY <2>3, <2>4, <2>5, <2>6, <2>8 DEF UpIInv, UpTypes
<1>2. CASE HandlerSteps BY <1>2, UpHandlerTypes, UpHandlerDoes, UpHandlerStep DEF UpIInv
<1>3. ASSUME Deliver \/ Handle \/ Disconnect \/ AgentRestart \/ Unregister \/ Connect PROVE UpTypes'
  BY <1>3, UpOtherTypes DEF UpIInv
<1>4. CASE Deliver BY <1>3, <1>4, UpDeliverStep
<1>5. CASE Handle BY <1>3, <1>5, UpAgentStep
<1>6. CASE Disconnect \/ AgentRestart \/ Unregister \/ Connect BY <1>3, <1>6, UpConnStep
<1> QED BY <1>1, <1>2, <1>4, <1>5, <1>6 DEF UpNext, HandlerSteps

\* It says what the run checks.
LEMMA UpInvHolds == UpIInv => UpTypeOK /\ WrittenInOrder /\ AnsweredIsClosed /\ AcknowledgedIsComplete
<1> SUFFICES ASSUME UpIInv PROVE UpTypeOK /\ WrittenInOrder /\ AnsweredIsClosed /\ AcknowledgedIsComplete OBVIOUS
<1>1. UpTypeOK BY Zenon DEF UpIInv, UpTypes, UpReq, UpConns, UpQueue, UpAgent, UpCount, UpFlags, UpTypeOK, Note
<1>2. file \in Seq(1 .. MaxBody) /\ DOMAIN file = 1 .. Len(file) BY DEF UpIInv, UpTypes, UpAgent
<1>3. WrittenInOrder BY <1>2 DEF UpIInv, UpOrder, WrittenInOrder
<1>4. AnsweredIsClosed BY DEF UpIInv, UpClosed, AnsweredIsClosed
<1>5. AcknowledgedIsComplete
  <2> SUFFICES ASSUME last = 1, resp = 200 PROVE file = [i \in 1 .. body |-> i] BY DEF AcknowledgedIsComplete
  <2>1. Whole BY DEF UpIInv, UpWhole
  <2> QED BY <1>2, <2>1 DEF Whole
<1> QED BY <1>1, <1>3, <1>4, <1>5

HIDE UploadAssumption

-----------------------------------------------------------------------------
(* Downloads. *)

USE DownloadAssumption

\* The types of faults, numbers, places, queues and flags
DownCount == downFaults \in 0 .. MaxDownFaults
DownNums == size \in 0 .. MaxFile /\ next \in 1 .. size + 1
DownPcs ==
  /\ copy \in {"start", "copy", "done"} /\ reader \in {"none", "asked", "reading", "done"}
  /\ end \in {"none", "refused", "eof", "error", "timeout", "client"}
DownSeqs ==
  /\ out \in Seq(1 .. MaxFile) /\ ch \in Seq(Message) /\ Len(ch) <= ChanCap
  /\ wire \in Seq(Message) /\ Len(wire) <= Wire
DownFlags == listening \in BOOLEAN /\ linked \in BOOLEAN /\ downWrite \in {"ok", "past", "fatal"}
DownTypes == DownCount /\ DownNums /\ DownPcs /\ DownSeqs /\ DownFlags

\* The waiter stands while the copy loop runs; a broken connection carries nothing; before the
\* file is open nothing is under way; how the request ended is known when it is over.
DownFlow ==
  /\ copy = "copy" <=> listening
  /\ ~linked => wire = << >>
  /\ reader \in {"none", "asked"} => next = 1 /\ wire = << >> /\ ch = << >> /\ out = << >>
  /\ copy = "start" => reader = "none"
  /\ copy # "done" => end = "none"

\* The data of a sequence of messages rises, precedes that of another, and is read already.
Rising(s) == \A i, j \in 1 .. Len(s) : i < j /\ s[i].kind = "data" /\ s[j].kind = "data" => s[i].n < s[j].n
\* s precedes t.
Before(s, t) ==
  \A i \in 1 .. Len(s), j \in 1 .. Len(t) : s[i].kind = "data" /\ t[j].kind = "data" => s[i].n < t[j].n
\* What s carries has been read from the file.
Within(s, k) == \A i \in 1 .. Len(s) : s[i].kind = "data" => s[i].n \in 1 .. k - 1

\* The same of the response
Climbs(o) == \A i, j \in 1 .. Len(o) : i < j => o[i] < o[j]
Precedes(o, t) == \A i \in 1 .. Len(o), j \in 1 .. Len(t) : t[j].kind = "data" => o[i] < t[j].n
Below(o, k) == \A i \in 1 .. Len(o) : o[i] < k

\* The response, the channel, the wire and the part still to be read follow one another.
DownOrder ==
  /\ Climbs(out) /\ Below(out, next) /\ Precedes(out, ch) /\ Precedes(out, wire)
  /\ Rising(ch) /\ Within(ch, next) /\ Before(ch, wire)
  /\ Rising(wire) /\ Within(wire, next)

\* While the copy loop runs on a file smaller than the channel, every message is at its place:
\* response, channel and wire hold no more than the file and its end.
DownPlaced ==
  /\ \A i \in 1 .. Len(ch) : ch[i].kind = "data" => ch[i].n = Len(out) + i
  /\ \A i \in 1 .. Len(ch) : ch[i].kind = "eof" => Len(out) + i = size + 1
  /\ \A i \in 1 .. Len(wire) : wire[i].kind = "data" => wire[i].n = Len(out) + Len(ch) + i
  /\ \A i \in 1 .. Len(wire) : wire[i].kind = "eof" => Len(out) + Len(ch) + i = size + 1
  /\ Len(out) + Len(ch) + Len(wire) <= size + 1
  /\ reader = "reading" /\ linked => Len(out) + Len(ch) + Len(wire) = next - 1

\* A file smaller than the channel: what is written is its beginning, and all of it at its end.
DownExact ==
  size < ChanCap => /\ \A i \in 1 .. Len(out) : out[i] = i
                    /\ copy = "copy" => DownPlaced
                    /\ end = "eof" => Len(out) = size

\* The invariant of a download
DownIInv == DownTypes /\ DownFlow /\ DownOrder /\ DownExact

-----------------------------------------------------------------------------
\* What a step of the download may do, as what changes

\* The handler begins, or refuses.
DownStarts ==
  /\ copy = "start" /\ UNCHANGED <<size, ch, out, next, wire, downFaults>> /\ (linked' <=> linked)
  /\ \/ copy' = "copy" /\ listening' /\ end' = end /\ (reader' = "asked" \/ (reader' = "done" /\ ~linked))
     \/ copy' = "done" /\ end' = "refused" /\ ~listening' /\ reader' = reader

\* The copy loop writes a chunk.
DownCopies ==
  /\ copy = "copy" /\ ch # << >> /\ ch' = Tail(ch) /\ Head(ch).kind = "data" /\ out' = Append(out, Head(ch).n)
  /\ (listening' <=> listening) /\ (linked' <=> linked)
  /\ UNCHANGED <<size, copy, end, reader, next, wire, downFaults>>

\* The copy loop ends.
DownLeaves ==
  /\ copy = "copy" /\ copy' = "done" /\ ~listening' /\ (linked' <=> linked)
  /\ \/ ch # << >> /\ ch' = Tail(ch) /\ Head(ch).kind # "data" /\ end' = Head(ch).kind
     \/ ch' = ch /\ end' \in {"timeout", "client"}
  /\ UNCHANGED <<size, out, reader, next, wire>>

\* The agent sends a chunk, the end or an error.
DownEmits ==
  /\ linked /\ Len(wire) < Wire /\ (listening' <=> listening) /\ linked'
  /\ \/ reader = "reading" /\ next <= size /\ wire' = Append(wire, chunk(next)) /\ next' = next + 1 /\ reader' = "reading"
     \/ reader = "reading" /\ next > size /\ wire' = Append(wire, eof) /\ next' = next /\ reader' = "done"
     \/ reader \in {"asked", "reading"} /\ wire' = Append(wire, err) /\ next' = next /\ reader' = "done"
  /\ UNCHANGED <<size, copy, end, ch, out>>

\* The agent opens the file, or finds that it cannot write.
DownQuiet ==
  /\ (listening' <=> listening) /\ (linked' <=> linked)
  /\ \/ reader = "asked" /\ reader' = "reading" /\ next' = next
     \/ reader \in {"asked", "reading"} /\ reader' = "done" /\ (next' = next \/ (next <= size /\ next' = next + 1))
  /\ UNCHANGED <<size, copy, end, ch, out, wire>>

\* The server's read pump hands a message on, or drops it when the channel is full.
DownDelivers ==
  /\ wire # << >> /\ wire' = Tail(wire) /\ (listening' <=> listening) /\ (linked' <=> linked)
  /\ \/ listening /\ Len(ch) < ChanCap /\ ch' = Append(ch, Head(wire))
     \/ ~(listening /\ Len(ch) < ChanCap) /\ ch' = ch
  /\ UNCHANGED <<size, copy, end, out, reader, next>>

\* The connection breaks.
DownBreaks ==
  /\ wire' = << >> /\ ~linked' /\ (listening' <=> listening)
  /\ UNCHANGED <<size, copy, end, ch, out, reader, next>>

\* Every step of a download that is not about its deadline is one of these.
LEMMA DownDoes ==
  ASSUME DownIInv, DownNext, ~DownDeadline
  PROVE  DownStarts \/ DownCopies \/ DownLeaves \/ DownEmits \/ DownQuiet \/ DownDelivers \/ DownBreaks
<1>1. CASE StartDownload
  <2>1. ~listening BY <1>1 DEF StartDownload, DownIInv, DownFlow
  <2>2. (linked' <=> linked) BY <1>1, Zenon DEF StartDownload
  <2>3. copy = "start" /\ UNCHANGED <<size, ch, out, next, wire, downFaults>> BY <1>1 DEF StartDownload
  <2>4. \/ copy' = "copy" /\ listening' /\ end' = end /\ (reader' = "asked" \/ (reader' = "done" /\ ~linked))
        \/ copy' = "done" /\ end' = "refused" /\ ~listening' /\ reader' = reader
    BY <1>1, <2>1, Zenon DEF StartDownload
  <2> QED BY <2>2, <2>3, <2>4 DEF DownStarts
<1>2. CASE Copy
  <2>1. (linked' <=> linked) BY <1>2, Zenon DEF Copy
  <2>2. CASE Head(ch).kind = "data" /\ out' = Append(out, Head(ch).n) /\ UNCHANGED <<copy, end, listening>>
    <3>1. listening' <=> listening BY <2>2, Zenon
    <3> QED BY <1>2, <2>1, <2>2, <3>1 DEF Copy, DownCopies
  <2>3. CASE Head(ch).kind # "data" /\ leave(Head(ch).kind) /\ UNCHANGED out
    BY <1>2, <2>1, <2>3, Zenon DEF Copy, DownLeaves, leave
  <2> QED BY <1>2, <2>2, <2>3 DEF Copy
<1>3. CASE DownTimeout
  <2>1. (linked' <=> linked) BY <1>3, Zenon DEF DownTimeout
  <2> QED BY <1>3, <2>1, Zenon DEF DownTimeout, DownLeaves, leave
<1>4. CASE ClientGone
  <2>1. (linked' <=> linked) BY <1>4, Zenon DEF ClientGone
  <2> QED BY <1>4, <2>1, Zenon DEF ClientGone, DownLeaves, leave
<1>5. CASE OpenFile
  <2>1. (linked' <=> linked) /\ (listening' <=> listening) BY <1>5, Zenon DEF OpenFile
  <2>2. UNCHANGED <<size, copy, end, ch, out, next>> /\ reader = "asked" BY <1>5 DEF OpenFile
  <2>3. CASE reader' = "reading" /\ UNCHANGED <<wire, downWrite, downFaults>> BY <2>1, <2>2, <2>3 DEF DownQuiet
  <2>4. CASE emit(err) /\ reader' = "done"
    <3>1. CASE Writable BY <2>1, <2>2, <2>4, <3>1, Zenon DEF Writable, emit, DownEmits
    <3>2. CASE ~Writable BY <2>1, <2>2, <2>4, <3>2, Zenon DEF emit, DownQuiet
    <3> QED BY <3>1, <3>2
  <2> QED BY <1>5, <2>3, <2>4 DEF OpenFile
<1>6. CASE Read
  <2>1. (linked' <=> linked) /\ (listening' <=> listening) BY <1>6, Zenon DEF Read
  <2>2. UNCHANGED <<size, copy, end, ch, out>> /\ reader = "reading" BY <1>6 DEF Read
  <2>3. CASE Writable BY <1>6, <2>1, <2>2, <2>3, Zenon DEF Read, Writable, emit, DownEmits
  <2>4. CASE ~Writable BY <1>6, <2>1, <2>2, <2>4, Zenon DEF Read, emit, DownQuiet
  <2> QED BY <2>3, <2>4
<1>7. CASE DeliverChunk
  <2>1. (linked' <=> linked) /\ (listening' <=> listening) BY <1>7, Zenon DEF DeliverChunk
  <2>2. wire # << >> /\ wire' = Tail(wire) /\ UNCHANGED <<size, copy, end, out, reader, next>>
    BY <1>7 DEF DeliverChunk
  <2>3. \/ listening /\ Len(ch) < ChanCap /\ ch' = Append(ch, Head(wire))
        \/ ~(listening /\ Len(ch) < ChanCap) /\ ch' = ch
    BY <1>7 DEF DeliverChunk
  <2> QED BY <2>1, <2>2, <2>3 DEF DownDelivers
<1>8. CASE LinkBreaks
  <2>1. ~linked' /\ (listening' <=> listening) BY <1>8, Zenon DEF LinkBreaks
  <2> QED BY <1>8, <2>1 DEF LinkBreaks, DownBreaks
<1> QED BY <1>1, <1>2, <1>3, <1>4, <1>5, <1>6, <1>7, <1>8 DEF DownNext

-----------------------------------------------------------------------------

\* t is s without its head; t is s with x at its end.
Shorter(s, t) ==
  /\ Len(s) \in Nat \ {0} /\ Len(t) = Len(s) - 1
  /\ \A i \in 1 .. Len(t) : i + 1 \in 1 .. Len(s) /\ t[i] = s[i + 1]
Longer(s, t, x) ==
  /\ Len(s) \in Nat /\ Len(t) = Len(s) + 1
  /\ \A i \in 1 .. Len(t) : \/ i \in 1 .. Len(s) /\ t[i] = s[i]
                            \/ i = Len(s) + 1 /\ t[i] = x

\* Tail drops the head.
LEMMA TailIsShorter ==
  ASSUME NEW S, NEW s \in Seq(S), s # << >>
  PROVE  Shorter(s, Tail(s)) /\ Head(s) = s[1] /\ 1 \in 1 .. Len(s) /\ s[1] \in S /\ Tail(s) \in Seq(S)
BY DEF Shorter

\* Append adds at the end.
LEMMA AppendIsLonger ==
  ASSUME NEW S, NEW s \in Seq(S), NEW x
  PROVE  Longer(s, Append(s, x), x)
BY DEF Longer

\* What the rest of a sequence keeps
LEMMA ShorterKeeps ==
  ASSUME NEW s, NEW t, Shorter(s, t)
  PROVE  /\ Rising(s) => Rising(t)
         /\ \A u : Before(u, s) => Before(u, t)
         /\ \A u : Before(s, u) => Before(t, u)
         /\ \A k : Within(s, k) => Within(t, k)
         /\ \A o : Precedes(o, s) => Precedes(o, t)
<1>0. \A i \in 1 .. Len(t) : i + 1 \in 1 .. Len(s) /\ t[i] = s[i + 1] BY DEF Shorter
<1>1. ASSUME Rising(s) PROVE Rising(t)
  <2> SUFFICES ASSUME NEW i \in 1 .. Len(t), NEW j \in 1 .. Len(t), i < j, t[i].kind = "data", t[j].kind = "data"
               PROVE  t[i].n < t[j].n
    BY DEF Rising
  <2>1. i + 1 < j + 1 OBVIOUS
  <2>2. i + 1 \in 1 .. Len(s) /\ t[i] = s[i + 1] /\ j + 1 \in 1 .. Len(s) /\ t[j] = s[j + 1] BY <1>0
  <2> QED BY <1>1, <2>1, <2>2 DEF Rising
<1>2. ASSUME NEW u, Before(u, s) PROVE Before(u, t) BY <1>0, <1>2 DEF Before
<1>3. ASSUME NEW u, Before(s, u) PROVE Before(t, u) BY <1>0, <1>3 DEF Before
<1>4. ASSUME NEW k, Within(s, k) PROVE Within(t, k) BY <1>0, <1>4 DEF Within
<1>5. ASSUME NEW o, Precedes(o, s) PROVE Precedes(o, t) BY <1>0, <1>5 DEF Precedes
<1> QED BY <1>1, <1>2, <1>3, <1>4, <1>5

\* A message that tells no chunk does not disturb the order, a chunk must be later than the rest.
LEMMA LongerKeeps ==
  ASSUME NEW s, NEW t, NEW x, Longer(s, t, x)
  PROVE  /\ Rising(s) /\ (x.kind = "data" => \A i \in 1 .. Len(s) : s[i].kind = "data" => s[i].n < x.n) => Rising(t)
         /\ \A u : Before(u, s) /\ (x.kind = "data" => \A i \in 1 .. Len(u) : u[i].kind = "data" => u[i].n < x.n)
              => Before(u, t)
         /\ \A u : Before(s, u) /\ (x.kind = "data" => \A i \in 1 .. Len(u) : u[i].kind = "data" => x.n < u[i].n)
              => Before(t, u)
         /\ \A k : Within(s, k) /\ (x.kind = "data" => x.n \in 1 .. k - 1) => Within(t, k)
         /\ \A o : Precedes(o, s) /\ (x.kind = "data" => \A i \in 1 .. Len(o) : o[i] < x.n) => Precedes(o, t)
<1>0. \A i \in 1 .. Len(t) : (i \in 1 .. Len(s) /\ t[i] = s[i]) \/ (i = Len(s) + 1 /\ t[i] = x) BY DEF Longer
<1>1. ASSUME Rising(s), x.kind = "data" => \A i \in 1 .. Len(s) : s[i].kind = "data" => s[i].n < x.n
      PROVE  Rising(t)
  <2> SUFFICES ASSUME NEW i \in 1 .. Len(t), NEW j \in 1 .. Len(t), i < j, t[i].kind = "data", t[j].kind = "data"
               PROVE  t[i].n < t[j].n
    BY DEF Rising
  <2>1. i \in 1 .. Len(s) /\ t[i] = s[i] BY <1>0 DEF Longer
  <2>2. CASE j \in 1 .. Len(s) /\ t[j] = s[j] BY <1>1, <2>1, <2>2 DEF Rising
  <2>3. CASE j = Len(s) + 1 /\ t[j] = x BY <1>1, <2>1, <2>3
  <2> QED BY <1>0, <2>2, <2>3
<1>2. ASSUME NEW u, Before(u, s), x.kind = "data" => \A i \in 1 .. Len(u) : u[i].kind = "data" => u[i].n < x.n
      PROVE  Before(u, t)
  BY <1>0, <1>2 DEF Before
<1>3. ASSUME NEW u, Before(s, u), x.kind = "data" => \A i \in 1 .. Len(u) : u[i].kind = "data" => x.n < u[i].n
      PROVE  Before(t, u)
  BY <1>0, <1>3 DEF Before
<1>4. ASSUME NEW k, Within(s, k), x.kind = "data" => x.n \in 1 .. k - 1 PROVE Within(t, k)
  BY <1>0, <1>4 DEF Within
<1>5. ASSUME NEW o, Precedes(o, s), x.kind = "data" => \A i \in 1 .. Len(o) : o[i] < x.n PROVE Precedes(o, t)
  BY <1>0, <1>5 DEF Precedes
<1> QED BY <1>1, <1>2, <1>3, <1>4, <1>5

\* The response grows by a chunk that follows it.
LEMMA ResponseGrows ==
  ASSUME NEW o, NEW p, NEW n, Longer(o, p, n), Climbs(o), \A i \in 1 .. Len(o) : o[i] < n
  PROVE  /\ Climbs(p)
         /\ \A k : Below(o, k) /\ n < k => Below(p, k)
         /\ \A t : Precedes(o, t) /\ (\A j \in 1 .. Len(t) : t[j].kind = "data" => n < t[j].n) => Precedes(p, t)
<1>0. \A i \in 1 .. Len(p) : (i \in 1 .. Len(o) /\ p[i] = o[i]) \/ (i = Len(o) + 1 /\ p[i] = n) BY DEF Longer
<1>1. Climbs(p)
  <2> SUFFICES ASSUME NEW i \in 1 .. Len(p), NEW j \in 1 .. Len(p), i < j PROVE p[i] < p[j]
    BY DEF Climbs
  <2>1. i \in 1 .. Len(o) /\ p[i] = o[i] BY <1>0 DEF Longer
  <2>2. CASE j \in 1 .. Len(o) /\ p[j] = o[j] BY <2>1, <2>2 DEF Climbs
  <2>3. CASE j = Len(o) + 1 /\ p[j] = n BY <2>1, <2>3
  <2> QED BY <1>0, <2>2, <2>3
<1>2. ASSUME NEW k, Below(o, k), n < k PROVE Below(p, k) BY <1>0, <1>2 DEF Below
<1>3. ASSUME NEW t, Precedes(o, t), \A j \in 1 .. Len(t) : t[j].kind = "data" => n < t[j].n PROVE Precedes(p, t)
  BY <1>0, <1>3 DEF Precedes
<1> QED BY <1>1, <1>2, <1>3

\* Faults are counted up to their bound, and flags stay flags.
LEMMA DownCounts ==
  ASSUME DownIInv, DownNext
  PROVE  DownCount' /\ DownFlags'
<1>1. UNCHANGED downFaults \/ (downFaults < MaxDownFaults /\ downFaults' = downFaults + 1)
  BY Zenon DEF DownNext, StartDownload, Copy, DownTimeout, ClientGone, OpenFile, Read, DeliverChunk, DownDeadline, LinkBreaks, downFault
<1>2. DownCount' BY <1>1 DEF DownIInv, DownTypes, DownCount
<1>3. UNCHANGED listening \/ listening' = TRUE \/ listening' = FALSE
  BY Zenon DEF DownNext, StartDownload, Copy, DownTimeout, ClientGone, OpenFile, Read, DeliverChunk, DownDeadline, LinkBreaks, leave
<1>4. UNCHANGED linked \/ linked' = FALSE
  BY Zenon DEF DownNext, StartDownload, Copy, DownTimeout, ClientGone, OpenFile, Read, DeliverChunk, DownDeadline, LinkBreaks
<1>5. UNCHANGED downWrite \/ downWrite' \in {"ok", "past", "fatal"}
  BY Zenon DEF DownNext, StartDownload, Copy, DownTimeout, ClientGone, OpenFile, Read, DeliverChunk, DownDeadline, LinkBreaks, emit
<1>6. DownFlags' BY <1>3, <1>4, <1>5, Zenon DEF DownIInv, DownTypes, DownFlags
<1> QED BY <1>2, <1>6

\* All that a step must still show once its numbers and flags are typed
DownRest == DownNums /\ DownPcs /\ DownSeqs /\ DownFlow /\ DownOrder /\ DownExact

\* Lengths and chunk numbers are numbers.
DownNumbers ==
  /\ size \in Nat /\ next \in Nat \ {0} /\ next <= size + 1 /\ size <= MaxFile
  /\ Len(out) \in Nat /\ Len(ch) \in Nat /\ Len(wire) \in Nat
  /\ \A i \in 1 .. Len(out) : out[i] \in Nat
  /\ \A i \in 1 .. Len(ch) : ch[i].n \in Nat /\ ch[i].kind \in {"data", "eof", "error"}
  /\ \A i \in 1 .. Len(wire) : wire[i].n \in Nat /\ wire[i].kind \in {"data", "eof", "error"}

\* The invariant makes them so.
LEMMA DownHasNumbers == ASSUME DownIInv PROVE DownNumbers
<1>1. out \in Seq(1 .. MaxFile) /\ ch \in Seq(Message) /\ wire \in Seq(Message)
  BY DEF DownIInv, DownTypes, DownSeqs
<1>2. size \in Nat /\ next \in Nat \ {0} /\ next <= size + 1 /\ size <= MaxFile
  BY DEF DownIInv, DownTypes, DownNums
<1>3. \A i \in 1 .. Len(out) : out[i] \in 1 .. MaxFile BY <1>1
<1>4. \A i \in 1 .. Len(ch) : ch[i] \in Message BY <1>1
<1>5. \A i \in 1 .. Len(wire) : wire[i] \in Message BY <1>1
<1>6. \A m \in Message : m.n \in Nat /\ m.kind \in {"data", "eof", "error"} BY DEF Message
<1>7. Len(out) \in Nat /\ Len(ch) \in Nat /\ Len(wire) \in Nat BY <1>1
<1> QED BY <1>2, <1>3, <1>4, <1>5, <1>6, <1>7 DEF DownNumbers

\* The start preserves the invariant: nothing is under way.
LEMMA DownStartsStep == ASSUME DownIInv, DownStarts PROVE DownRest'
<1>0. Len(<< >>) = 0 OBVIOUS
<1>1. UNCHANGED <<size, ch, out, next, wire>> /\ copy = "start" BY DEF DownStarts
<1>2. reader = "none" /\ end = "none" /\ next = 1 /\ wire = << >> /\ ch = << >> /\ out = << >>
  BY <1>1 DEF DownIInv, DownFlow
<1>3. DownNums' /\ DownSeqs' BY <1>1 DEF DownIInv, DownTypes, DownNums, DownSeqs
<1>4. DownPcs' BY <1>2 DEF DownIInv, DownTypes, DownPcs, DownStarts
<1>5. DownFlow' BY <1>1, <1>2 DEF DownIInv, DownFlow, DownStarts
<1>6. DownOrder' BY <1>1 DEF DownIInv, DownOrder
<1>7. DownNumbers BY DownHasNumbers
<1>8. reader' # "reading" BY <1>2 DEF DownStarts
<1>9. DownPlaced' BY <1>0, <1>1, <1>2, <1>7, <1>8 DEF DownPlaced, DownNumbers
<1>10. end' # "eof" BY <1>2 DEF DownStarts
<1>11. DownExact' BY <1>0, <1>1, <1>2, <1>9, <1>10 DEF DownExact
<1> QED BY <1>3, <1>4, <1>5, <1>6, <1>11 DEF DownRest

\* So does a write of the copy loop: the head of the channel continues the response.
LEMMA DownCopiesStep == ASSUME DownIInv, DownCopies PROVE DownRest'
<1>0. DownNumbers BY DownHasNumbers
<1>1. UNCHANGED <<size, copy, end, reader, next, wire>> /\ copy = "copy" BY DEF DownCopies
<1>2. ch \in Seq(Message) /\ ch # << >> /\ out \in Seq(1 .. MaxFile)
  BY DEF DownIInv, DownTypes, DownSeqs, DownCopies
<1>3. Shorter(ch, ch') /\ ch[1].kind = "data" /\ 1 \in 1 .. Len(ch) /\ ch' \in Seq(Message) /\ out' = Append(out, ch[1].n)
  BY <1>2, TailIsShorter DEF DownCopies
<1>4. Longer(out, out', ch[1].n) BY <1>2, <1>3, AppendIsLonger
<1>5. ch[1].n \in 1 .. next - 1 BY <1>3 DEF DownIInv, DownOrder, Within
<1>6. DownNums' /\ DownPcs' BY <1>1 DEF DownIInv, DownTypes, DownNums, DownPcs
<1>7. DownSeqs'
  <2>1. ch[1].n \in 1 .. MaxFile BY <1>0, <1>5 DEF DownNumbers
  <2>2. out' \in Seq(1 .. MaxFile) BY <1>2, <1>3, <2>1
  <2>3. Len(ch') <= ChanCap BY <1>3 DEF Shorter, DownIInv, DownTypes, DownSeqs
  <2> QED BY <1>1, <1>3, <2>2, <2>3 DEF DownIInv, DownTypes, DownSeqs
<1>8. reader \notin {"none", "asked"} BY <1>2 DEF DownIInv, DownFlow
<1>9. DownFlow' BY <1>1, <1>8 DEF DownIInv, DownFlow, DownCopies
<1>10. DownOrder'
  <2>1. \A i \in 1 .. Len(out) : out[i] < ch[1].n BY <1>3 DEF DownIInv, DownOrder, Precedes
  <2>2. \A j \in 1 .. Len(wire) : wire[j].kind = "data" => ch[1].n < wire[j].n
    BY <1>3 DEF DownIInv, DownOrder, Before
  <2>3. \A j \in 1 .. Len(ch') : ch'[j].kind = "data" => ch[1].n < ch'[j].n
    <3> SUFFICES ASSUME NEW j \in 1 .. Len(ch'), ch'[j].kind = "data" PROVE ch[1].n < ch'[j].n OBVIOUS
    <3>1. j + 1 \in 1 .. Len(ch) /\ ch'[j] = ch[j + 1] /\ 1 < j + 1 BY <1>3 DEF Shorter
    <3> QED BY <1>3, <3>1 DEF DownIInv, DownOrder, Rising
  <2>4. Rising(ch') /\ Within(ch', next) /\ Before(ch', wire) /\ Precedes(out, ch')
    BY <1>3, ShorterKeeps DEF DownIInv, DownOrder
  <2>5. Climbs(out') /\ Below(out', next) /\ Precedes(out', ch') /\ Precedes(out', wire)
    <3>1. ch[1].n < next BY <1>0, <1>5 DEF DownNumbers
    <3>2. /\ Climbs(out')
          /\ \A k : Below(out, k) /\ ch[1].n < k => Below(out', k)
          /\ \A t : Precedes(out, t) /\ (\A j \in 1 .. Len(t) : t[j].kind = "data" => ch[1].n < t[j].n) => Precedes(out', t)
      BY <1>4, <2>1, ResponseGrows DEF DownIInv, DownOrder
    <3>3. Below(out, next) /\ Precedes(out, wire) BY DEF DownIInv, DownOrder
    <3> QED BY <2>2, <2>3, <2>4, <3>1, <3>2, <3>3
  <2> QED BY <1>1, <2>4, <2>5 DEF DownIInv, DownOrder
<1>11. DownExact'
  <2> SUFFICES ASSUME size < ChanCap PROVE (\A i \in 1 .. Len(out') : out'[i] = i) /\ DownPlaced'
    BY <1>1 DEF DownExact, DownIInv, DownFlow
  <2>1. (\A i \in 1 .. Len(out) : out[i] = i) /\ DownPlaced BY <1>1 DEF DownIInv, DownExact
  <2>2. ch[1].n = Len(out) + 1 BY <1>3, <2>1 DEF DownPlaced
  <2>3. \A i \in 1 .. Len(out') : out'[i] = i BY <1>4, <2>1, <2>2 DEF Longer
  <2>4. Len(out') = Len(out) + 1 /\ Len(ch') = Len(ch) - 1 BY <1>3, <1>4 DEF Longer, Shorter
  <2>5. ASSUME NEW i \in 1 .. Len(ch')
        PROVE  i + 1 \in 1 .. Len(ch) /\ ch'[i] = ch[i + 1] /\ Len(out') + i = Len(out) + (i + 1)
    <3>1. i + 1 \in 1 .. Len(ch) /\ ch'[i] = ch[i + 1] BY <1>3 DEF Shorter
    <3>2. i \in Int OBVIOUS
    <3> QED BY <1>0, <2>4, <3>1, <3>2 DEF DownNumbers
  <2>6. Len(out') + Len(ch') = Len(out) + Len(ch) BY <1>0, <2>4 DEF DownNumbers
  <2>7. linked' <=> linked BY DEF DownCopies
  <2>8. DownPlaced'
    <3>1. \A i \in 1 .. Len(ch') : ch'[i].kind = "data" => ch'[i].n = Len(out') + i BY <2>1, <2>5 DEF DownPlaced
    <3>2. ASSUME NEW i \in 1 .. Len(ch'), ch'[i].kind = "eof" PROVE Len(out') + i = size + 1
      <4>1. i + 1 \in 1 .. Len(ch) /\ ch[i + 1].kind = "eof" BY <2>5, <3>2
      <4>2. Len(out) + (i + 1) = size + 1 BY <2>1, <4>1 DEF DownPlaced
      <4> QED BY <2>5, <4>2
    <3>3. \A i \in 1 .. Len(wire) : wire[i].kind = "data" => wire[i].n = Len(out') + Len(ch') + i
      BY <2>1, <2>6 DEF DownPlaced
    <3>4. \A i \in 1 .. Len(wire) : wire[i].kind = "eof" => Len(out') + Len(ch') + i = size + 1
      BY <2>1, <2>6 DEF DownPlaced
    <3>5. Len(out') + Len(ch') + Len(wire) <= size + 1 BY <2>1, <2>6 DEF DownPlaced
    <3>6. reader = "reading" /\ linked => Len(out') + Len(ch') + Len(wire) = next - 1 BY <2>1, <2>6 DEF DownPlaced
    <3> QED BY <1>1, <2>7, <3>1, <3>2, <3>3, <3>4, <3>5, <3>6 DEF DownPlaced
  <2> QED BY <2>3, <2>8
<1> QED BY <1>6, <1>7, <1>9, <1>10, <1>11 DEF DownRest

\* So does the end of the copy loop: eof comes when the whole file is written.
LEMMA DownLeavesStep == ASSUME DownIInv, DownLeaves PROVE DownRest'
<1>0. DownNumbers BY DownHasNumbers
<1>1. UNCHANGED <<size, out, reader, next, wire>> /\ copy' = "done" /\ copy = "copy" BY DEF DownLeaves
<1>2. ch \in Seq(Message) BY DEF DownIInv, DownTypes, DownSeqs
<1>3. \/ ch' = ch /\ end' \in {"timeout", "client"}
      \/ Shorter(ch, ch') /\ ch' \in Seq(Message) /\ 1 \in 1 .. Len(ch) /\ ch # << >>
         /\ ch[1].kind # "data" /\ end' = ch[1].kind
  <2>1. CASE ch # << >> /\ ch' = Tail(ch) /\ Head(ch).kind # "data" /\ end' = Head(ch).kind
    <3>1. Shorter(ch, Tail(ch)) /\ Head(ch) = ch[1] /\ 1 \in 1 .. Len(ch) /\ Tail(ch) \in Seq(Message)
      BY <1>2, <2>1, TailIsShorter
    <3> QED BY <2>1, <3>1
  <2> QED BY <2>1 DEF DownLeaves
<1>4. end' \in {"error", "eof", "timeout", "client"} BY <1>0, <1>3 DEF DownNumbers
<1>5. DownNums' /\ DownPcs' BY <1>1, <1>4 DEF DownIInv, DownTypes, DownNums, DownPcs
<1>6. DownSeqs'
  <2>1. Len(ch') <= ChanCap BY <1>3 DEF Shorter, DownIInv, DownTypes, DownSeqs
  <2> QED BY <1>1, <1>2, <1>3, <2>1 DEF DownIInv, DownTypes, DownSeqs
<1>7. DownFlow' BY <1>1, <1>3 DEF DownIInv, DownFlow, DownLeaves
<1>8. DownOrder'
  <2>1. CASE ch' = ch BY <1>1, <2>1 DEF DownIInv, DownOrder
  <2>2. CASE Shorter(ch, ch')
    <3>1. Rising(ch') /\ Within(ch', next) /\ Before(ch', wire) /\ Precedes(out, ch')
      BY <2>2, ShorterKeeps DEF DownIInv, DownOrder
    <3> QED BY <1>1, <3>1 DEF DownIInv, DownOrder
  <2> QED BY <1>3, <2>1, <2>2
<1>9. DownExact'
  <2> SUFFICES ASSUME size < ChanCap PROVE (\A i \in 1 .. Len(out) : out[i] = i) /\ (end' = "eof" => Len(out) = size)
    BY <1>1 DEF DownExact
  <2>1. (\A i \in 1 .. Len(out) : out[i] = i) /\ DownPlaced BY <1>1 DEF DownIInv, DownExact
  <2>2. end' = "eof" => Len(out) + 1 = size + 1 BY <1>3, <2>1 DEF DownPlaced
  <2> QED BY <1>0, <2>1, <2>2 DEF DownNumbers
<1> QED BY <1>5, <1>6, <1>7, <1>8, <1>9 DEF DownRest

\* What is read is read for good.
LEMMA LaterKeeps ==
  ASSUME NEW k \in Nat, NEW l \in Nat, k <= l
  PROVE  (\A s : Within(s, k) => Within(s, l))
<1> SUFFICES ASSUME NEW s, Within(s, k), NEW i \in 1 .. Len(s), s[i].kind = "data" PROVE s[i].n \in 1 .. l - 1
  BY DEF Within
<1>1. s[i].n \in 1 .. k - 1 BY DEF Within
<1> QED BY <1>1

\* So does what the agent sends: it follows what is on the wire.
LEMMA DownEmitsStep == ASSUME DownIInv, DownEmits PROVE DownRest'
<1>0. DownNumbers BY DownHasNumbers
<1>1. UNCHANGED <<size, copy, end, ch, out>> /\ reader \in {"asked", "reading"} /\ linked /\ linked' /\ (listening' <=> listening)
  BY DEF DownEmits
<1>2. wire \in Seq(Message) /\ Len(wire) < Wire BY DEF DownIInv, DownTypes, DownSeqs, DownEmits
<1>3. \E x \in Message :
        /\ wire' = Append(wire, x)
        /\ \/ reader = "reading" /\ next <= size /\ x.kind = "data" /\ x.n = next /\ next' = next + 1 /\ reader' = "reading"
           \/ reader = "reading" /\ next > size /\ x.kind = "eof" /\ next' = next /\ reader' = "done"
           \/ x.kind = "error" /\ next' = next /\ reader' = "done"
  <2>1. next <= size => chunk(next) \in Message BY <1>0 DEF chunk, Message, DownNumbers
  <2>2. eof \in Message /\ err \in Message BY DEF eof, err, Message
  <2>3. chunk(next).kind = "data" /\ chunk(next).n = next /\ eof.kind = "eof" /\ err.kind = "error" BY DEF chunk, eof, err
  <2> QED BY <2>1, <2>2, <2>3 DEF DownEmits
<1>4. PICK x \in Message :
        /\ wire' = Append(wire, x)
        /\ \/ reader = "reading" /\ next <= size /\ x.kind = "data" /\ x.n = next /\ next' = next + 1 /\ reader' = "reading"
           \/ reader = "reading" /\ next > size /\ x.kind = "eof" /\ next' = next /\ reader' = "done"
           \/ x.kind = "error" /\ next' = next /\ reader' = "done"
  BY <1>3
<1>5. Longer(wire, wire', x) /\ wire' \in Seq(Message) BY <1>2, <1>4, AppendIsLonger
<1>6. next' \in Nat /\ next <= next' /\ next' <= size + 1 BY <1>0, <1>4 DEF DownNumbers
<1>7. DownNums' BY <1>0, <1>1, <1>6 DEF DownIInv, DownTypes, DownNums, DownNumbers
<1>8. DownPcs' BY <1>1, <1>4 DEF DownIInv, DownTypes, DownPcs
<1>9. DownSeqs'
  <2>1. Len(wire') <= Wire BY <1>2, <1>5 DEF Longer
  <2> QED BY <1>1, <1>5, <2>1 DEF DownIInv, DownTypes, DownSeqs
<1>10. DownFlow' BY <1>1, <1>4 DEF DownIInv, DownFlow
<1>11. DownOrder'
  <2>1. /\ Climbs(out) /\ Below(out, next) /\ Precedes(out, ch) /\ Precedes(out, wire)
        /\ Rising(ch) /\ Within(ch, next) /\ Before(ch, wire) /\ Rising(wire) /\ Within(wire, next)
    BY DEF DownIInv, DownOrder
  <2>2. Below(out, next') BY <1>0, <1>6, <2>1 DEF Below, DownNumbers
  <2>3. Within(ch, next') /\ Within(wire, next') BY <1>0, <1>6, <2>1, LaterKeeps DEF DownNumbers
  <2>4. x.kind = "data" => /\ x.n = next /\ x.n \in 1 .. next' - 1
                           /\ \A i \in 1 .. Len(out) : out[i] < x.n
                           /\ \A i \in 1 .. Len(ch) : ch[i].kind = "data" => ch[i].n < x.n
                           /\ \A i \in 1 .. Len(wire) : wire[i].kind = "data" => wire[i].n < x.n
    BY <1>0, <1>4, <2>1 DEF Below, Within, DownNumbers
  <2>5. Rising(wire') BY <1>5, <2>1, <2>4, LongerKeeps
  <2>6. Before(ch, wire') BY <1>5, <2>1, <2>4, LongerKeeps
  <2>7. Within(wire', next') BY <1>5, <2>3, <2>4, LongerKeeps
  <2>8. Precedes(out, wire') BY <1>5, <2>1, <2>4, LongerKeeps
  <2> QED BY <1>1, <2>1, <2>2, <2>3, <2>5, <2>6, <2>7, <2>8 DEF DownOrder
<1>12. DownExact'
  <2> SUFFICES ASSUME size < ChanCap, copy = "copy" PROVE DownPlaced'
    BY <1>1 DEF DownExact, DownIInv
  <2>1. DownPlaced BY DEF DownIInv, DownExact
  <2>2. Len(wire') = Len(wire) + 1 BY <1>5 DEF Longer
  <2>3. Len(out) + Len(ch) + Len(wire) = next - 1
    <3>1. CASE reader = "reading" BY <1>1, <2>1, <3>1 DEF DownPlaced
    <3>2. CASE reader = "asked"
      <4>1. out = << >> /\ ch = << >> /\ wire = << >> /\ next = 1 BY <3>2 DEF DownIInv, DownFlow
      <4>2. Len(out) = 0 /\ Len(ch) = 0 /\ Len(wire) = 0 BY <4>1
      <4> QED BY <4>1, <4>2
    <3> QED BY <1>1, <3>1, <3>2
  <2>4. /\ \A i \in 1 .. Len(ch) : ch[i].kind = "data" => ch[i].n = Len(out) + i
        /\ \A i \in 1 .. Len(ch) : ch[i].kind = "eof" => Len(out) + i = size + 1
    BY <2>1 DEF DownPlaced
  <2>5. ASSUME NEW i \in 1 .. Len(wire')
        PROVE  \/ i \in 1 .. Len(wire) /\ wire'[i] = wire[i]
               \/ i = Len(wire) + 1 /\ wire'[i] = x /\ Len(out) + Len(ch) + i = next
    <3>1. CASE i \in 1 .. Len(wire) /\ wire'[i] = wire[i] BY <3>1
    <3>2. CASE i = Len(wire) + 1 /\ wire'[i] = x
      <4>1. Len(out) + Len(ch) + i = next BY <1>0, <2>3, <3>2 DEF DownNumbers
      <4> QED BY <3>2, <4>1
    <3> QED BY <1>5, <3>1, <3>2 DEF Longer
  <2>6. ASSUME NEW i \in 1 .. Len(wire'), wire'[i].kind = "data"
        PROVE  wire'[i].n = Len(out) + Len(ch) + i
    BY <1>4, <2>1, <2>5, <2>6 DEF DownPlaced
  <2>7. ASSUME NEW i \in 1 .. Len(wire'), wire'[i].kind = "eof"
        PROVE  Len(out) + Len(ch) + i = size + 1
    <3>1. CASE i \in 1 .. Len(wire) /\ wire'[i] = wire[i] BY <2>1, <2>7, <3>1 DEF DownPlaced
    <3>2. CASE wire'[i] = x /\ Len(out) + Len(ch) + i = next
      <4>1. next = size + 1 BY <1>0, <1>4, <2>7, <3>2 DEF DownNumbers
      <4> QED BY <3>2, <4>1
    <3> QED BY <2>5, <3>1, <3>2
  <2>8. Len(out) + Len(ch) + Len(wire') = next /\ next <= size + 1
    <3>1. next <= size + 1 /\ next \in Int /\ Len(out) \in Int /\ Len(ch) \in Int /\ Len(wire) \in Int
      BY <1>0 DEF DownNumbers
    <3>2. Len(wire') = Len(wire) + 1 BY <2>2
    <3>3. Len(out) + Len(ch) + Len(wire) = next - 1 BY <2>3
    <3> QED BY <3>1, <3>2, <3>3
  <2>9. reader' = "reading" => Len(out) + Len(ch) + Len(wire') = next' - 1 BY <1>0, <1>4, <2>8 DEF DownNumbers
  <2> QED BY <1>1, <2>4, <2>6, <2>7, <2>8, <2>9 DEF DownPlaced
<1> QED BY <1>7, <1>8, <1>9, <1>10, <1>11, <1>12 DEF DownRest

\* So do the steps of the agent that send nothing.
LEMMA DownQuietStep == ASSUME DownIInv, DownQuiet PROVE DownRest'
<1>0. DownNumbers BY DownHasNumbers
<1>1. UNCHANGED <<size, copy, end, ch, out, wire>> /\ (linked' <=> linked) /\ (listening' <=> listening)
  BY DEF DownQuiet
<1>2. next' \in Nat /\ next <= next' /\ next' <= size + 1 BY <1>0 DEF DownNumbers, DownQuiet
<1>3. DownNums' BY <1>0, <1>1, <1>2 DEF DownIInv, DownTypes, DownNums, DownNumbers
<1>4. DownPcs' BY <1>1 DEF DownIInv, DownTypes, DownPcs, DownQuiet
<1>5. DownSeqs' BY <1>1 DEF DownIInv, DownTypes, DownSeqs
<1>6. DownFlow' BY <1>1 DEF DownIInv, DownFlow, DownQuiet
<1>7. DownOrder'
  <2>1. Below(out, next') BY <1>0, <1>2 DEF Below, DownNumbers, DownIInv, DownOrder
  <2>2. Within(ch, next') /\ Within(wire, next')
    BY <1>0, <1>2, LaterKeeps DEF DownNumbers, DownIInv, DownOrder
  <2> QED BY <1>1, <2>1, <2>2 DEF DownIInv, DownOrder
<1>8. DownExact'
  <2> SUFFICES ASSUME size < ChanCap, copy = "copy" PROVE DownPlaced'
    BY <1>1 DEF DownExact, DownIInv
  <2>1. DownPlaced BY DEF DownIInv, DownExact
  <2>2. reader' = "reading" => Len(out) + Len(ch) + Len(wire) = next' - 1
    <3> SUFFICES ASSUME reader = "asked", next' = next PROVE Len(out) + Len(ch) + Len(wire) = next - 1
      BY DEF DownQuiet
    <3>1. out = << >> /\ ch = << >> /\ wire = << >> /\ next = 1 BY DEF DownIInv, DownFlow
    <3>2. Len(out) = 0 /\ Len(ch) = 0 /\ Len(wire) = 0 BY <3>1
    <3> QED BY <3>1, <3>2
  <2> QED BY <1>1, <2>1, <2>2 DEF DownPlaced
<1> QED BY <1>3, <1>4, <1>5, <1>6, <1>7, <1>8 DEF DownRest

\* So does a broken connection: what is lost leaves the order alone.
LEMMA DownBreaksStep == ASSUME DownIInv, DownBreaks PROVE DownRest'
<1>0. DownNumbers BY DownHasNumbers
<1>1. UNCHANGED <<size, copy, end, ch, out, reader, next>> /\ wire' = << >> /\ ~linked' /\ (listening' <=> listening)
  BY DEF DownBreaks
<1>2. Len(wire') = 0 /\ wire' \in Seq(Message) BY <1>1
<1>3. DownNums' /\ DownPcs' /\ DownSeqs' BY <1>1, <1>2 DEF DownIInv, DownTypes, DownNums, DownPcs, DownSeqs
<1>4. DownFlow' BY <1>1 DEF DownIInv, DownFlow
<1>5. Rising(wire') /\ Within(wire', next) /\ Before(ch, wire') /\ Precedes(out, wire')
  BY <1>2 DEF Rising, Within, Before, Precedes
<1>6. DownOrder' BY <1>1, <1>5 DEF DownIInv, DownOrder
<1>7. DownExact'
  <2> SUFFICES ASSUME size < ChanCap, copy = "copy" PROVE DownPlaced'
    BY <1>1 DEF DownExact, DownIInv
  <2>1. DownPlaced BY DEF DownIInv, DownExact
  <2>2. Len(out) + Len(ch) + Len(wire') <= size + 1 BY <1>0, <1>2, <2>1 DEF DownPlaced, DownNumbers
  <2> QED BY <1>1, <1>2, <2>1, <2>2 DEF DownPlaced
<1> QED BY <1>3, <1>4, <1>6, <1>7 DEF DownRest

\* So does a delivery: a small file never meets a full channel.
LEMMA DownDeliversStep == ASSUME DownIInv, DownDelivers PROVE DownRest'
<1>0. DownNumbers BY DownHasNumbers
<1>1. UNCHANGED <<size, copy, end, out, reader, next>> /\ (linked' <=> linked) /\ (listening' <=> listening)
  BY DEF DownDelivers
<1>2. ch \in Seq(Message) /\ wire \in Seq(Message) /\ wire # << >> BY DEF DownIInv, DownTypes, DownSeqs, DownDelivers
<1>3. Shorter(wire, wire') /\ Head(wire) = wire[1] /\ 1 \in 1 .. Len(wire) /\ wire[1] \in Message /\ wire' \in Seq(Message)
  BY <1>2, TailIsShorter DEF DownDelivers
<1>4. \/ listening /\ Len(ch) < ChanCap /\ Longer(ch, ch', wire[1]) /\ ch' \in Seq(Message)
      \/ ~(listening /\ Len(ch) < ChanCap) /\ ch' = ch
  <2>1. CASE listening /\ Len(ch) < ChanCap /\ ch' = Append(ch, wire[1])
    <3>1. Longer(ch, ch', wire[1]) BY <1>2, <2>1, AppendIsLonger
    <3> QED BY <1>2, <1>3, <2>1, <3>1
  <2> QED BY <1>3, <2>1 DEF DownDelivers
<1>5. DownNums' /\ DownPcs' BY <1>1 DEF DownIInv, DownTypes, DownNums, DownPcs
<1>6. DownSeqs'
  <2>1. Len(ch') <= ChanCap BY <1>4 DEF Longer, DownIInv, DownTypes, DownSeqs
  <2>2. Len(wire') <= Wire BY <1>3 DEF Shorter, DownIInv, DownTypes, DownSeqs
  <2> QED BY <1>1, <1>2, <1>3, <1>4, <2>1, <2>2 DEF DownIInv, DownTypes, DownSeqs
<1>7. reader \notin {"none", "asked"} /\ linked BY <1>2 DEF DownIInv, DownFlow
<1>8. DownFlow' BY <1>1, <1>7 DEF DownIInv, DownFlow
<1>9. DownOrder'
  <2>1. /\ Climbs(out) /\ Below(out, next) /\ Precedes(out, ch) /\ Precedes(out, wire)
        /\ Rising(ch) /\ Within(ch, next) /\ Before(ch, wire) /\ Rising(wire) /\ Within(wire, next)
    BY DEF DownIInv, DownOrder
  <2>2. Rising(wire') /\ Within(wire', next) /\ Before(ch, wire') /\ Precedes(out, wire')
    BY <1>3, <2>1, ShorterKeeps
  <2>3. CASE ch' = ch BY <1>1, <2>1, <2>2, <2>3 DEF DownOrder
  <2>4. CASE Longer(ch, ch', wire[1])
    <3>1. wire[1].kind = "data" => /\ wire[1].n \in 1 .. next - 1
                                   /\ \A i \in 1 .. Len(out) : out[i] < wire[1].n
                                   /\ \A i \in 1 .. Len(ch) : ch[i].kind = "data" => ch[i].n < wire[1].n
      BY <1>3, <2>1 DEF Within, Precedes, Before
    <3>2. wire[1].kind = "data" => \A j \in 1 .. Len(wire') : wire'[j].kind = "data" => wire[1].n < wire'[j].n
      <4> SUFFICES ASSUME wire[1].kind = "data", NEW j \in 1 .. Len(wire'), wire'[j].kind = "data"
                   PROVE  wire[1].n < wire'[j].n
        OBVIOUS
      <4>1. j + 1 \in 1 .. Len(wire) /\ wire'[j] = wire[j + 1] /\ 1 < j + 1 BY <1>3 DEF Shorter
      <4> QED BY <1>3, <2>1, <4>1 DEF Rising
    <3>3. Rising(ch') BY <2>1, <2>4, <3>1, LongerKeeps
    <3>4. Within(ch', next) BY <2>1, <2>4, <3>1, LongerKeeps
    <3>5. Precedes(out, ch') BY <2>1, <2>4, <3>1, LongerKeeps
    <3>6. Before(ch', wire') BY <2>2, <2>4, <3>2, LongerKeeps
    <3> QED BY <1>1, <2>1, <2>2, <3>3, <3>4, <3>5, <3>6 DEF DownOrder
  <2> QED BY <1>4, <2>3, <2>4
<1>10. DownExact'
  <2> SUFFICES ASSUME size < ChanCap, copy = "copy" PROVE DownPlaced'
    BY <1>1 DEF DownExact, DownIInv
  <2>1. DownPlaced BY DEF DownIInv, DownExact
  <2>2. Len(wire) \in Nat \ {0} /\ Len(wire') = Len(wire) - 1 BY <1>3 DEF Shorter
  <2>3. Longer(ch, ch', wire[1])
    <3>1. Len(ch) < ChanCap BY <1>0, <2>1, <2>2 DEF DownPlaced, DownNumbers
    <3>2. listening BY DEF DownIInv, DownFlow
    <3> QED BY <1>4, <3>1, <3>2
  <2>4. Len(ch') = Len(ch) + 1 /\ Len(out) + Len(ch') = Len(out) + Len(ch) + 1 BY <1>0, <2>3 DEF Longer, DownNumbers
  <2>5. ASSUME NEW i \in 1 .. Len(ch')
        PROVE  \/ i \in 1 .. Len(ch) /\ ch'[i] = ch[i]
               \/ ch'[i] = wire[1] /\ Len(out) + i = Len(out) + Len(ch) + 1
    <3>1. CASE i = Len(ch) + 1 /\ ch'[i] = wire[1] BY <1>0, <3>1 DEF DownNumbers
    <3> QED BY <2>3, <3>1 DEF Longer
  <2>6. \A i \in 1 .. Len(ch') : ch'[i].kind = "data" => ch'[i].n = Len(out) + i
    BY <1>3, <2>1, <2>5 DEF DownPlaced
  <2>7. ASSUME NEW i \in 1 .. Len(ch'), ch'[i].kind = "eof" PROVE Len(out) + i = size + 1
    <3>1. CASE i \in 1 .. Len(ch) /\ ch'[i] = ch[i] BY <2>1, <2>7, <3>1 DEF DownPlaced
    <3>2. CASE ch'[i] = wire[1] /\ Len(out) + i = Len(out) + Len(ch) + 1 BY <1>3, <2>1, <2>7, <3>2 DEF DownPlaced
    <3> QED BY <2>5, <3>1, <3>2
  <2>8. ASSUME NEW i \in 1 .. Len(wire')
        PROVE  i + 1 \in 1 .. Len(wire) /\ wire'[i] = wire[i + 1] /\ Len(out) + Len(ch') + i = Len(out) + Len(ch) + (i + 1)
    <3>1. i + 1 \in 1 .. Len(wire) /\ wire'[i] = wire[i + 1] BY <1>3 DEF Shorter
    <3>2. i \in Int OBVIOUS
    <3> QED BY <1>0, <2>4, <3>1, <3>2 DEF DownNumbers
  <2>9. ASSUME NEW i \in 1 .. Len(wire'), wire'[i].kind = "data" PROVE wire'[i].n = Len(out) + Len(ch') + i
    <3>1. i + 1 \in 1 .. Len(wire) /\ wire[i + 1].kind = "data" BY <2>8, <2>9
    <3>2. wire[i + 1].n = Len(out) + Len(ch) + (i + 1) BY <2>1, <3>1 DEF DownPlaced
    <3> QED BY <2>8, <3>2
  <2>10. ASSUME NEW i \in 1 .. Len(wire'), wire'[i].kind = "eof" PROVE Len(out) + Len(ch') + i = size + 1
    <3>1. i + 1 \in 1 .. Len(wire) /\ wire[i + 1].kind = "eof" BY <2>8, <2>10
    <3>2. Len(out) + Len(ch) + (i + 1) = size + 1 BY <2>1, <3>1 DEF DownPlaced
    <3> QED BY <2>8, <3>2
  <2>11. Len(out) + Len(ch') + Len(wire') = Len(out) + Len(ch) + Len(wire) BY <1>0, <2>2, <2>4 DEF DownNumbers
  <2>12. /\ Len(out) + Len(ch') + Len(wire') <= size + 1
         /\ reader = "reading" /\ linked => Len(out) + Len(ch') + Len(wire') = next - 1
    BY <2>1, <2>11 DEF DownPlaced
  <2> QED BY <1>1, <2>6, <2>7, <2>9, <2>10, <2>12 DEF DownPlaced
<1> QED BY <1>5, <1>6, <1>8, <1>9, <1>10 DEF DownRest

\* Nothing is under way at first.
LEMMA DownInitInv == DownInit => DownIInv
<1> SUFFICES ASSUME DownInit PROVE DownIInv OBVIOUS
<1>0. Len(<< >>) = 0 /\ << >> \in Seq(Message) /\ << >> \in Seq(1 .. MaxFile) OBVIOUS
<1>1. DownCount /\ DownNums /\ DownPcs /\ DownSeqs BY <1>0 DEF DownInit, DownCount, DownNums, DownPcs, DownSeqs
<1>2. DownFlags /\ ~listening BY Zenon DEF DownInit, DownFlags
<1>3. DownFlow BY <1>2 DEF DownInit, DownFlow
<1>4. DownOrder BY <1>0 DEF DownInit, DownOrder, Climbs, Below, Precedes, Rising, Within, Before
<1>5. DownExact BY <1>0 DEF DownInit, DownExact
<1> QED BY <1>1, <1>2, <1>3, <1>4, <1>5 DEF DownIInv, DownTypes

\* Every step of a download preserves it.
LEMMA DownStep ==
  ASSUME DownIInv, DownNext \/ UNCHANGED downVars
  PROVE  DownIInv'
<1>1. CASE UNCHANGED downVars \/ DownDeadline
  <2>1. UNCHANGED <<size, copy, end, ch, out, reader, next, wire, downFaults>> /\ UNCHANGED <<listening, linked>>
    BY <1>1 DEF downVars, DownDeadline
  <2>2. (listening' <=> listening) /\ (linked' <=> linked) BY <2>1, Zenon
  <2>7. downWrite' = downWrite \/ downWrite' = "past" \/ downWrite' = "ok" BY <1>1 DEF downVars, DownDeadline
  <2>3. DownFlags' BY <2>1, <2>7, Zenon DEF DownIInv, DownTypes, DownFlags
  <2>4. DownCount' /\ DownNums' /\ DownPcs' /\ DownSeqs'
    BY <2>1 DEF DownIInv, DownTypes, DownCount, DownNums, DownPcs, DownSeqs
  <2>5. DownFlow' /\ DownOrder' BY <2>1, <2>2 DEF DownIInv, DownFlow, DownOrder
  <2>6. DownExact' BY <2>1, <2>2 DEF DownIInv, DownExact, DownPlaced
  <2> QED BY <2>3, <2>4, <2>5, <2>6 DEF DownIInv, DownTypes
<1>2. CASE DownNext /\ ~DownDeadline
  <2>1. DownRest'
    BY <1>2, DownDoes, DownStartsStep, DownCopiesStep, DownLeavesStep, DownEmitsStep, DownQuietStep,
       DownDeliversStep, DownBreaksStep
  <2>2. DownCount' /\ DownFlags' BY <1>2, DownCounts
  <2> QED BY <2>1, <2>2 DEF DownRest, DownIInv, DownTypes
<1> QED BY <1>1, <1>2

\* It says what the run checks.
LEMMA DownInvHolds == DownIInv => DownTypeOK /\ ResponseInOrder /\ SmallFileIsExact
<1> SUFFICES ASSUME DownIInv PROVE DownTypeOK /\ ResponseInOrder /\ SmallFileIsExact OBVIOUS
<1>0. DownNumbers BY DownHasNumbers
<1>1. out \in Seq(1 .. MaxFile) /\ DOMAIN out = 1 .. Len(out) BY DEF DownIInv, DownTypes, DownSeqs
<1>2. next \in 1 .. MaxFile + 1 /\ size \in 0 .. MaxFile BY <1>0 DEF DownNumbers
<1>3. DownTypeOK BY <1>2, Zenon DEF DownIInv, DownTypes, DownCount, DownNums, DownPcs, DownSeqs, DownFlags, DownTypeOK
<1>4. ResponseInOrder BY <1>1 DEF DownIInv, DownOrder, Climbs, ResponseInOrder
<1>5. SmallFileIsExact
  <2> SUFFICES ASSUME size < ChanCap PROVE out = SubSeq(whole, 1, Len(out)) /\ (end = "eof" => out = whole)
    BY DEF SmallFileIsExact
  <2>1. (\A i \in 1 .. Len(out) : out[i] = i) /\ (end = "eof" => Len(out) = size) BY DEF DownIInv, DownExact
  <2>2. Len(out) <= size
    <3>1. CASE Len(out) = 0 BY <1>0, <3>1 DEF DownNumbers
    <3>2. CASE Len(out) # 0
      <4>1. Len(out) \in 1 .. Len(out) BY <1>0, <3>2 DEF DownNumbers
      <4>2. Len(out) < next BY <2>1, <4>1 DEF DownIInv, DownOrder, Below
      <4> QED BY <1>0, <4>2 DEF DownNumbers
    <3> QED BY <3>1, <3>2
  <2>3. out = [i \in 1 .. Len(out) |-> i] BY <1>1, <2>1
  <2>4. SubSeq(whole, 1, Len(out)) = [i \in 1 .. Len(out) |-> i]
    <3>1. whole \in Seq(Int) /\ Len(whole) = size BY <1>0 DEF whole, DownNumbers
    <3> QED BY <1>0, <2>2, <3>1 DEF whole, DownNumbers
  <2>5. end = "eof" => out = whole BY <2>1, <2>3 DEF whole
  <2> QED BY <2>3, <2>4, <2>5
<1> QED BY <1>3, <1>4, <1>5

HIDE DownloadAssumption

-----------------------------------------------------------------------------
(* The whole: one area moves, the others rest.  In every area a step of the server is a step   *)
(* of that area or leaves it alone, so each area keeps its own invariant.                       *)

\* A step of the server is, for every area, one of its own or none.
LEMMA AreaSteps ==
  ASSUME [Next]_vars
  PROVE  /\ [UpNext]_upVars /\ [DownNext]_downVars /\ [UserNext]_userVars /\ [DashNext]_dashVars
         /\ [LinkNext]_linkVars /\ [StartNext]_startVars /\ [AlertNext]_alertVars
<1>1. CASE UNCHANGED vars  BY <1>1 DEF vars
<1>2. CASE Next
  <2>1. CASE Upload  BY <2>1 DEF Upload
  <2>2. CASE Download  BY <2>2 DEF Download
  <2>3. CASE Users  BY <2>3 DEF Users
  <2>4. CASE Dashboards  BY <2>4 DEF Dashboards
  <2>5. CASE Link  BY <2>5 DEF Link
  <2>6. CASE Starting  BY <2>6 DEF Starting
  <2>7. CASE Cron  BY <2>7 DEF Cron
  <2>8. CASE Alerts  BY <2>8 DEF Alerts
  <2>9. CASE Over  BY <2>9, <1>1 DEF Over
  <2> QED BY <1>2, <2>1, <2>2, <2>3, <2>4, <2>5, <2>6, <2>7, <2>8, <2>9 DEF Next
<1> QED BY <1>1, <1>2

\* Accounts keep their types, migrations are applied once and in order however many processes
\* start together, and a session of the agent begins when the loops of the one before have ended
\* and has one terminal: for any number of accounts, requests, processes, terminals and faults.
THEOREM ServerIsSound == Spec => []ServerInv
<1> DEFINE I == UserIInv /\ MigInv /\ LinkIInv
<1>1. Init => I  BY UserInitInv, StartInitInv, LinkInitInv DEF Init
<1>2. I /\ [Next]_vars => I'
  <2> SUFFICES ASSUME I, [Next]_vars PROVE I'
    OBVIOUS
  <2>1. [UserNext]_userVars /\ [StartNext]_startVars /\ [LinkNext]_linkVars  BY AreaSteps
  <2>2. UserIInv'  BY <2>1, UserStep
  <2>3. MigInv'  BY <2>1, StartStep
  <2>4. LinkIInv'  BY <2>1, LinkStep
  <2> QED BY <2>2, <2>3, <2>4
<1>3. I => ServerInv  BY LinkInvHolds DEF UserIInv, MigInv, MigTypes, StartInv, ServerInv
<1> QED BY <1>1, <1>2, <1>3, PTL DEF Spec

\* An incident, and a goroutine that opens or resolves one, is only ever about an alert that was
\* raised, and an incident only about a critical one: for any rules and telemetry, whatever the
\* order of the engine's, the heartbeat's and the operator's steps, and across restarts.
THEOREM AlertsAreSound == Spec => []AlertInv
<1>1. Init => AlertIInv  BY AlertInitInv DEF Init
<1>2. AlertIInv /\ [Next]_vars => AlertIInv'
  <2> SUFFICES ASSUME AlertIInv, [Next]_vars PROVE AlertIInv'
    OBVIOUS
  <2>1. [AlertNext]_alertVars  BY AreaSteps
  <2> QED BY <2>1, AlertStep
<1> QED BY <1>1, <1>2, AlertInvHolds, PTL DEF Spec

\* No broadcast sends on the closed queue of a session, and a dashboard that has caught up shows
\* the newest row of a device whose last broadcast is over, with reports of one device handled at
\* the same time, unless that row met a full queue or an older one was queued behind it: for any
\* number of browsers, devices and reports and queues of any length.
THEOREM DashboardsAreSound == Spec => []DashInv
<1>1. Init => DashIInv  BY DashInitInv DEF Init
<1>2. DashIInv /\ [Next]_vars => DashIInv'
  <2> SUFFICES ASSUME DashIInv, [Next]_vars PROVE DashIInv'
    OBVIOUS
  <2>1. DashNext \/ UNCHANGED dashVars  BY AreaSteps
  <2> QED BY <2>1, DashStep
<1> QED BY <1>1, <1>2, DashInvHolds, PTL DEF Spec

\* What is written at either end of a transfer is written in order, no file is open behind an
\* answer, a success answers only a file that is complete on the device, and a file smaller than
\* the channel is downloaded as it is: for bodies, files, queues and faults of any number.
THEOREM TransfersAreSound == Spec => []TransferInv
<1> DEFINE I == UpIInv /\ DownIInv
<1>1. Init => I  BY UpInitInv, DownInitInv DEF Init
<1>2. I /\ [Next]_vars => I'
  <2> SUFFICES ASSUME I, [Next]_vars PROVE I'
    OBVIOUS
  <2>1. (UpNext \/ UNCHANGED upVars) /\ (DownNext \/ UNCHANGED downVars)  BY AreaSteps
  <2>2. UpIInv'  BY <2>1, UpStep
  <2>3. DownIInv'  BY <2>1, DownStep
  <2> QED BY <2>2, <2>3
<1>3. I => TransferInv  BY UpInvHolds, DownInvHolds DEF TransferInv
<1> QED BY <1>1, <1>2, <1>3, PTL DEF Spec
=============================================================================
