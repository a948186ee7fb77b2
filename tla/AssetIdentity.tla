--------------------------- MODULE AssetIdentity ---------------------------
(***************************************************************************)
(* Which row of the table assets a device's telemetry lands in.             *)
(* upsertAssetFromTelemetry looks the row up by certificate serial, then by  *)
(* hostname, and else inserts one with the next arx-c number, all in one     *)
(* transaction under an advisory lock.  Devices are renamed and enrolled     *)
(* anew between and during their reports, or retired; rows are never deleted. *)
(***************************************************************************)
EXTENDS Naturals, Sequences, FiniteSets, FiniteSetsExt

CONSTANTS
  Device,
  Slot,         \* reports of one device that may be handled at once
  Host,         \* hostnames
  MaxChanges,   \* bound: renames, new enrolments and retirements
  MaxFaults     \* bound: transactions that time out or fail

ASSUME AssetAssumption ==
  /\ MaxChanges \in Nat /\ MaxFaults \in Nat
  /\ IsFiniteSet(Device)
  /\ \E name \in [Device -> Host] : \A d, e \in Device : name[d] = name[e] => d = e

Report == Device \X Slot

VARIABLES
  host,     \* per device: its hostname
  serial,   \* per device: the serial of its certificate
  active,   \* the devices that are not retired
  used,     \* hostnames some device has had
  issued,   \* serials issued so far: 1 .. issued
  told,     \* ghost, per device: its present identity has been stored by a report
  pc,       \* per report: "idle", "begin", "serial", "host", "next", "insert", "update"
  id,       \* the serial and hostname the report carries
  row,      \* the row it found, 0 for none
  next,     \* the number it computed
  lock,     \* the reports whose transaction holds the advisory lock
  assets,   \* the committed rows in insertion order: human (its arx-c number), serial, host
  writer,   \* ghost, per row: the devices that wrote it
  clash,    \* ghost: some INSERT ran into a unique index
  fresh,    \* ghost: no hostname was given to a machine after another one had it
  calm,     \* ghost: no identity changed before a report had told the change before
  changes, faults

fleet == <<host, serial, active, used, issued, changes>>
handler == <<pc, id, row, next, lock>>
ghost == <<told, writer, clash, fresh, calm>>
vars == <<fleet, handler, assets, ghost, faults>>

NoHost == ""
NoId == [serial |-> 0, host |-> NoHost]
Identity(d) == [serial |-> serial[d], host |-> host[d]]

\* Some names and serials to start with, all different; which ones makes no difference.
oneEach(S) == CHOOSE f \in [Device -> S] : \A d, e \in Device : f[d] = f[e] => d = e

Init ==
  /\ host = oneEach(Host) /\ serial = oneEach(1 .. Cardinality(Device))
  /\ active = Device
  /\ used = {host[d] : d \in Device} /\ issued = Cardinality(Device)
  /\ told = [d \in Device |-> FALSE]
  /\ pc = [k \in Report |-> "idle"] /\ id = [k \in Report |-> NoId]
  /\ row = [k \in Report |-> 0] /\ next = [k \in Report |-> 0] /\ lock = {}
  /\ assets = << >> /\ writer = << >> /\ clash = FALSE
  /\ fresh = TRUE /\ calm = TRUE /\ changes = 0 /\ faults = 0

-----------------------------------------------------------------------------
(* The fleet                                                                *)

Settled(d) == told[d] /\ \A i \in Slot : pc[<<d, i>>] = "idle"

change(d) ==
  /\ d \in active /\ changes < MaxChanges /\ changes' = changes + 1
  /\ calm' = (calm /\ Settled(d)) /\ told' = [told EXCEPT ![d] = FALSE]
  /\ UNCHANGED <<handler, assets, writer, clash, faults>>

Rename(d, h) ==
  /\ change(d)
  /\ h \notin {host[e] : e \in active} /\ fresh' = (fresh /\ h \notin used)
  /\ host' = [host EXCEPT ![d] = h] /\ used' = used \cup {h}
  /\ UNCHANGED <<serial, active, issued>>

\* A new certificate from POST /enroll.
Enroll(d) ==
  /\ change(d)
  /\ issued' = issued + 1 /\ serial' = [serial EXCEPT ![d] = issued + 1]
  /\ UNCHANGED <<host, active, used, fresh>>

\* The machine is taken out of service, not the last one; reports on their way are still handled.
Retire(d) ==
  /\ change(d) /\ active # {d}
  /\ active' = active \ {d}
  /\ UNCHANGED <<host, serial, used, issued, fresh>>

-----------------------------------------------------------------------------
(* upsertAssetFromTelemetry                                                 *)

goto(k, label) == pc' = [pc EXCEPT ![k] = label]

\* The transaction ends and the lock with it.
finish(k) ==
  /\ goto(k, "idle") /\ lock' = lock \ {k}
  /\ id' = [id EXCEPT ![k] = NoId]
  /\ row' = [row EXCEPT ![k] = 0] /\ next' = [next EXCEPT ![k] = 0]

Receive(k) ==
  /\ pc[k] = "idle" /\ k[1] \in active
  /\ id' = [id EXCEPT ![k] = Identity(k[1])] /\ goto(k, "begin")
  /\ UNCHANGED <<fleet, row, next, lock, assets, ghost, faults>>

\* Mutant: no advisory lock.
LockShared(k) ==
  /\ pc[k] = "begin"
  /\ lock' = lock \cup {k} /\ goto(k, "serial")
  /\ UNCHANGED <<fleet, id, row, next, assets, ghost, faults>>

\* SELECT pg_advisory_xact_lock
Lock(k) ==
  /\ pc[k] = "begin" /\ lock = {}
  /\ lock' = {k} /\ goto(k, "serial")
  /\ UNCHANGED <<fleet, id, row, next, assets, ghost, faults>>

\* The first row that matches, 0 for pgx.ErrNoRows.
find(Match(_)) ==
  LET hits == {i \in DOMAIN assets : Match(assets[i])}
  IN  IF hits = {} THEN 0 ELSE Min(hits)

LookupSerial(k) ==
  /\ pc[k] = "serial"
  /\ LET r == find(LAMBDA a : a.serial = id[k].serial)
     IN  row' = [row EXCEPT ![k] = r] /\ goto(k, IF r = 0 THEN "host" ELSE "update")
  /\ UNCHANGED <<fleet, id, next, lock, assets, ghost, faults>>

LookupHost(k) ==
  /\ pc[k] = "host"
  /\ LET r == find(LAMBDA a : a.host = id[k].host)
     IN  row' = [row EXCEPT ![k] = r] /\ goto(k, IF r = 0 THEN "next" ELSE "update")
  /\ UNCHANGED <<fleet, id, next, lock, assets, ghost, faults>>

\* COALESCE(MAX(...), 0) + 1
NextSeq(k) ==
  /\ pc[k] = "next"
  /\ next' = [next EXCEPT ![k] = Max({assets[i].human : i \in DOMAIN assets} \cup {0}) + 1]
  /\ goto(k, "insert")
  /\ UNCHANGED <<fleet, id, row, lock, assets, ghost, faults>>

Record(k, human) == [human |-> human, serial |-> id[k].serial, host |-> id[k].host]

\* The unique indexes on human_id, hostname and cert_serial, for a row written at i.
Unique(i, a) ==
  \A j \in DOMAIN assets \ {i} :
    assets[j].human # a.human /\ assets[j].serial # a.serial /\ assets[j].host # a.host

stored(k) == told' = [told EXCEPT ![k[1]] = (id[k] = Identity(k[1])) \/ @]

\* INSERT and COMMIT, or ROLLBACK.
Insert(k) ==
  /\ pc[k] = "insert" /\ finish(k)
  /\ LET a == Record(k, next[k])
     IN  IF Unique(0, a)
         THEN /\ assets' = Append(assets, a) /\ writer' = Append(writer, {k[1]})
              /\ stored(k) /\ UNCHANGED clash
         ELSE clash' = TRUE /\ UNCHANGED <<assets, writer, told>>
  /\ UNCHANGED <<fleet, fresh, calm, faults>>

\* Mutant: the row keeps the serial it was inserted with.
UpdateKeepsSerial(k) ==
  /\ pc[k] = "update" /\ finish(k)
  /\ LET a == [Record(k, assets[row[k]].human) EXCEPT !.serial = assets[row[k]].serial]
     IN  IF Unique(row[k], a)
         THEN /\ assets' = [assets EXCEPT ![row[k]] = a]
              /\ writer' = [writer EXCEPT ![row[k]] = @ \cup {k[1]}] /\ stored(k)
         ELSE UNCHANGED <<assets, writer, told>>
  /\ UNCHANGED <<fleet, clash, fresh, calm, faults>>

\* UPDATE and COMMIT, or ROLLBACK when another row has the hostname.
Update(k) ==
  /\ pc[k] = "update" /\ finish(k)
  /\ LET a == Record(k, assets[row[k]].human)
     IN  IF Unique(row[k], a)
         THEN /\ assets' = [assets EXCEPT ![row[k]] = a]
              /\ writer' = [writer EXCEPT ![row[k]] = @ \cup {k[1]}] /\ stored(k)
         ELSE UNCHANGED <<assets, writer, told>>
  /\ UNCHANGED <<fleet, clash, fresh, calm, faults>>

\* The 30 seconds are over, the connection breaks or a statement fails: ROLLBACK.
Fail(k) ==
  /\ pc[k] # "idle" /\ faults < MaxFaults
  /\ faults' = faults + 1 /\ finish(k)
  /\ UNCHANGED <<fleet, assets, ghost>>

Step(k) == \/ LookupSerial(k) \/ LookupHost(k) \/ NextSeq(k) \/ Insert(k) \/ Update(k)

Next ==
  \/ \E d \in Device : Enroll(d) \/ Retire(d) \/ \E h \in Host : Rename(d, h)
  \/ \E k \in Report : Receive(k) \/ Lock(k) \/ Step(k) \/ Fail(k)

Spec == Init /\ [][Next]_vars

\* Every agent in service keeps reporting; PostgreSQL queues those who wait for an advisory lock.
Fairness ==
  \A k \in Report : WF_vars(Receive(k)) /\ SF_vars(Lock(k)) /\ WF_vars(Step(k))

FairSpec == Spec /\ Fairness

-----------------------------------------------------------------------------

\* The rows of a table of this length, of serials issued so far.
Row == [human : 1 .. Len(assets), serial : 1 .. issued, host : Host]

FlagsOK ==
  /\ told \in [Device -> BOOLEAN]
  /\ clash \in BOOLEAN /\ fresh \in BOOLEAN /\ calm \in BOOLEAN

TypeOK ==
  /\ FlagsOK
  /\ host \in [Device -> Host] /\ used \subseteq Host /\ active \subseteq Device
  /\ serial \in [Device -> 1 .. issued] /\ issued \in Nat
  /\ pc \in [Report -> {"idle", "begin", "serial", "host", "next", "insert", "update"}]
  /\ id \in [Report -> [serial : 0 .. issued, host : Host \cup {NoHost}]]
  /\ row \in [Report -> 0 .. Len(assets)] /\ next \in [Report -> 0 .. Len(assets) + 1]
  /\ lock \subseteq Report /\ Cardinality(lock) <= 1
  /\ assets \in Seq(Row)
  /\ writer \in Seq(SUBSET Device) /\ Len(writer) = Len(assets)
  /\ changes \in 0 .. MaxChanges /\ faults \in 0 .. MaxFaults

\* The lookups and the number an insert rests on still hold when it runs: no INSERT of
\* upsertAssetFromTelemetry meets a unique index, however reports and changes interleave.
InsertIsFresh == ~clash

\* While hostnames are not reused and changes reach the server one at a time, a device keeps
\* its row and its arx-c number through renames and new certificates, and never writes another's.
OneRowPerDevice ==
  fresh /\ calm =>
    /\ \A i \in DOMAIN writer : Cardinality(writer[i]) = 1
    /\ \A i, j \in DOMAIN writer : writer[i] = writer[j] => i = j

\* "ProcessTelemetry validates payload, upserts the asset row": in a fleet that does not reuse
\* hostnames, some row comes to carry the last identity of a device and keeps it, whatever
\* reports with an older identity are still handled.
ReportsPersist ==
  []fresh =>
    \A d \in Device : <>[](\/ d \notin active
                           \/ \E i \in DOMAIN assets : /\ assets[i].serial = serial[d]
                                                       /\ assets[i].host = host[d])

\* What every state of the table and its transactions satisfies: types, one holder of the
\* advisory lock, no INSERT that met a unique index, and one row per device.
AssetInv == TypeOK /\ InsertIsFresh /\ OneRowPerDevice
=============================================================================
