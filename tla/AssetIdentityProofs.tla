------------------------ MODULE AssetIdentityProofs ------------------------
(***************************************************************************)
(* Proofs about the table assets for any number of devices, concurrent         *)
(* reports, hostnames, changes of identity and failures.                     *)
(*                                                                         *)
(* LockInv: the advisory lock is held from the first lookup to the end of the   *)
(* transaction and by one report only, so what a report has found out about the *)
(* table (Knows) is still true when it writes.  OwnerInv: while changes reach    *)
(* the server one at a time and names are not reused, a device's row differs     *)
(* from the device by at most the one change that is not stored yet, and never    *)
(* carries the serial or the name of another device.                          *)
(***************************************************************************)
EXTENDS AssetIdentity, FunctionTheorems, FiniteSetTheorems, SequenceTheorems, TLAPS

Label == {"idle", "begin", "serial", "host", "next", "insert", "update"}
Locked == {"serial", "host", "next", "insert", "update"}
Full == [serial : 1 .. issued, host : Host]

LockInv ==
  /\ \A k \in Report : pc[k] \in Locked => k \in lock
  /\ \A k, l \in lock : k = l

\* A report on its way carries an identity its device has had.
Carries == \A k \in Report : pc[k] # "idle" => id[k] \in Full

\* The rows are numbered in the order of their insertion, and no two share a serial or a name.
Table ==
  /\ \A i \in DOMAIN assets : assets[i].human = i
  /\ \A i, j \in DOMAIN assets : assets[i].serial = assets[j].serial \/ assets[i].host = assets[j].host => i = j

\* What the lookups of a report have established.
Knows(k) ==
  /\ pc[k] \in {"host", "next", "insert"} => \A i \in DOMAIN assets : assets[i].serial # id[k].serial
  /\ pc[k] \in {"next", "insert"} => \A i \in DOMAIN assets : assets[i].host # id[k].host
  /\ pc[k] = "insert" => next[k] = Len(assets) + 1
  /\ pc[k] = "update" => /\ row[k] \in DOMAIN assets
                         /\ assets[row[k]].serial = id[k].serial \/ assets[row[k]].host = id[k].host

\* While names are not reused and changes are told one at a time:
Owned(i, d) ==
  /\ writer[i] = {d}
  /\ assets[i].serial = serial[d] \/ assets[i].host = host[d]
  /\ told[d] => assets[i].serial = serial[d] /\ assets[i].host = host[d]
  /\ \A e \in Device \ {d} : assets[i].serial # serial[e] /\ assets[i].host # host[e]

OwnerInv ==
  /\ \A d, e \in Device : serial[d] = serial[e] \/ host[d] = host[e] => d = e
  /\ \A k \in Report : pc[k] # "idle" => id[k] = Identity(k[1])
  /\ \A i \in DOMAIN assets : \E d \in Device : Owned(i, d)
  /\ \A i, j \in DOMAIN assets : writer[i] = writer[j] => i = j

\* Names in use have been used.
Named ==
  /\ \A d \in Device : host[d] \in used
  /\ \A i \in DOMAIN assets : assets[i].host \in used
  /\ \A k \in Report : pc[k] # "idle" => id[k].host \in used

AssetIInv ==
  /\ TypeOK /\ LockInv /\ Carries /\ Table /\ Named /\ ~clash
  /\ \A k \in Report : Knows(k)
  /\ fresh /\ calm => OwnerInv

USE AssetAssumption

-----------------------------------------------------------------------------
(* Operators                                                                *)

\* Every report has a device.
LEMMA DeviceOf == \A k \in Report : k[1] \in Device
  BY DEF Report

\* A lookup by a unique column: none of the rows matches, or it returns the one that does.
LEMMA MinOfOne ==
  ASSUME NEW S, NEW i \in S, S \subseteq Nat, \A j, k \in S : j = k
  PROVE  Min(S) = i
  <1>1. i \in S /\ \A y \in S : i <= y
    OBVIOUS
  <1>2. Min(S) \in S
    BY <1>1 DEF Min
  <1> QED
    BY <1>2

\* COALESCE(MAX(...), 0) over rows numbered from 1.
LEMMA MaxOfRows ==
  ASSUME NEW n \in Nat, NEW S, S = 0 .. n
  PROVE  Max(S) = n
  <1>1. \E x \in S : \A y \in S : x >= y
    OBVIOUS
  <1>2. Max(S) \in S /\ \A y \in S : Max(S) >= y
    BY <1>1 DEF Max
  <1> QED
    BY <1>2

\* Rows stay rows of a larger table.
LEMMA RowsWiden ==
  ASSUME NEW A, NEW B, NEW s \in Seq(A), \A i \in 1 .. Len(s) : s[i] \in B
  PROVE  s \in Seq(B)
  OBVIOUS

\* A row fits a longer table and more serials.
LEMMA RowWidens ==
  ASSUME NEW n \in Nat, NEW m \in Nat, NEW n2 \in Nat, NEW m2 \in Nat, n <= n2, m <= m2,
         NEW a \in [human : 1 .. n, serial : 1 .. m, host : Host]
  PROVE  a \in [human : 1 .. n2, serial : 1 .. m2, host : Host]
  OBVIOUS

\* Names and serials to start with exist.
LEMMA FirstIdentities ==
  /\ Cardinality(Device) \in Nat
  /\ oneEach(Host) \in [Device -> Host]
  /\ \A d, e \in Device : oneEach(Host)[d] = oneEach(Host)[e] => d = e
  /\ oneEach(1 .. Cardinality(Device)) \in [Device -> 1 .. Cardinality(Device)]
  /\ \A d, e \in Device : oneEach(1 .. Cardinality(Device))[d] = oneEach(1 .. Cardinality(Device))[e] => d = e
  <1>1. Cardinality(Device) \in Nat
    BY FS_CardinalityType
  <1>2. PICK f \in Bijection(Device, 1 .. Cardinality(Device)) : TRUE
    BY <1>1, FS_CardinalityType, Fun_ExistsBijSymmetric DEF ExistsBijection
  <1>3. f \in [Device -> 1 .. Cardinality(Device)] /\ \A d, e \in Device : f[d] = f[e] => d = e
    BY <1>2 DEF Bijection, Injection, IsInjective
  <1> QED
    BY <1>1, <1>3 DEF oneEach

-----------------------------------------------------------------------------
(* Types                                                                    *)

\* The first state satisfies the invariant.
LEMMA AssetInitOK == Init => AssetIInv
  <1> SUFFICES ASSUME Init PROVE AssetIInv
    OBVIOUS
  <1>0. FlagsOK
    BY Zenon DEF Init, FlagsOK
  <1>1. lock = {} /\ Cardinality(lock) = 0
    BY FS_EmptySet DEF Init
  <1>2. /\ host \in [Device -> Host] /\ serial \in [Device -> 1 .. issued] /\ issued \in Nat
        /\ \A d, e \in Device : serial[d] = serial[e] \/ host[d] = host[e] => d = e
    BY FirstIdentities DEF Init
  <1>3. TypeOK
    BY <1>0, <1>1, <1>2, EmptySeq DEF Init, TypeOK, NoId
  <1>4. LockInv /\ Carries /\ Table /\ Named /\ ~clash /\ \A k \in Report : Knows(k)
    BY DEF Init, LockInv, Carries, Table, Named, Knows, Locked
  <1>5. OwnerInv
    BY <1>2 DEF Init, OwnerInv
  <1> QED
    BY <1>3, <1>4, <1>5 DEF AssetIInv

\* The table as a function of row numbers.
LEMMA TableFacts ==
  ASSUME TypeOK
  PROVE  /\ Len(assets) \in Nat /\ DOMAIN assets = 1 .. Len(assets) /\ DOMAIN writer = 1 .. Len(assets)
         /\ \A i \in 1 .. Len(assets) : /\ assets[i] \in Row /\ assets[i].human \in 1 .. Len(assets)
                                        /\ assets[i].serial \in 1 .. issued /\ assets[i].host \in Host
  <1>1. /\ Len(assets) \in Nat /\ DOMAIN assets = 1 .. Len(assets) /\ DOMAIN writer = 1 .. Len(assets)
        /\ \A i \in 1 .. Len(assets) : assets[i] \in Row
    BY DEF TypeOK
  <1> QED
    BY <1>1 DEF Row

\* What the lookup by serial finds.
LEMMA LookupSerialMoves ==
  ASSUME TypeOK, Table, NEW k \in Report, LookupSerial(k)
  PROVE  \/ /\ row' = [row EXCEPT ![k] = 0] /\ pc' = [pc EXCEPT ![k] = "host"]
            /\ \A i \in DOMAIN assets : assets[i].serial # id[k].serial
         \/ \E r \in DOMAIN assets : /\ row' = [row EXCEPT ![k] = r] /\ pc' = [pc EXCEPT ![k] = "update"]
                                     /\ assets[r].serial = id[k].serial
  <1> DEFINE hits == {i \in DOMAIN assets : assets[i].serial = id[k].serial}
             r == IF hits = {} THEN 0 ELSE Min(hits)
  <1>1. row' = [row EXCEPT ![k] = r] /\ pc' = [pc EXCEPT ![k] = IF r = 0 THEN "host" ELSE "update"]
    BY DEF LookupSerial, find, goto
  <1>2. hits \subseteq Nat /\ (\A i, j \in hits : i = j) /\ \A i \in hits : i # 0
    BY TableFacts DEF Table
  <1>3. CASE hits = {}
    BY <1>1, <1>3
  <1>4. CASE hits # {}
    <2>1. PICK i \in hits : TRUE
      BY <1>4
    <2>2. Min(hits) = i
      BY <1>2, MinOfOne
    <2> QED
      BY <1>1, <1>2, <1>4, <2>1, <2>2
  <1> QED
    BY <1>3, <1>4

\* What the lookup by hostname finds.
LEMMA LookupHostMoves ==
  ASSUME TypeOK, Table, NEW k \in Report, LookupHost(k)
  PROVE  \/ /\ row' = [row EXCEPT ![k] = 0] /\ pc' = [pc EXCEPT ![k] = "next"]
            /\ \A i \in DOMAIN assets : assets[i].host # id[k].host
         \/ \E r \in DOMAIN assets : /\ row' = [row EXCEPT ![k] = r] /\ pc' = [pc EXCEPT ![k] = "update"]
                                     /\ assets[r].host = id[k].host
  <1> DEFINE hits == {i \in DOMAIN assets : assets[i].host = id[k].host}
             r == IF hits = {} THEN 0 ELSE Min(hits)
  <1>1. row' = [row EXCEPT ![k] = r] /\ pc' = [pc EXCEPT ![k] = IF r = 0 THEN "next" ELSE "update"]
    BY DEF LookupHost, find, goto
  <1>2. hits \subseteq Nat /\ (\A i, j \in hits : i = j) /\ \A i \in hits : i # 0
    BY TableFacts DEF Table
  <1>3. CASE hits = {}
    BY <1>1, <1>3
  <1>4. CASE hits # {}
    <2>1. PICK i \in hits : TRUE
      BY <1>4
    <2>2. Min(hits) = i
      BY <1>2, MinOfOne
    <2> QED
      BY <1>1, <1>2, <1>4, <2>1, <2>2
  <1> QED
    BY <1>3, <1>4

\* The next number is that of the next row.
LEMMA NextSeqMoves ==
  ASSUME TypeOK, Table, NEW k \in Report, NextSeq(k)
  PROVE  next' = [next EXCEPT ![k] = Len(assets) + 1] /\ pc' = [pc EXCEPT ![k] = "insert"]
  <1>1. {assets[i].human : i \in DOMAIN assets} \cup {0} = 0 .. Len(assets)
    BY TableFacts DEF Table
  <1>2. Max({assets[i].human : i \in DOMAIN assets} \cup {0}) = Len(assets)
    BY <1>1, TableFacts, MaxOfRows
  <1> QED
    BY <1>2 DEF NextSeq, goto

\* The lookups still hold when the row is inserted: it meets no unique index.
LEMMA InsertMoves ==
  ASSUME TypeOK, Table, NEW k \in Report, Knows(k), Carries, Insert(k)
  PROVE  /\ UNCHANGED clash /\ stored(k)
         /\ assets' = Append(assets, Record(k, next[k])) /\ writer' = Append(writer, {k[1]})
         /\ Record(k, next[k]) = [human |-> Len(assets) + 1, serial |-> id[k].serial, host |-> id[k].host]
         /\ id[k].serial \in 1 .. issued /\ id[k].host \in Host
  <1>1. pc[k] = "insert" /\ next[k] = Len(assets) + 1 /\ id[k] \in Full
    BY DEF Insert, Knows, Carries
  <1>2. Unique(0, Record(k, next[k]))
    BY <1>1, TableFacts DEF Unique, Record, Knows, Table
  <1>3. id[k].serial \in 1 .. issued /\ id[k].host \in Host
    BY <1>1 DEF Full
  <1> QED
    BY <1>1, <1>2, <1>3 DEF Insert, Record

\* An update that commits replaces one row by another with the same number.
LEMMA UpdateMoves ==
  ASSUME TypeOK, Table, NEW k \in Report, Knows(k), Carries, Update(k)
  PROVE  \/ UNCHANGED <<assets, writer, told>>
         \/ /\ row[k] \in 1 .. Len(assets) /\ id[k].serial \in 1 .. issued /\ id[k].host \in Host
            /\ \A j \in 1 .. Len(assets) \ {row[k]} : assets[j].serial # id[k].serial /\ assets[j].host # id[k].host
            /\ assets' = [assets EXCEPT ![row[k]] = [human |-> row[k], serial |-> id[k].serial, host |-> id[k].host]]
            /\ writer' = [writer EXCEPT ![row[k]] = @ \cup {k[1]}] /\ stored(k)
  <1> DEFINE a == Record(k, assets[row[k]].human)
  <1>1. pc[k] = "update" /\ row[k] \in 1 .. Len(assets) /\ id[k] \in Full
    BY TableFacts DEF Update, Knows, Carries
  <1>2. id[k].serial \in 1 .. issued /\ id[k].host \in Host
    BY <1>1 DEF Full
  <1>3. a = [human |-> row[k], serial |-> id[k].serial, host |-> id[k].host]
    BY <1>1, TableFacts DEF Record, Table
  <1>4. CASE Unique(row[k], a)
    <2>1. \A j \in 1 .. Len(assets) \ {row[k]} : assets[j].serial # id[k].serial /\ assets[j].host # id[k].host
      BY <1>3, <1>4, TableFacts DEF Unique
    <2> QED
      BY <1>1, <1>2, <1>3, <1>4, <2>1 DEF Update
  <1>5. CASE ~Unique(row[k], a)
    BY <1>5 DEF Update
  <1> QED
    BY <1>4, <1>5

\* The flags and the ghost told stay Boolean.
LEMMA FlagsStep == TypeOK /\ [Next]_vars => FlagsOK'
  <1>0. SUFFICES ASSUME TypeOK PROVE [Next]_vars => FlagsOK'
    OBVIOUS
  <1>a. FlagsOK /\ \A k \in Report : k[1] \in Device
    BY <1>0, DeviceOf DEF TypeOK
  <1>1. ASSUME NEW d \in Device, Enroll(d) PROVE FlagsOK'
    BY <1>a, <1>1, Zenon DEF FlagsOK, Enroll, change, handler
  <1>2. ASSUME NEW d \in Device, Retire(d) PROVE FlagsOK'
    BY <1>a, <1>2, Zenon DEF FlagsOK, Retire, change, handler
  <1>3. ASSUME NEW d \in Device, NEW h \in Host, Rename(d, h) PROVE FlagsOK'
    BY <1>a, <1>3, Zenon DEF FlagsOK, Rename, change, handler
  <1>4. ASSUME NEW k \in Report, Receive(k) PROVE FlagsOK'
    BY <1>a, <1>4, Zenon DEF FlagsOK, Receive, goto, fleet, ghost
  <1>5. ASSUME NEW k \in Report, Lock(k) PROVE FlagsOK'
    BY <1>a, <1>5, Zenon DEF FlagsOK, Lock, goto, fleet, ghost
  <1>6. ASSUME NEW k \in Report, LookupSerial(k) PROVE FlagsOK'
    BY <1>a, <1>6, Zenon DEF FlagsOK, LookupSerial, goto, fleet, ghost
  <1>7. ASSUME NEW k \in Report, LookupHost(k) PROVE FlagsOK'
    BY <1>a, <1>7, Zenon DEF FlagsOK, LookupHost, goto, fleet, ghost
  <1>8. ASSUME NEW k \in Report, NextSeq(k) PROVE FlagsOK'
    BY <1>a, <1>8, Zenon DEF FlagsOK, NextSeq, goto, fleet, ghost
  <1>9. ASSUME NEW k \in Report, Insert(k) PROVE FlagsOK'
    BY <1>a, <1>9, Zenon DEF FlagsOK, Insert, finish, goto, fleet, stored
  <1>10. ASSUME NEW k \in Report, Update(k) PROVE FlagsOK'
    BY <1>a, <1>10, Zenon DEF FlagsOK, Update, finish, goto, fleet, stored
  <1>11. ASSUME NEW k \in Report, Fail(k) PROVE FlagsOK'
    BY <1>a, <1>11, Zenon DEF FlagsOK, Fail, finish, goto, fleet, ghost
  <1>12. CASE UNCHANGED vars
    BY <1>a, <1>12, Zenon DEF FlagsOK, vars, fleet, handler, ghost
  <1> QED
    BY <1>1, <1>2, <1>3, <1>4, <1>5, <1>6, <1>7, <1>8, <1>9, <1>10, <1>11, <1>12, Zenon DEF Next, Step

-----------------------------------------------------------------------------
(* The lock                                                                 *)

\* The lock is held by one report, from its first lookup to its end.
LEMMA LockStep == TypeOK /\ LockInv /\ [Next]_vars => LockInv'
  <1> SUFFICES ASSUME TypeOK, LockInv PROVE [Next]_vars => LockInv'
    OBVIOUS
  <1>t. pc \in [Report -> Label] /\ lock \subseteq Report
    BY DEF TypeOK, Label
  <1> USE DEF LockInv, Locked
  <1>1. ASSUME NEW d \in Device, Enroll(d) PROVE LockInv'
    BY <1>t, <1>1 DEF Enroll, change, handler
  <1>2. ASSUME NEW d \in Device, Retire(d) PROVE LockInv'
    BY <1>t, <1>2 DEF Retire, change, handler
  <1>3. ASSUME NEW d \in Device, NEW h \in Host, Rename(d, h) PROVE LockInv'
    BY <1>t, <1>3 DEF Rename, change, handler
  <1>4. ASSUME NEW k \in Report, Receive(k) PROVE LockInv'
    BY <1>t, <1>4 DEF Receive, goto, fleet, ghost
  <1>5. ASSUME NEW k \in Report, Lock(k) PROVE LockInv'
    BY <1>t, <1>5 DEF Lock, goto, fleet, ghost
  <1>6. ASSUME NEW k \in Report, LookupSerial(k) PROVE LockInv'
    <2>1. pc' = [pc EXCEPT ![k] = "host"] \/ pc' = [pc EXCEPT ![k] = "update"]
      BY <1>6 DEF LookupSerial, goto
    <2>2. pc[k] \in Locked /\ UNCHANGED lock
      BY <1>6 DEF LookupSerial, Locked
    <2> QED
      BY <1>t, <2>1, <2>2
  <1>7. ASSUME NEW k \in Report, LookupHost(k) PROVE LockInv'
    <2>1. pc' = [pc EXCEPT ![k] = "next"] \/ pc' = [pc EXCEPT ![k] = "update"]
      BY <1>7 DEF LookupHost, goto
    <2>2. pc[k] \in Locked /\ UNCHANGED lock
      BY <1>7 DEF LookupHost, Locked
    <2> QED
      BY <1>t, <2>1, <2>2
  <1>8. ASSUME NEW k \in Report, NextSeq(k) PROVE LockInv'
    BY <1>t, <1>8 DEF NextSeq, goto, fleet, ghost
  <1>9. ASSUME NEW k \in Report, Insert(k) PROVE LockInv'
    BY <1>t, <1>9 DEF Insert, finish, goto, fleet
  <1>10. ASSUME NEW k \in Report, Update(k) PROVE LockInv'
    BY <1>t, <1>10 DEF Update, finish, goto, fleet
  <1>11. ASSUME NEW k \in Report, Fail(k) PROVE LockInv'
    BY <1>t, <1>11 DEF Fail, finish, goto, fleet, ghost
  <1>12. CASE UNCHANGED vars
    BY <1>t, <1>12 DEF vars, fleet, handler, ghost
  <1> QED
    BY <1>1, <1>2, <1>3, <1>4, <1>5, <1>6, <1>7, <1>8, <1>9, <1>10, <1>11, <1>12 DEF Next, Step

\* A lock with one holder has cardinality one at most.
LEMMA OneHolder ==
  ASSUME NEW S, \A x, y \in S : x = y
  PROVE  Cardinality(S) <= 1
  <1>1. CASE S = {}
    BY <1>1, FS_EmptySet
  <1>2. ASSUME NEW x \in S PROVE Cardinality(S) <= 1
    <2>1. S = {x}
      BY <1>2
    <2>2. Cardinality({x}) = 1
      BY FS_Singleton, Zenon
    <2> QED
      BY <2>1, <2>2
  <1> QED
    BY <1>1, <1>2

\* Every step keeps the types.
LEMMA AssetTypeStep ==
  TypeOK /\ LockInv /\ Carries /\ Table /\ (\A k \in Report : Knows(k)) /\ [Next]_vars => TypeOK'
  <1>0. SUFFICES ASSUME TypeOK, LockInv, Carries, Table, \A k \in Report : Knows(k), [Next]_vars PROVE TypeOK'
    OBVIOUS
  <1>f. FlagsOK' /\ Cardinality(lock') <= 1
    BY <1>0, FlagsStep, LockStep, OneHolder DEF LockInv
  <1>n. Len(assets) \in Nat /\ \A k \in Report : k[1] \in Device
    BY <1>0, TableFacts, DeviceOf
  <1>i. NoId \in [serial : 0 .. issued, host : Host \cup {NoHost}]
    BY <1>0 DEF TypeOK, NoId
  <1>j. \A d \in Device : Identity(d) \in [serial : 0 .. issued, host : Host \cup {NoHost}]
    BY <1>0 DEF TypeOK, Identity
  <1> USE DEF TypeOK
  <1>1. ASSUME NEW d \in Device, Enroll(d) PROVE TypeOK'
    <2>1. issued' = issued + 1 /\ serial' \in [Device -> 1 .. issued'] /\ issued' \in Nat
      BY <1>0, <1>1 DEF Enroll
    <2>2. id' \in [Report -> [serial : 0 .. issued', host : Host \cup {NoHost}]]
      BY <1>0, <1>1, <2>1 DEF Enroll, change, handler
    <2>3. assets' \in Seq(Row')
      <3>0. UNCHANGED assets /\ Row' = [human : 1 .. Len(assets), serial : 1 .. issued + 1, host : Host]
        BY <1>1, <2>1 DEF Enroll, change, Row
      <3>1. \A i \in 1 .. Len(assets) : assets[i] \in Row'
        <4>1. \A i \in 1 .. Len(assets) : assets[i] \in Row
          BY <1>0, TableFacts
        <4>2. Row = [human : 1 .. Len(assets), serial : 1 .. issued, host : Host] /\ issued \in Nat
          BY <1>0 DEF Row
        <4> QED
          BY <1>n, <3>0, <4>1, <4>2, RowWidens
      <3> QED
        BY <1>0, <3>0, <3>1, RowsWiden
    <2> QED
      BY <1>0, <1>f, <1>n, <1>1, <2>1, <2>2, <2>3 DEF Enroll, change, handler
  <1>2. ASSUME NEW d \in Device, Retire(d) PROVE TypeOK'
    <2>1. Row' = Row
      BY <1>0, <1>2 DEF Retire, change, Row
    <2> QED
      BY <1>0, <1>f, <1>2, <2>1 DEF Retire, change, handler
  <1>3. ASSUME NEW d \in Device, NEW h \in Host, Rename(d, h) PROVE TypeOK'
    <2>1. Row' = Row
      BY <1>0, <1>3 DEF Rename, change, Row
    <2> QED
      BY <1>0, <1>f, <1>3, <2>1 DEF Rename, change, handler
  <1>4. ASSUME NEW k \in Report, Receive(k) PROVE TypeOK'
    <2>1. Row' = Row
      BY <1>0, <1>4 DEF Receive, fleet, Row
    <2> QED
      BY <1>0, <1>f, <1>j, <1>n, <1>4, <2>1 DEF Receive, goto, fleet, ghost
  <1>5. ASSUME NEW k \in Report, Lock(k) PROVE TypeOK'
    <2>1. Row' = Row
      BY <1>0, <1>5 DEF Lock, fleet, Row
    <2> QED
      BY <1>0, <1>f, <1>5, <2>1 DEF Lock, goto, fleet, ghost
  <1>6. ASSUME NEW k \in Report, LookupSerial(k) PROVE TypeOK'
    <2>1. Row' = Row /\ UNCHANGED <<fleet, id, next, lock, assets, writer, faults>>
      BY <1>0, <1>6 DEF LookupSerial, fleet, ghost, Row
    <2>2. \E r \in 0 .. Len(assets) : row' = [row EXCEPT ![k] = r]
      <3>1. DOMAIN assets \subseteq 0 .. Len(assets) /\ 0 \in 0 .. Len(assets)
        BY <1>0, <1>n, TableFacts
      <3> QED
        BY <1>0, <1>6, <3>1, LookupSerialMoves, Zenon
    <2>3. \E l \in {"host", "update"} : pc' = [pc EXCEPT ![k] = l]
      BY <1>0, <1>6, LookupSerialMoves
    <2> QED
      BY <1>0, <1>f, <2>1, <2>2, <2>3 DEF fleet
  <1>7. ASSUME NEW k \in Report, LookupHost(k) PROVE TypeOK'
    <2>1. Row' = Row /\ UNCHANGED <<fleet, id, next, lock, assets, writer, faults>>
      BY <1>0, <1>7 DEF LookupHost, fleet, ghost, Row
    <2>2. \E r \in 0 .. Len(assets) : row' = [row EXCEPT ![k] = r]
      <3>1. DOMAIN assets \subseteq 0 .. Len(assets) /\ 0 \in 0 .. Len(assets)
        BY <1>0, <1>n, TableFacts
      <3> QED
        BY <1>0, <1>7, <3>1, LookupHostMoves, Zenon
    <2>3. \E l \in {"next", "update"} : pc' = [pc EXCEPT ![k] = l]
      BY <1>0, <1>7, LookupHostMoves
    <2> QED
      BY <1>0, <1>f, <2>1, <2>2, <2>3 DEF fleet
  <1>8. ASSUME NEW k \in Report, NextSeq(k) PROVE TypeOK'
    <2>1. Row' = Row /\ UNCHANGED <<fleet, id, row, lock, assets, writer, faults>>
      BY <1>0, <1>8 DEF NextSeq, fleet, ghost, Row
    <2>2. next' = [next EXCEPT ![k] = Len(assets) + 1] /\ pc' = [pc EXCEPT ![k] = "insert"]
      BY <1>0, <1>8, NextSeqMoves
    <2> QED
      BY <1>0, <1>f, <1>n, <2>1, <2>2 DEF fleet
  <1>9. ASSUME NEW k \in Report, Insert(k) PROVE TypeOK'
    <2>1. /\ assets' = Append(assets, Record(k, next[k])) /\ writer' = Append(writer, {k[1]})
          /\ Record(k, next[k]) = [human |-> Len(assets) + 1, serial |-> id[k].serial, host |-> id[k].host]
          /\ id[k].serial \in 1 .. issued /\ id[k].host \in Host
      BY <1>0, <1>9, InsertMoves
    <2>2. Len(assets') = Len(assets) + 1 /\ UNCHANGED fleet
      BY <1>0, <2>1, <1>9 DEF Insert
    <2>3. assets' \in Seq(Row')
      <3>0. Row' = [human : 1 .. Len(assets) + 1, serial : 1 .. issued, host : Host]
        BY <2>2 DEF Row, fleet
      <3>1. Record(k, next[k]) \in Row' /\ \A i \in 1 .. Len(assets) : assets[i] \in Row'
        <4>1. \A i \in 1 .. Len(assets) : assets[i] \in Row
          BY <1>0, TableFacts
        <4>0. Row = [human : 1 .. Len(assets), serial : 1 .. issued, host : Host] /\ issued \in Nat
          BY <1>0 DEF Row
        <4>2. \A a \in Row : a \in Row'
          BY <1>n, <3>0, <4>0, RowWidens
        <4>3. Record(k, next[k]) \in Row'
          BY <1>n, <2>1, <3>0
        <4> QED
          BY <4>1, <4>2, <4>3
      <3>2. assets \in Seq(Row')
        BY <1>0, <3>1, RowsWiden
      <3> QED
        BY <2>1, <3>1, <3>2, AppendProperties
    <2>4. writer' \in Seq(SUBSET Device) /\ Len(writer') = Len(assets')
      BY <1>0, <1>n, <2>1, <2>2, AppendProperties
    <2>5. /\ pc' = [pc EXCEPT ![k] = "idle"] /\ lock' = lock \ {k} /\ id' = [id EXCEPT ![k] = NoId]
          /\ row' = [row EXCEPT ![k] = 0] /\ next' = [next EXCEPT ![k] = 0] /\ UNCHANGED faults
      BY <1>9 DEF Insert, finish, goto
    <2> QED
      BY <1>0, <1>f, <1>n, <1>i, <2>2, <2>3, <2>4, <2>5 DEF fleet
  <1>10. ASSUME NEW k \in Report, Update(k) PROVE TypeOK'
    <2>1. Len(assets') = Len(assets) /\ assets' \in Seq(Row) /\ writer' \in Seq(SUBSET Device) /\ Len(writer') = Len(writer)
      <3>1. CASE UNCHANGED <<assets, writer, told>>
        BY <1>0, <3>1
      <3>2. CASE /\ row[k] \in 1 .. Len(assets) /\ id[k].serial \in 1 .. issued /\ id[k].host \in Host
                 /\ assets' = [assets EXCEPT ![row[k]] = [human |-> row[k], serial |-> id[k].serial, host |-> id[k].host]]
                 /\ writer' = [writer EXCEPT ![row[k]] = @ \cup {k[1]}]
        <4>1. [human |-> row[k], serial |-> id[k].serial, host |-> id[k].host] \in Row
          BY <3>2 DEF Row
        <4>2. Len(assets') = Len(assets) /\ assets' \in Seq(Row)
          BY <1>0, <3>2, <4>1, ExceptSeq
        <4>3. writer[row[k]] \cup {k[1]} \in SUBSET Device
          BY <1>0, <1>n, <3>2
        <4>4. writer' \in Seq(SUBSET Device) /\ Len(writer') = Len(writer)
          BY <1>0, <3>2, <4>3, ExceptSeq
        <4> QED
          BY <4>2, <4>4
      <3> QED
        BY <1>0, <1>10, <3>1, <3>2, UpdateMoves
    <2>2. Row' = Row /\ UNCHANGED fleet
      BY <1>10, <2>1 DEF Update, Row, fleet
    <2>5. /\ pc' = [pc EXCEPT ![k] = "idle"] /\ lock' = lock \ {k} /\ id' = [id EXCEPT ![k] = NoId]
          /\ row' = [row EXCEPT ![k] = 0] /\ next' = [next EXCEPT ![k] = 0] /\ UNCHANGED faults
      BY <1>10 DEF Update, finish, goto
    <2> QED
      BY <1>0, <1>f, <1>n, <1>i, <2>1, <2>2, <2>5 DEF fleet
  <1>11. ASSUME NEW k \in Report, Fail(k) PROVE TypeOK'
    <2>1. Row' = Row
      BY <1>0, <1>11 DEF Fail, fleet, Row
    <2> QED
      BY <1>0, <1>f, <1>i, <1>11, <2>1 DEF Fail, finish, goto, fleet, ghost
  <1>12. CASE UNCHANGED vars
    <2>1. Row' = Row
      BY <1>12 DEF vars, fleet, Row
    <2> QED
      BY <1>0, <1>f, <1>12, <2>1 DEF vars, fleet, handler, ghost
  <1> QED
    BY <1>0, <1>1, <1>2, <1>3, <1>4, <1>5, <1>6, <1>7, <1>8, <1>9, <1>10, <1>11, <1>12 DEF Next, Step

-----------------------------------------------------------------------------
(* The table                                                                *)

\* The rows after an insert.
LEMMA InsertEffect ==
  ASSUME TypeOK, Table, NEW k \in Report, Knows(k), Carries, Insert(k)
  PROVE  /\ DOMAIN assets' = 1 .. Len(assets) + 1 /\ Len(assets') = Len(assets) + 1
         /\ \A i \in 1 .. Len(assets) : assets'[i] = assets[i] /\ writer'[i] = writer[i]
         /\ assets'[Len(assets) + 1] = [human |-> Len(assets) + 1, serial |-> id[k].serial, host |-> id[k].host]
         /\ writer'[Len(assets) + 1] = {k[1]}
  <1>1. /\ assets' = Append(assets, Record(k, next[k])) /\ writer' = Append(writer, {k[1]})
        /\ Record(k, next[k]) = [human |-> Len(assets) + 1, serial |-> id[k].serial, host |-> id[k].host]
    BY InsertMoves
  <1>2. assets \in Seq(Row) /\ writer \in Seq(SUBSET Device) /\ Len(writer) = Len(assets) /\ Len(assets) \in Nat
    BY TableFacts DEF TypeOK
  <1> HIDE DEF Record
  <1>3. /\ DOMAIN assets' = 1 .. Len(assets) + 1 /\ Len(assets') = Len(assets) + 1
        /\ \A i \in 1 .. Len(assets) : assets'[i] = assets[i]
        /\ assets'[Len(assets) + 1] = Record(k, next[k])
    BY <1>1, <1>2
  <1>4. /\ \A i \in 1 .. Len(assets) : writer'[i] = writer[i]
        /\ writer'[Len(assets) + 1] = {k[1]}
    BY <1>1, <1>2
  <1> QED
    BY <1>1, <1>3, <1>4

\* The rows after an update.
LEMMA UpdateEffect ==
  ASSUME TypeOK, Table, NEW k \in Report, Knows(k), Carries, Update(k)
  PROVE  \/ UNCHANGED <<assets, writer, told>>
         \/ /\ row[k] \in 1 .. Len(assets) /\ Len(assets') = Len(assets) /\ DOMAIN assets' = 1 .. Len(assets)
            /\ \A j \in 1 .. Len(assets) \ {row[k]} :
                 /\ assets[j].serial # id[k].serial /\ assets[j].host # id[k].host
                 /\ assets'[j] = assets[j] /\ writer'[j] = writer[j]
            /\ assets'[row[k]] = [human |-> row[k], serial |-> id[k].serial, host |-> id[k].host]
            /\ writer'[row[k]] = writer[row[k]] \cup {k[1]} /\ stored(k)
  <1>1. SUFFICES ASSUME
            /\ row[k] \in 1 .. Len(assets) /\ stored(k)
            /\ \A j \in 1 .. Len(assets) \ {row[k]} : assets[j].serial # id[k].serial /\ assets[j].host # id[k].host
            /\ assets' = [assets EXCEPT ![row[k]] = [human |-> row[k], serial |-> id[k].serial, host |-> id[k].host]]
            /\ writer' = [writer EXCEPT ![row[k]] = @ \cup {k[1]}]
        PROVE
            /\ Len(assets') = Len(assets) /\ DOMAIN assets' = 1 .. Len(assets)
            /\ \A j \in 1 .. Len(assets) \ {row[k]} : assets'[j] = assets[j] /\ writer'[j] = writer[j]
            /\ assets'[row[k]] = [human |-> row[k], serial |-> id[k].serial, host |-> id[k].host]
            /\ writer'[row[k]] = writer[row[k]] \cup {k[1]}
    BY UpdateMoves
  <1>2. /\ DOMAIN assets = 1 .. Len(assets) /\ DOMAIN writer = 1 .. Len(assets) /\ Len(assets) \in Nat
    BY TableFacts
  <1>3. Len(assets') = Len(assets)
    BY <1>1, <1>2 DEF TypeOK
  <1> QED
    BY <1>1, <1>2, <1>3

\* Every step keeps what the table is and what the reports know of it.
LEMMA TableStep ==
  ASSUME TypeOK, LockInv, Carries, Table, Named, ~clash, \A k \in Report : Knows(k), [Next]_vars
  PROVE  Carries' /\ Table' /\ Named' /\ ~clash' /\ \A k \in Report : Knows(k)'
  <1> DEFINE Goal == Carries' /\ Table' /\ Named' /\ ~clash' /\ \A k \in Report : Knows(k)'
  <1>t. /\ pc \in [Report -> Label] /\ row \in [Report -> 0 .. Len(assets)] /\ next \in [Report -> 0 .. Len(assets) + 1]
        /\ id \in [Report -> [serial : 0 .. issued, host : Host \cup {NoHost}]] /\ issued \in Nat
        /\ host \in [Device -> Host] /\ serial \in [Device -> 1 .. issued]
    BY DEF TypeOK, Label
  <1>d. \A k \in Report : k[1] \in Device
    BY DeviceOf
  <1>m. Len(assets) \in Nat /\ DOMAIN assets = 1 .. Len(assets)
    BY TableFacts
  \* Only the holder of the lock reads or writes the table.
  <1>o. ASSUME NEW k \in Report, NEW l \in Report \ {k}, pc[k] \in Locked PROVE pc[l] \notin Locked
    BY <1>o DEF LockInv
  <1>u. ASSUME UNCHANGED <<assets, pc, id, row, next>>, Carries', Named' PROVE Table' /\ \A k \in Report : Knows(k)'
    BY <1>u DEF Table, Knows
  <1>1. ASSUME NEW d \in Device, Enroll(d) PROVE Goal
    <2>1. UNCHANGED <<assets, pc, id, row, next, clash>>
      BY <1>1 DEF Enroll, change, handler
    <2>2. Carries' /\ Named'
      BY <1>t, <1>1, <2>1 DEF Enroll, change, Carries, Named, Full
    <2> QED
      BY <1>u, <2>1, <2>2
  <1>2. ASSUME NEW d \in Device, Retire(d) PROVE Goal
    <2>1. UNCHANGED <<assets, pc, id, row, next, clash>>
      BY <1>2 DEF Retire, change, handler
    <2>2. Carries' /\ Named'
      BY <1>t, <1>2, <2>1 DEF Retire, change, Carries, Named, Full
    <2> QED
      BY <1>u, <2>1, <2>2
  <1>3. ASSUME NEW d \in Device, NEW h \in Host, Rename(d, h) PROVE Goal
    <2>1. UNCHANGED <<assets, pc, id, row, next, clash>>
      BY <1>3 DEF Rename, change, handler
    <2>2. Carries' /\ Named'
      BY <1>t, <1>3, <2>1 DEF Rename, change, Carries, Named, Full
    <2> QED
      BY <1>u, <2>1, <2>2
  <1>4. ASSUME NEW k \in Report, Receive(k) PROVE Goal
    <2>1. Identity(k[1]) \in Full /\ Identity(k[1]).host \in used
      BY <1>t, <1>d DEF Identity, Full, Named
    <2>2. Carries' /\ Named'
      BY <1>t, <1>4, <2>1 DEF Receive, goto, fleet, Carries, Named, Full
    <2>3. Table' /\ ~clash'
      BY <1>4 DEF Receive, Table, ghost
    <2>4. \A l \in Report : Knows(l)'
      BY <1>t, <1>4 DEF Receive, goto, Knows
    <2> QED
      BY <2>2, <2>3, <2>4
  <1>5. ASSUME NEW k \in Report, Lock(k) PROVE Goal
    <2>2. Carries' /\ Named'
      BY <1>t, <1>5 DEF Lock, goto, fleet, Carries, Named, Full
    <2>3. Table' /\ ~clash'
      BY <1>5 DEF Lock, Table, ghost
    <2>4. \A l \in Report : Knows(l)'
      BY <1>t, <1>5 DEF Lock, goto, Knows
    <2> QED
      BY <2>2, <2>3, <2>4
  <1>6. ASSUME NEW k \in Report, LookupSerial(k) PROVE Goal
    <2>1. UNCHANGED <<fleet, id, next, lock, assets, clash>>
      BY <1>6 DEF LookupSerial, ghost
    <2>2. PICK l \in {"host", "update"} : pc' = [pc EXCEPT ![k] = l]
      BY <1>6, LookupSerialMoves
    <2>3. Carries' /\ Named'
      BY <1>t, <1>6, <2>1, <2>2 DEF LookupSerial, fleet, Carries, Named, Full
    <2>4. Table' /\ ~clash'
      BY <2>1 DEF Table
    <2>5. \A q \in Report : Knows(q)'
      <3>1. Knows(k)'
        BY <1>t, <1>m, <1>6, <2>1, LookupSerialMoves DEF LookupSerial, Knows
      <3>2. ASSUME NEW q \in Report \ {k} PROVE Knows(q)'
        <4>1. pc'[q] = pc[q] /\ row'[q] = row[q]
          BY <1>t, <1>6, <2>2 DEF LookupSerial
        <4> QED
          BY <2>1, <4>1 DEF Knows
      <3> QED
        BY <3>1, <3>2
    <2> QED
      BY <2>3, <2>4, <2>5
  <1>7. ASSUME NEW k \in Report, LookupHost(k) PROVE Goal
    <2>1. UNCHANGED <<fleet, id, next, lock, assets, clash>>
      BY <1>7 DEF LookupHost, ghost
    <2>2. PICK l \in {"next", "update"} : pc' = [pc EXCEPT ![k] = l]
      BY <1>7, LookupHostMoves
    <2>3. Carries' /\ Named'
      BY <1>t, <1>7, <2>1, <2>2 DEF LookupHost, fleet, Carries, Named, Full
    <2>4. Table' /\ ~clash'
      BY <2>1 DEF Table
    <2>5. \A q \in Report : Knows(q)'
      <3>1. Knows(k)'
        <4>1. pc[k] = "host" /\ \A i \in DOMAIN assets : assets[i].serial # id[k].serial
          BY <1>7 DEF LookupHost, Knows
        <4>2. CASE pc' = [pc EXCEPT ![k] = "next"] /\ \A i \in DOMAIN assets : assets[i].host # id[k].host
          BY <1>t, <2>1, <4>1, <4>2 DEF Knows
        <4>3. ASSUME NEW r \in DOMAIN assets, row' = [row EXCEPT ![k] = r], pc' = [pc EXCEPT ![k] = "update"],
                     assets[r].host = id[k].host
              PROVE  Knows(k)'
          BY <1>t, <2>1, <4>3 DEF Knows
        <4> QED
          BY <1>7, <4>2, <4>3, LookupHostMoves
      <3>2. ASSUME NEW q \in Report \ {k} PROVE Knows(q)'
        <4>1. pc'[q] = pc[q] /\ row'[q] = row[q]
          BY <1>t, <1>7, <2>2 DEF LookupHost
        <4> QED
          BY <2>1, <4>1 DEF Knows
      <3> QED
        BY <3>1, <3>2
    <2> QED
      BY <2>3, <2>4, <2>5
  <1>8. ASSUME NEW k \in Report, NextSeq(k) PROVE Goal
    <2>1. UNCHANGED <<fleet, id, row, lock, assets, clash>>
      BY <1>8 DEF NextSeq, ghost
    <2>2. next' = [next EXCEPT ![k] = Len(assets) + 1] /\ pc' = [pc EXCEPT ![k] = "insert"]
      BY <1>8, NextSeqMoves
    <2>3. Carries' /\ Named'
      BY <1>t, <1>8, <2>1, <2>2 DEF NextSeq, fleet, Carries, Named, Full
    <2>4. Table' /\ ~clash'
      BY <2>1 DEF Table
    <2>5. \A q \in Report : Knows(q)'
      <3>1. Knows(k)'
        BY <1>t, <1>m, <1>8, <2>1, <2>2 DEF NextSeq, Knows
      <3>2. ASSUME NEW q \in Report \ {k} PROVE Knows(q)'
        <4>1. pc'[q] = pc[q] /\ next'[q] = next[q]
          BY <1>t, <2>2
        <4> QED
          BY <2>1, <4>1 DEF Knows
      <3> QED
        BY <3>1, <3>2
    <2> QED
      BY <2>3, <2>4, <2>5
  <1>9. ASSUME NEW k \in Report, Insert(k) PROVE Goal
    <2>1. /\ pc' = [pc EXCEPT ![k] = "idle"] /\ id' = [id EXCEPT ![k] = NoId] /\ pc[k] = "insert"
          /\ row' = [row EXCEPT ![k] = 0] /\ next' = [next EXCEPT ![k] = 0] /\ UNCHANGED fleet
      BY <1>9 DEF Insert, finish, goto
    <2>0. Full' = Full /\ \A q \in Report : pc'[q] # "idle" => pc[q] # "idle" /\ id'[q] = id[q]
      BY <1>t, <2>1 DEF fleet, Full
    <2>2. Carries' /\ \A q \in Report : pc'[q] # "idle" => id'[q].host \in used'
      BY <2>0, <2>1 DEF fleet, Carries, Named
    <2>3. /\ DOMAIN assets' = 1 .. Len(assets) + 1
          /\ \A i \in 1 .. Len(assets) : assets'[i] = assets[i]
          /\ assets'[Len(assets) + 1] = [human |-> Len(assets) + 1, serial |-> id[k].serial, host |-> id[k].host]
          /\ UNCHANGED clash
      BY <1>9, InsertEffect, InsertMoves
    <2>4. Table'
      BY <1>m, <2>1, <2>3 DEF Table, Knows
    <2>5. Named'
      BY <1>m, <2>1, <2>2, <2>3 DEF Named, fleet
    <2>6. \A q \in Report : Knows(q)'
      BY <1>t, <1>o, <2>1 DEF Knows, Locked
    <2> QED
      BY <2>2, <2>3, <2>4, <2>5, <2>6
  <1>10. ASSUME NEW k \in Report, Update(k) PROVE Goal
    <2>1. /\ pc' = [pc EXCEPT ![k] = "idle"] /\ id' = [id EXCEPT ![k] = NoId] /\ pc[k] = "update"
          /\ row' = [row EXCEPT ![k] = 0] /\ next' = [next EXCEPT ![k] = 0] /\ UNCHANGED fleet
      BY <1>10 DEF Update, finish, goto
    <2>0. Full' = Full /\ \A q \in Report : pc'[q] # "idle" => pc[q] # "idle" /\ id'[q] = id[q]
      BY <1>t, <2>1 DEF fleet, Full
    <2>2. Carries' /\ \A q \in Report : pc'[q] # "idle" => id'[q].host \in used'
      BY <2>0, <2>1 DEF fleet, Carries, Named
    <2>3. UNCHANGED clash
      BY <1>10 DEF Update
    <2>4. Table' /\ Named'
      <3>1. CASE UNCHANGED <<assets, writer, told>>
        BY <2>1, <2>2, <3>1 DEF Table, Named, fleet
      <3>2. CASE /\ row[k] \in 1 .. Len(assets) /\ DOMAIN assets' = 1 .. Len(assets)
                 /\ \A j \in 1 .. Len(assets) \ {row[k]} :
                      /\ assets[j].serial # id[k].serial /\ assets[j].host # id[k].host /\ assets'[j] = assets[j]
                 /\ assets'[row[k]] = [human |-> row[k], serial |-> id[k].serial, host |-> id[k].host]
        <4>1. Table'
          BY <1>m, <3>2 DEF Table
        <4>2. Named'
          BY <1>m, <2>1, <2>2, <3>2 DEF Named, fleet
        <4> QED
          BY <4>1, <4>2
      <3> QED
        BY <1>10, <3>1, <3>2, UpdateEffect
    <2>5. \A q \in Report : Knows(q)'
      BY <1>t, <1>o, <2>1 DEF Knows, Locked
    <2> QED
      BY <2>2, <2>3, <2>4, <2>5
  <1>11. ASSUME NEW k \in Report, Fail(k) PROVE Goal
    <2>1. /\ pc' = [pc EXCEPT ![k] = "idle"] /\ id' = [id EXCEPT ![k] = NoId]
          /\ row' = [row EXCEPT ![k] = 0] /\ next' = [next EXCEPT ![k] = 0] /\ UNCHANGED <<fleet, assets, clash>>
      BY <1>11 DEF Fail, finish, goto, ghost
    <2>0. Full' = Full /\ \A q \in Report : pc'[q] # "idle" => pc[q] # "idle" /\ id'[q] = id[q]
      BY <1>t, <2>1 DEF fleet, Full
    <2>2. Carries' /\ Named'
      BY <2>0, <2>1 DEF fleet, Carries, Named
    <2>3. Table' /\ ~clash'
      BY <2>1 DEF Table
    <2>4. \A q \in Report : Knows(q)'
      BY <1>t, <2>1 DEF Knows
    <2> QED
      BY <2>2, <2>3, <2>4
  <1>12. CASE UNCHANGED vars
    BY <1>12 DEF vars, fleet, handler, ghost, Carries, Table, Named, Knows, Full
  <1> QED
    BY <1>1, <1>2, <1>3, <1>4, <1>5, <1>6, <1>7, <1>8, <1>9, <1>10, <1>11, <1>12 DEF Next, Step

-----------------------------------------------------------------------------
(* Whose row it is                                                          *)

Distinct == \A d, e \in Device : serial[d] = serial[e] \/ host[d] = host[e] => d = e
Current == \A k \in Report : pc[k] # "idle" => id[k] = Identity(k[1])
EachOwned == \A i \in DOMAIN assets : \E d \in Device : Owned(i, d)
OneEach == \A i, j \in DOMAIN assets : writer[i] = writer[j] => i = j

\* A change of a device that has been told and has no report on its way leaves every row owned.
LEMMA ChangeKeepsOwners ==
  ASSUME AssetIInv, OwnerInv, NEW d \in Device, change(d), Settled(d),
         \A e \in Device \ {d} : serial'[e] = serial[e] /\ host'[e] = host[e],
         \/ serial'[d] = serial[d] /\ (host'[d] = host[d] \/ host'[d] \notin used)
         \/ host'[d] = host[d] /\ serial'[d] > issued
  PROVE  OwnerInv'
  <1>t. /\ serial \in [Device -> 1 .. issued] /\ issued \in Nat /\ told \in [Device -> BOOLEAN]
        /\ \A i \in DOMAIN assets : assets[i].serial \in 1 .. issued /\ assets[i].host \in used
    BY TableFacts DEF AssetIInv, TypeOK, FlagsOK, Named
  <1>u. UNCHANGED <<pc, id, assets, writer>> /\ told' = [told EXCEPT ![d] = FALSE] /\ told[d]
    BY DEF change, handler, Settled
  <1>1. Distinct'
    BY <1>t DEF AssetIInv, Named, OwnerInv, Distinct
  <1>2. Current'
    <2>1. ASSUME NEW k \in Report, pc[k] # "idle" PROVE k[1] \in Device \ {d}
      BY <2>1 DEF Report, Settled
    <2> QED
      BY <1>u, <2>1 DEF OwnerInv, Current, Identity
  <1>3. EachOwned'
    <2>1. SUFFICES ASSUME NEW i \in DOMAIN assets, NEW e \in Device, Owned(i, e) PROVE Owned(i, e)'
      BY <1>u DEF OwnerInv, EachOwned
    <2>2. /\ writer'[i] = {e}
          /\ assets'[i].serial = serial'[e] \/ assets'[i].host = host'[e]
      BY <1>u, <2>1 DEF Owned
    <2>3. told'[e] => assets'[i].serial = serial'[e] /\ assets'[i].host = host'[e]
      BY <1>t, <1>u, <2>1 DEF Owned
    <2>4. \A c \in Device \ {e} : assets'[i].serial # serial'[c] /\ assets'[i].host # host'[c]
      BY <1>t, <1>u, <2>1 DEF Owned
    <2> QED
      BY <2>2, <2>3, <2>4 DEF Owned
  <1>4. OneEach'
    BY <1>u DEF OwnerInv, OneEach
  <1> QED
    BY <1>1, <1>2, <1>3, <1>4 DEF OwnerInv, Distinct, Current, EachOwned, OneEach

\* Every step keeps the rows with their owners.
LEMMA OwnerStep ==
  ASSUME AssetIInv, [Next]_vars
  PROVE  fresh' /\ calm' => OwnerInv'
  <1> DEFINE Goal == fresh' /\ calm' => OwnerInv'
  <1>t. /\ serial \in [Device -> 1 .. issued] /\ issued \in Nat /\ host \in [Device -> Host] /\ pc \in [Report -> Label]
        /\ id \in [Report -> [serial : 0 .. issued, host : Host \cup {NoHost}]] /\ told \in [Device -> BOOLEAN]
        /\ DOMAIN assets = 1 .. Len(assets) /\ Len(assets) \in Nat /\ TypeOK /\ Table /\ Carries
        /\ \A k \in Report : k[1] \in Device /\ Knows(k)
    BY TableFacts, DeviceOf DEF AssetIInv, TypeOK, FlagsOK, Label
  <1>u. ASSUME UNCHANGED <<serial, host, assets, writer, told, fresh, calm>>,
               \A k \in Report : pc'[k] # "idle" => (pc[k] # "idle" /\ id'[k] = id[k]) \/ id'[k] = Identity(k[1])
        PROVE  Goal
    BY <1>u DEF AssetIInv, OwnerInv, Owned, Identity
  <1>1. ASSUME NEW d \in Device, Enroll(d) PROVE Goal
    <2>1. SUFFICES ASSUME fresh', calm' PROVE OwnerInv'
      OBVIOUS
    <2>2. change(d) /\ Settled(d) /\ fresh /\ calm
      BY <1>1, <2>1, Zenon DEF Enroll, change
    <2>3. OwnerInv
      BY <2>2 DEF AssetIInv
    <2>4. \A e \in Device \ {d} : serial'[e] = serial[e] /\ host'[e] = host[e]
      BY <1>t, <1>1 DEF Enroll
    <2>5. \/ serial'[d] = serial[d] /\ (host'[d] = host[d] \/ host'[d] \notin used)
          \/ host'[d] = host[d] /\ serial'[d] > issued
      BY <1>t, <1>1, <2>1 DEF Enroll
    <2> QED
      BY <2>2, <2>3, <2>4, <2>5, ChangeKeepsOwners
  <1>2. ASSUME NEW d \in Device, Retire(d) PROVE Goal
    <2>1. SUFFICES ASSUME fresh', calm' PROVE OwnerInv'
      OBVIOUS
    <2>2. change(d) /\ Settled(d) /\ fresh /\ calm
      BY <1>2, <2>1, Zenon DEF Retire, change
    <2>3. OwnerInv
      BY <2>2 DEF AssetIInv
    <2>4. \A e \in Device \ {d} : serial'[e] = serial[e] /\ host'[e] = host[e]
      BY <1>t, <1>2 DEF Retire
    <2>5. \/ serial'[d] = serial[d] /\ (host'[d] = host[d] \/ host'[d] \notin used)
          \/ host'[d] = host[d] /\ serial'[d] > issued
      BY <1>t, <1>2, <2>1 DEF Retire
    <2> QED
      BY <2>2, <2>3, <2>4, <2>5, ChangeKeepsOwners
  <1>3. ASSUME NEW d \in Device, NEW h \in Host, Rename(d, h) PROVE Goal
    <2>1. SUFFICES ASSUME fresh', calm' PROVE OwnerInv'
      OBVIOUS
    <2>2. change(d) /\ Settled(d) /\ fresh /\ calm
      BY <1>3, <2>1, Zenon DEF Rename, change
    <2>3. OwnerInv
      BY <2>2 DEF AssetIInv
    <2>4. \A e \in Device \ {d} : serial'[e] = serial[e] /\ host'[e] = host[e]
      BY <1>t, <1>3 DEF Rename
    <2>5. \/ serial'[d] = serial[d] /\ (host'[d] = host[d] \/ host'[d] \notin used)
          \/ host'[d] = host[d] /\ serial'[d] > issued
      BY <1>t, <1>3, <2>1 DEF Rename
    <2> QED
      BY <2>2, <2>3, <2>4, <2>5, ChangeKeepsOwners
  <1>4. ASSUME NEW k \in Report, Receive(k) PROVE Goal
    BY <1>t, <1>u, <1>4 DEF Receive, goto, fleet, ghost
  <1>5. ASSUME NEW k \in Report, Lock(k) PROVE Goal
    BY <1>t, <1>u, <1>5 DEF Lock, goto, fleet, ghost
  <1>6. ASSUME NEW k \in Report, LookupSerial(k) PROVE Goal
    <2>1. UNCHANGED <<serial, host, assets, writer, told, fresh, calm, id>>
      BY <1>6 DEF LookupSerial, fleet, ghost
    <2>2. \A q \in Report : pc'[q] # "idle" => pc[q] # "idle"
      BY <1>t, <1>6 DEF LookupSerial, goto
    <2> QED
      BY <1>u, <2>1, <2>2
  <1>7. ASSUME NEW k \in Report, LookupHost(k) PROVE Goal
    <2>1. UNCHANGED <<serial, host, assets, writer, told, fresh, calm, id>>
      BY <1>7 DEF LookupHost, fleet, ghost
    <2>2. \A q \in Report : pc'[q] # "idle" => pc[q] # "idle"
      BY <1>t, <1>7 DEF LookupHost, goto
    <2> QED
      BY <1>u, <2>1, <2>2
  <1>8. ASSUME NEW k \in Report, NextSeq(k) PROVE Goal
    <2>1. UNCHANGED <<serial, host, assets, writer, told, fresh, calm, id>>
      BY <1>8 DEF NextSeq, fleet, ghost
    <2>2. \A q \in Report : pc'[q] # "idle" => pc[q] # "idle"
      BY <1>t, <1>8 DEF NextSeq, goto
    <2> QED
      BY <1>u, <2>1, <2>2
  <1>9. ASSUME NEW k \in Report, Insert(k) PROVE Goal
    <2>1. SUFFICES ASSUME fresh, calm PROVE OwnerInv'
      BY <1>9 DEF Insert
    <2> DEFINE d == k[1]
    <2>n. PICK n : n = Len(assets) + 1
      OBVIOUS
    <2>2. OwnerInv /\ d \in Device /\ pc[k] = "insert" /\ id[k] = Identity(d)
      BY <1>t, <1>9, <2>1 DEF AssetIInv, OwnerInv, Insert
    <2>3. \A i \in DOMAIN assets : assets[i].serial # serial[d] /\ assets[i].host # host[d]
      BY <1>t, <2>2 DEF Knows, Identity
    <2>4. /\ DOMAIN assets' = 1 .. n
          /\ \A i \in 1 .. Len(assets) : assets'[i] = assets[i] /\ writer'[i] = writer[i]
          /\ assets'[n] = [human |-> n, serial |-> serial[d], host |-> host[d]] /\ writer'[n] = {d}
      BY <1>t, <1>9, <2>n, <2>2, InsertEffect DEF Identity
    <2>5. UNCHANGED <<serial, host>> /\ \A e \in Device \ {d} : told'[e] = told[e]
      BY <1>t, <1>9, InsertMoves DEF Insert, fleet, stored
    <2> HIDE DEF d
    <2>6. Distinct'
      BY <2>2, <2>5 DEF OwnerInv, Distinct
    <2>7. Current'
      BY <1>t, <1>9, <2>2, <2>5 DEF Insert, finish, goto, OwnerInv, Current, Identity
    <2>8. \A i \in 1 .. Len(assets) : \E e \in Device \ {d} : Owned(i, e) /\ Owned(i, e)'
      <3>1. SUFFICES ASSUME NEW i \in 1 .. Len(assets) PROVE \E e \in Device \ {d} : Owned(i, e) /\ Owned(i, e)'
        OBVIOUS
      <3>2. PICK e \in Device : Owned(i, e)
        BY <1>t, <2>2 DEF OwnerInv
      <3>3. e # d
        BY <1>t, <2>3, <3>2 DEF Owned
      <3>4. Owned(i, e)'
        BY <2>4, <2>5, <3>2, <3>3 DEF Owned
      <3> QED
        BY <3>2, <3>3, <3>4
    <2>9. Owned(n, d)'
      BY <2>2, <2>4, <2>5, <2>6 DEF Owned, Distinct
    <2>10. EachOwned'
      <3>1. \A i \in 1 .. n : i \in 1 .. Len(assets) \/ i = n
        BY <1>t, <2>n
      <3>2. ASSUME NEW i \in DOMAIN assets' PROVE \E e \in Device : Owned(i, e)'
        BY <2>2, <2>4, <2>8, <2>9, <3>1, <3>2, Zenon
      <3> QED
        BY <3>2, Zenon DEF EachOwned
    <2>11. OneEach'
      <3>0. \A i \in 1 .. n : i \in 1 .. Len(assets) \/ i = n
        BY <1>t, <2>n
      <3>1. \A i \in 1 .. Len(assets) : writer'[i] # {d}
        BY <2>4, <2>8 DEF Owned
      <3> QED
        <4>1. OneEach
          BY <2>2 DEF OneEach, OwnerInv
        <4> QED
          BY <1>t, <2>n, <2>4, <3>0, <3>1, <4>1, Zenon DEF OneEach
    <2> QED
      BY <2>6, <2>7, <2>10, <2>11 DEF OwnerInv, Distinct, Current, EachOwned, OneEach
  <1>10. ASSUME NEW k \in Report, Update(k) PROVE Goal
    <2>1. SUFFICES ASSUME fresh, calm PROVE OwnerInv'
      BY <1>10 DEF Update
    <2> DEFINE d == k[1]
    <2>r. PICK r : r = row[k]
      OBVIOUS
    <2>2. OwnerInv /\ d \in Device /\ pc[k] = "update" /\ id[k] = Identity(d) /\ UNCHANGED <<serial, host>>
      BY <1>t, <1>10, <2>1 DEF AssetIInv, OwnerInv, Update, fleet
    <2>3. r \in DOMAIN assets /\ (assets[r].serial = serial[d] \/ assets[r].host = host[d])
      BY <1>t, <2>r, <2>2 DEF Knows, Identity
    <2>4. Owned(r, d)
      BY <2>2, <2>3 DEF OwnerInv, Owned
    <2>5. Distinct'
      BY <2>2 DEF OwnerInv, Distinct
    <2>6. Current'
      BY <1>t, <1>10, <2>2 DEF Update, finish, goto, OwnerInv, Current, Identity
    <2>7. CASE UNCHANGED <<assets, writer, told>>
      BY <2>2, <2>5, <2>6, <2>7 DEF OwnerInv, Owned, Distinct, Current
    <2>8. CASE /\ DOMAIN assets' = 1 .. Len(assets)
               /\ \A j \in 1 .. Len(assets) \ {r} : assets'[j] = assets[j] /\ writer'[j] = writer[j]
               /\ assets'[r] = [human |-> r, serial |-> id[k].serial, host |-> id[k].host]
               /\ writer'[r] = writer[r] \cup {d} /\ stored(k)
      <3>1. assets'[r].serial = serial[d] /\ assets'[r].host = host[d] /\ writer'[r] = {d}
        BY <2>2, <2>4, <2>8 DEF Identity, Owned
      <3>2. \A e \in Device \ {d} : told'[e] = told[e]
        BY <1>t, <2>8 DEF stored
      <3> HIDE DEF d
      <3>3. \A j \in 1 .. Len(assets) : writer'[j] = writer[j]
        BY <2>4, <2>8, <3>1 DEF Owned
      <3>4. OneEach'
        BY <1>t, <2>2, <2>8, <3>3 DEF OneEach, OwnerInv
      <3>5. Owned(r, d)'
        BY <2>2, <2>5, <3>1 DEF Owned, Distinct
      <3>6. ASSUME NEW i \in 1 .. Len(assets) \ {r} PROVE \E e \in Device : Owned(i, e)'
        <4>1. PICK e \in Device : Owned(i, e)
          BY <1>t, <2>2 DEF OwnerInv
        <4>2. e # d
          <5>1. OneEach
            BY <2>2 DEF OneEach, OwnerInv
          <5> QED
            BY <1>t, <2>3, <2>4, <3>6, <4>1, <5>1 DEF Owned, OneEach
        <4>3. Owned(i, e)'
          BY <2>2, <2>8, <3>2, <4>1, <4>2 DEF Owned
        <4> QED
          BY <4>3
      <3>7. EachOwned'
        BY <2>2, <2>8, <3>5, <3>6 DEF EachOwned
      <3> QED
        BY <2>5, <2>6, <3>4, <3>7 DEF OwnerInv, Distinct, Current, EachOwned, OneEach
    <2> QED
      BY <1>t, <1>10, <2>r, <2>7, <2>8, UpdateEffect
  <1>11. ASSUME NEW k \in Report, Fail(k) PROVE Goal
    BY <1>t, <1>u, <1>11 DEF Fail, finish, goto, fleet, ghost
  <1>12. CASE UNCHANGED vars
    BY <1>t, <1>u, <1>12 DEF vars, fleet, handler, ghost
  <1> QED
    BY <1>1, <1>2, <1>3, <1>4, <1>5, <1>6, <1>7, <1>8, <1>9, <1>10, <1>11, <1>12 DEF Next, Step

-----------------------------------------------------------------------------
(* The theorems                                                             *)

\* The inductive invariant holds in every state.
THEOREM AssetInvariant == Spec => []AssetIInv
  <1>1. AssetIInv /\ [Next]_vars => AssetIInv'
    <2>1. SUFFICES ASSUME AssetIInv, [Next]_vars PROVE AssetIInv'
      OBVIOUS
    <2>2. TypeOK' /\ LockInv'
      BY <2>1, AssetTypeStep, LockStep DEF AssetIInv
    <2>3. Carries' /\ Table' /\ Named' /\ ~clash' /\ \A k \in Report : Knows(k)'
      BY <2>1, TableStep DEF AssetIInv
    <2>4. fresh' /\ calm' => OwnerInv'
      BY <2>1, OwnerStep
    <2> QED
      BY <2>2, <2>3, <2>4, Zenon DEF AssetIInv
  <1> QED
    BY <1>1, AssetInitOK, PTL DEF Spec

\* However reports, renames, new certificates, retirements and failures interleave: types, no
\* INSERT that meets a unique index, and one row per device while its changes are told one by one.
THEOREM AssetsAreSound == Spec => []AssetInv
  <1>1. ASSUME AssetIInv, fresh, calm
        PROVE  /\ \A i \in DOMAIN writer : Cardinality(writer[i]) = 1
               /\ \A i, j \in DOMAIN writer : writer[i] = writer[j] => i = j
    <2>1. OwnerInv /\ DOMAIN writer = DOMAIN assets
      BY <1>1, TableFacts DEF AssetIInv
    <2>2. \A i \in DOMAIN writer : \E d \in Device : writer[i] = {d}
      BY <2>1 DEF OwnerInv, Owned
    <2>3. \A d \in Device : Cardinality({d}) = 1
      BY FS_Singleton, Zenon
    <2> QED
      BY <2>1, <2>2, <2>3, Zenon DEF OwnerInv
  <1>2. AssetIInv => AssetInv
    BY <1>1, Zenon DEF AssetIInv, AssetInv, InsertIsFresh, OneRowPerDevice
  <1> QED
    BY <1>2, AssetInvariant, PTL

=============================================================================
