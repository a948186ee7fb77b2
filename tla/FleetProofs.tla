---------------------------- MODULE FleetProofs -----------------------------
(***************************************************************************)
(* The areas of the fleet, one after the other: the Android policy, the    *)
(* service desk, the backup engine, the app catalogue, the deployments and *)
(* automations.  Each has an inductive invariant of its own and a lemma    *)
(* for each group of its steps; the policy merge is a function, and its    *)
(* theorems are about what it returns.  Induction is by the least          *)
(* counterexample (Least).  The theorems at the end are of the whole.      *)
(***************************************************************************)
EXTENDS Fleet, SequenceTheorems, FiniteSetTheorems, WellFoundedInduction, TLAPS

(* The Android policy                                                       *)

Fields == {"keep", "set", "clear"}
Row == [ex : BOOLEAN, camera : BOOLEAN, wipe : BOOLEAN]

PatchTypes == patch \in [Patcher -> [pc : {"idle", "select", "write"}, camera : Fields, wipe : Fields, cur : Row]]

\* A request that holds the lock has read the row as it is; one that has read a row holds it.
LockedRowStands ==
  /\ \A h \in Patcher : lock = h => patch[h].cur = droid /\ droid.ex
  /\ \A h \in Patcher : patch[h].pc = "write" /\ patch[h].cur.ex => lock = h

\* Before the first row no wipe is stored.
NoRowNoWipe == ~droid.ex => ~droid.wipe

\* An answer that is about to clear a wipe that is owed carried an earlier one.
OwedIsUncarried == owed => \A a \in Answer : ack[a] = "clear" => a \in before

DroidInv == WipeIsKept /\ PatchTypes /\ LockedRowStands /\ NoRowNoWipe /\ OwedIsUncarried

USE DroidAssumption

\* The first state satisfies the invariant.
LEMMA DroidInitInv == DroidInit => DroidInv
<1> SUFFICES ASSUME DroidInit PROVE DroidInv
  OBVIOUS
<1> USE DEF DroidInit
<1>1. NoRow \in Row /\ ~NoRow.ex /\ ~NoRow.wipe  BY DEF NoRow, Row
<1>2. NoPatch \in [pc : {"idle", "select", "write"}, camera : Fields, wipe : Fields, cur : Row]
      /\ NoPatch.pc = "idle"
  BY <1>1 DEF NoPatch, Fields
<1>3. PatchTypes  BY <1>2 DEF PatchTypes
<1>4. LockedRowStands  BY <1>2 DEF LockedRowStands
<1>5. NoRowNoWipe /\ OwedIsUncarried  BY <1>1 DEF NoRowNoWipe, OwedIsUncarried
<1>6. WipeIsKept  BY <1>1 DEF WipeIsKept, DroidTypeOK, Row
<1> QED BY <1>3, <1>4, <1>5, <1>6 DEF DroidInv

\* PATCH requests preserve the invariant.
LEMMA PatchStep ==
  ASSUME DroidInv, NEW h \in Patcher,
         StartPatch(h) \/ SelectForUpdate(h) \/ CommitPatch(h) \/ RollbackPatch(h)
  PROVE  DroidInv'
<1> USE DEF DroidInv, WipeIsKept, DroidTypeOK, PatchTypes, LockedRowStands, NoRowNoWipe,
            OwedIsUncarried, NoRow, NoPatch, Fields, Row
<1>1. CASE StartPatch(h)
  <2>1. PICK c \in Fields, w \in Fields :
          patch' = [patch EXCEPT ![h] = [pc |-> "select", camera |-> c, wipe |-> w, cur |-> NoRow]]
    BY <1>1 DEF StartPatch
  <2>2. lock # h /\ UNCHANGED <<droid, lock, ack, owed, before, taken, raced>>  BY <1>1 DEF StartPatch, wipeVars
  <2>3. PatchTypes'  BY <2>1
  <2>4. LockedRowStands' /\ DroidTypeOK'  BY <2>1, <2>2
  <2> QED BY <2>2, <2>3, <2>4
<1>2. CASE SelectForUpdate(h)
  <2>1. patch' = [patch EXCEPT ![h] = [@ EXCEPT !.pc = "write", !.cur = droid]]
    BY <1>2 DEF SelectForUpdate
  <2>2. patch'[h].cur = droid /\ patch'[h].pc = "write" /\ \A g \in Patcher \ {h} : patch'[g] = patch[g]
    BY <2>1
  <2>3. PatchTypes'  BY <1>2, <2>1 DEF SelectForUpdate
  <2>4. LockedRowStands'  BY <1>2, <2>2 DEF SelectForUpdate
  <2> QED BY <1>2, <2>2, <2>3, <2>4 DEF SelectForUpdate, wipeVars
<1>3. CASE CommitPatch(h)
  <2>1. PatchTypes'  BY <1>3 DEF CommitPatch
  <2>2. \A g \in Patcher \ {h} : lock # g  BY <1>3 DEF CommitPatch
  <2>3. LockedRowStands'  BY <1>3, <2>2 DEF CommitPatch
  <2>4. droid' \in Row /\ droid'.ex /\ droid'.wipe = applied(patch[h].wipe, patch[h].cur.wipe)
    BY <1>3 DEF CommitPatch, applied
  <2>5. DroidTypeOK' /\ OwedIsUncarried'
    <3>1. CASE patch[h].wipe = "keep"  BY <1>3, <2>2, <2>4, <3>1 DEF CommitPatch, wipeVars
    <3>2. CASE patch[h].wipe # "keep"
      <4>1. before' = {a \in Answer : ack[a] = "clear"} /\ taken' \in BOOLEAN /\ owed' \in BOOLEAN /\ ack' = ack
        BY <1>3, <3>2 DEF CommitPatch
      <4> QED BY <1>3, <2>2, <2>4, <4>1 DEF CommitPatch
    <3> QED BY <3>1, <3>2
  <2>6. ASSUME owed', ~raced', ~taken'  PROVE droid'.wipe
    <3>1. CASE patch[h].wipe = "set"  BY <3>1, <2>4 DEF applied
    <3>2. CASE patch[h].wipe = "clear"  BY <3>2, <2>6, <1>3 DEF CommitPatch
    <3>3. CASE patch[h].wipe = "keep"
      <4>0. UNCHANGED wipeVars  BY <3>3, <1>3 DEF CommitPatch
      <4>4. owed' = owed /\ taken' = taken  BY <4>0 DEF wipeVars
      <4>5. raced' = (raced \/ (droid.ex /\ ~patch[h].cur.ex))  BY <1>3 DEF CommitPatch
      <4>1. owed /\ ~raced /\ ~taken /\ (droid.ex => patch[h].cur.ex)  BY <2>6, <4>4, <4>5, Zenon
      <4>2. droid.wipe /\ droid.ex  BY <4>1
      <4>3. patch[h].cur = droid  BY <4>1, <4>2, <1>3 DEF CommitPatch
      <4> QED BY <4>2, <4>3, <3>3, <2>4 DEF applied
    <3> QED BY <3>1, <3>2, <3>3
  <2> QED BY <2>1, <2>3, <2>4, <2>5, <2>6
<1>4. CASE RollbackPatch(h)
  BY <1>4 DEF RollbackPatch, wipeVars
<1> QED BY <1>1, <1>2, <1>3, <1>4

\* Telemetry answers preserve the invariant.
LEMMA AnswerStep ==
  ASSUME DroidInv, NEW a \in Answer, CarryPolicy(a) \/ ClearWipe(a)
  PROVE  DroidInv'
<1> USE DEF DroidInv, WipeIsKept, DroidTypeOK, PatchTypes, LockedRowStands, NoRowNoWipe,
            OwedIsUncarried, Row
<1>1. CASE CarryPolicy(a)
  <2>1. ack' \in [Answer -> {"idle", "clear"}]  BY <1>1 DEF CarryPolicy
  <2>2. owed' = FALSE /\ UNCHANGED <<droid, lock, patch, before, taken, raced>>  BY <1>1 DEF CarryPolicy
  <2>3. DroidTypeOK'
    <3>1. before \subseteq {b \in Answer : ack'[b] = "clear"}  BY <1>1 DEF CarryPolicy
    <3> QED BY <2>1, <2>2, <3>1
  <2>4. PatchTypes' /\ LockedRowStands' /\ NoRowNoWipe'  BY <2>2
  <2>5. OwedIsUncarried' /\ WipeIsKept'  BY <2>2, <2>3
  <2> QED BY <2>3, <2>4, <2>5
<1>2. CASE ClearWipe(a)
  <2>1. owed' = owed /\ (owed => a \in before)  BY <1>2 DEF ClearWipe
  <2>2. \A h \in Patcher : lock # h  BY <1>2 DEF ClearWipe
  <2>3. ack' \in [Answer -> {"idle", "clear"}] /\ UNCHANGED <<lock, patch, raced>>
    BY <1>2 DEF ClearWipe
  <2>4. droid' \in Row /\ droid'.ex = droid.ex /\ (droid'.wipe => droid.wipe)
    BY <1>2 DEF ClearWipe
  <2>5. PatchTypes' /\ NoRowNoWipe'  BY <2>3, <2>4
  <2>6. LockedRowStands'  BY <2>2, <2>3
  <2>7. before' = before \ {a} /\ \A b \in Answer \ {a} : ack'[b] = ack[b]  BY <1>2 DEF ClearWipe
  <2>8. ack'[a] = "idle"  BY <1>2 DEF ClearWipe
  <2>9. before' \subseteq {b \in Answer : ack'[b] = "clear"} /\ OwedIsUncarried'  BY <2>1, <2>7, <2>8
  <2>10. UNCHANGED <<droid, taken>> \/ taken' = (taken \/ a \in before)  BY <1>2 DEF ClearWipe
  <2>11. taken' \in BOOLEAN /\ (owed /\ ~taken' => droid' = droid /\ ~taken)  BY <2>1, <2>10
  <2>12. WipeIsKept'  BY <2>1, <2>2, <2>3, <2>4, <2>9, <2>11
  <2> QED BY <2>5, <2>6, <2>9, <2>12
<1> QED BY <1>1, <1>2

\* Every step of the Android policy preserves the invariant.
LEMMA DroidStep == DroidInv /\ [DroidNext]_droidVars => DroidInv'
<1> SUFFICES ASSUME DroidInv, [DroidNext]_droidVars PROVE DroidInv'
  OBVIOUS
<1>1. CASE UNCHANGED droidVars
  BY <1>1 DEF droidVars, wipeVars, DroidInv, WipeIsKept, DroidTypeOK, PatchTypes, LockedRowStands,
              NoRowNoWipe, OwedIsUncarried
<1>2. CASE DroidNext  BY <1>2, PatchStep, AnswerStep DEF DroidNext
<1> QED BY <1>1, <1>2

HIDE DroidAssumption

-----------------------------------------------------------------------------
(* The service desk                                                         *)

Note == {"manual", "open", "repeat", "recovery", "command"}
IncRow == [ex : BOOLEAN, fp : BOOLEAN, state : IncState, notes : Seq(Note)]
TxRow == [pc : {"idle", "fields", "commit", "resolution", "open", "repeat"}, i : 0 .. MaxInc, note : BOOLEAN,
          state : IncState \cup {"keep"}, holds : BOOLEAN, new : IncRow]

DeskTypes ==
  /\ incSeq \in 0 .. MaxInc /\ resol \subseteq 1 .. MaxInc /\ alarmed \subseteq 1 .. MaxInc
  /\ inc \in [1 .. MaxInc -> IncRow] /\ said \in [1 .. MaxInc -> Seq(Note)]
  /\ tx \in [Clerk \cup Opener -> TxRow]

\* A request of an operator and the row it is about: what it will write is the row as it is,
\* changed in what it was asked to change.
ClerkOK(t, r) ==
  \/ t.pc \in {"idle", "resolution"} /\ ~t.holds
  \/ /\ t.pc \in {"fields", "commit"} /\ t.holds /\ r.ex /\ t.new.ex /\ (t.new.fp => r.fp)
     /\ t.new.notes = IF t.note THEN Append(r.notes, "manual") ELSE r.notes
     /\ t.new.state = IF t.pc = "fields" \/ t.state = "keep" THEN r.state ELSE t.state

\* A transaction of the alert engine and its row: it is about to open an incident whose number
\* nobody uses, or it holds the incident it repeats.
OpenerOK(t, r) ==
  \/ t.pc = "idle" /\ ~t.holds
  \/ t.pc = "open" /\ ~t.holds /\ ~r.ex
  \/ t.pc = "repeat" /\ t.holds /\ r.ex /\ r.fp
  \/ /\ t.pc = "commit" /\ t.holds /\ t.new.ex /\ t.new.fp /\ t.new.state = "active"
     /\ \/ ~r.ex /\ t.new.notes = <<"open">>
        \/ r.ex /\ r.fp /\ t.new.notes = Append(r.notes, "repeat")

TxInv ==
  /\ \A w \in Clerk \cup Opener : tx[w].pc # "idle" => tx[w].i \in 1 .. incSeq
  /\ \A c \in Clerk : ClerkOK(tx[c], inc[tx[c].i])
  /\ \A o \in Opener : OpenerOK(tx[o], inc[tx[o].i])

\* A row has one lock, and an incident that an alert opens or repeats one transaction.
Apart ==
  /\ \A w, v \in Clerk \cup Opener : w # v /\ tx[w].holds /\ tx[v].holds => tx[w].i # tx[v].i
  /\ \A o, q \in Opener : o # q /\ tx[o].pc # "idle" /\ tx[q].pc # "idle" => tx[o].i # tx[q].i

\* The unique index over the fingerprint: one row has it, or one transaction is about to add it.
Adds(o) == tx[o].pc = "commit" /\ ~inc[tx[o].i].ex
Unique ==
  /\ \A i, j \in 1 .. MaxInc : inc[i].ex /\ inc[i].fp /\ inc[j].ex /\ inc[j].fp => i = j
  /\ \A o \in Opener : Adds(o) => /\ \A i \in 1 .. MaxInc : ~(inc[i].ex /\ inc[i].fp)
                                  /\ \A q \in Opener : Adds(q) => q = o

\* The rows themselves.
Rows ==
  \A i \in 1 .. MaxInc :
    /\ inc[i].ex => i <= incSeq
    /\ ~inc[i].ex => inc[i] = NoInc
    /\ inc[i].notes = said[i]
    /\ i \in alarmed => inc[i].ex /\ inc[i].state = "active"
    /\ i \in resol => inc[i].ex

DeskIInv == DeskTypes /\ TxInv /\ Apart /\ Unique /\ Rows

\* The empty row and the empty transaction are of their types, and rows keep theirs when edited.
LEMMA DeskEmpty ==
  /\ NoInc \in IncRow /\ ~NoInc.ex /\ ~NoInc.fp /\ NoInc.notes = <<>> /\ NoInc.state = "active"
  /\ NoTx \in TxRow /\ NoTx.pc = "idle" /\ ~NoTx.holds /\ NoTx.new = NoInc /\ NoTx.note = FALSE
  /\ NoTx.i = 0 /\ NoTx.state = "keep"
<1>1. NoInc \in IncRow /\ ~NoInc.ex /\ ~NoInc.fp /\ NoInc.notes = <<>> /\ NoInc.state = "active"
  BY DEF NoInc, IncRow, IncState
<1>2. NoTx.pc = "idle" /\ ~NoTx.holds /\ NoTx.new = NoInc /\ NoTx.note = FALSE
      /\ NoTx.i = 0 /\ NoTx.state = "keep"
  BY DEF NoTx
<1>3. NoTx \in TxRow  BY <1>1, DeskAssumption DEF NoTx, TxRow
<1> QED BY <1>1, <1>2, <1>3

\* The transactions that begin are of their type.
LEMMA DeskTx ==
  ASSUME NEW i \in 1 .. MaxInc, NEW s \in IncState \cup {"keep"}, NEW n \in IncRow
  PROVE  /\ [NoTx EXCEPT !.pc = "fields", !.i = i, !.note = TRUE, !.state = s, !.holds = TRUE, !.new = n] \in TxRow
         /\ [NoTx EXCEPT !.pc = "commit", !.i = i, !.state = s, !.holds = TRUE, !.new = n] \in TxRow
         /\ [NoTx EXCEPT !.pc = "resolution", !.i = i] \in TxRow
         /\ [NoTx EXCEPT !.pc = "repeat", !.i = i, !.holds = TRUE] \in TxRow
         /\ [NoTx EXCEPT !.pc = "open", !.i = i] \in TxRow
<1>1. i \in 0 .. MaxInc  OBVIOUS
<1>2. NoTx \in TxRow  BY DeskEmpty
<1> QED BY <1>1, <1>2 DEF TxRow

\* An edited row differs in what was edited.
LEMMA DeskEdits ==
  ASSUME NEW r \in IncRow, NEW n \in Note, NEW s \in IncState
  PROVE  /\ withNote(r, n) \in IncRow /\ withNote(r, n).notes = Append(r.notes, n)
         /\ withNote(r, n).ex = r.ex /\ withNote(r, n).fp = r.fp /\ withNote(r, n).state = r.state
         /\ [r EXCEPT !.state = s] \in IncRow /\ [r EXCEPT !.state = s].notes = r.notes
         /\ [r EXCEPT !.state = s].ex = r.ex /\ [r EXCEPT !.state = s].fp = r.fp
         /\ [r EXCEPT !.state = s].state = s
<1>1. r.notes \in Seq(Note) /\ Append(r.notes, n) \in Seq(Note)  BY DEF IncRow
<1> QED BY <1>1 DEF withNote, IncRow

\* A step that moves one transaction to t and leaves the rows alone
TxMoves(w, t) ==
  /\ t \in TxRow /\ tx' = [tx EXCEPT ![w] = t] /\ UNCHANGED <<inc, said, alarmed>>
  /\ incSeq' \in 0 .. MaxInc /\ incSeq <= incSeq'
  /\ resol' \subseteq 1 .. MaxInc /\ \A i \in resol' : inc[i].ex
  /\ t.pc # "idle" => t.i \in 1 .. incSeq'
  /\ w \in Clerk => ClerkOK(t, inc[t.i])
  /\ w \in Opener => OpenerOK(t, inc[t.i])
  /\ t.holds => \A v \in (Clerk \cup Opener) \ {w} : tx[v].holds => tx[v].i # t.i
  /\ w \in Opener /\ t.pc # "idle" => \A q \in Opener \ {w} : tx[q].pc # "idle" => tx[q].i # t.i
  /\ w \in Opener /\ t.pc = "commit" /\ ~inc[t.i].ex =>
       /\ \A i \in 1 .. MaxInc : ~(inc[i].ex /\ inc[i].fp)
       /\ \A q \in Opener \ {w} : ~Adds(q)

\* A step that writes one row, of which no transaction that goes on has the lock, and at most
\* ends a transaction
RowMoves(i, r) ==
  /\ r \in IncRow /\ inc' = [inc EXCEPT ![i] = r] /\ said' = [said EXCEPT ![i] = r.notes]
  /\ incSeq' \in 0 .. MaxInc /\ incSeq <= incSeq'
  /\ tx' \in [Clerk \cup Opener -> TxRow] /\ \A v \in Clerk \cup Opener : tx'[v] \in {tx[v], NoTx}
  /\ \A v \in Clerk \cup Opener : tx'[v].holds => tx[v].i # i
  /\ \A o \in Opener : tx'[o].pc # "idle" => tx[o].i # i
  /\ (r.ex => i <= incSeq') /\ (~r.ex => r = NoInc)
  /\ alarmed' \subseteq alarmed \cup {i} /\ (i \in alarmed' => r.ex /\ r.state = "active")
  /\ resol' \subseteq resol /\ (i \in resol' => r.ex)
  /\ r.ex /\ r.fp => \/ inc[i].ex /\ inc[i].fp
                     \/ /\ \A j \in 1 .. MaxInc : ~(inc[j].ex /\ inc[j].fp)
                        /\ \A q \in Opener : tx'[q].pc = "commit" => ~Adds(q)

\* A step of a transaction preserves the invariant.
LEMMA DeskTxStep ==
  ASSUME DeskIInv, NEW w \in Clerk \cup Opener, NEW t, TxMoves(w, t)
  PROVE  DeskIInv'
<1> USE DEF TxMoves
<1>1. /\ DeskTypes /\ TxInv /\ Apart /\ Unique /\ Rows
  BY DEF DeskIInv
<1>2. tx'[w] = t /\ \A v \in (Clerk \cup Opener) \ {w} : tx'[v] = tx[v]
  BY <1>1 DEF DeskTypes
<1>3. DeskTypes'  BY <1>1 DEF DeskTypes
<1>4. TxInv'
  <2>1. \A v \in Clerk \cup Opener : tx'[v].pc # "idle" => tx'[v].i \in 1 .. incSeq'
    BY <1>1, <1>2 DEF TxInv, DeskTypes
  <2>2. \A c \in Clerk : ClerkOK(tx'[c], inc[tx'[c].i])  BY <1>1, <1>2 DEF TxInv
  <2>3. \A o \in Opener : OpenerOK(tx'[o], inc[tx'[o].i])  BY <1>1, <1>2 DEF TxInv
  <2> QED BY <2>1, <2>2, <2>3 DEF TxInv
<1>5. Apart'  BY <1>1, <1>2 DEF Apart
<1>6. Unique'
  <2>1. \A o \in Opener \ {w} : Adds(o)' <=> Adds(o)  BY <1>2 DEF Adds
  <2>2. w \in Opener => (Adds(w)' <=> t.pc = "commit" /\ ~inc[t.i].ex)  BY <1>2 DEF Adds
  <2>3. \A o \in Opener : Adds(o)' => /\ \A i \in 1 .. MaxInc : ~(inc[i].ex /\ inc[i].fp)
                                      /\ \A q \in Opener : Adds(q)' => q = o
    BY <1>1, <2>1, <2>2 DEF Unique
  <2> QED BY <1>1, <2>3 DEF Unique
<1>7. Rows'  BY <1>1 DEF Rows, DeskTypes
<1> QED BY <1>3, <1>4, <1>5, <1>6, <1>7 DEF DeskIInv

\* A step that writes a row preserves the invariant.
LEMMA DeskRowStep ==
  ASSUME DeskIInv, NEW i \in 1 .. MaxInc, NEW r, RowMoves(i, r)
  PROVE  DeskIInv'
<1> USE DEF RowMoves
<1>1. DeskTypes /\ TxInv /\ Apart /\ Unique /\ Rows
  BY DEF DeskIInv
<1>2. inc'[i] = r /\ \A j \in 1 .. MaxInc : j # i => inc'[j] = inc[j]
  BY <1>1 DEF DeskTypes
<1>3. said'[i] = r.notes /\ \A j \in 1 .. MaxInc : j # i => said'[j] = said[j]
  BY <1>1 DEF DeskTypes
<1>4. DeskTypes'
  <2>1. r.notes \in Seq(Note)  BY DEF IncRow
  <2> QED BY <1>1, <2>1 DEF DeskTypes
<1>5. \A v \in Clerk \cup Opener : tx'[v].pc # "idle" => tx'[v] = tx[v]
  BY DeskEmpty
<1>6. \A v \in Clerk \cup Opener : tx'[v].pc # "idle" => tx[v].i \in 1 .. incSeq /\ incSeq \in 0 .. MaxInc
  BY <1>1, <1>5 DEF TxInv, DeskTypes
<1>7. TxInv'
  <2>1. \A v \in Clerk \cup Opener : tx'[v].pc # "idle" => tx'[v].i \in 1 .. incSeq'
    BY <1>1, <1>5, <1>6 DEF DeskTypes
  <2>2. ASSUME NEW c \in Clerk PROVE ClerkOK(tx'[c], inc'[tx'[c].i])
    <3>1. CASE tx'[c] = NoTx  BY <3>1, DeskEmpty DEF ClerkOK
    <3>2. CASE tx'[c] = tx[c] /\ tx[c].pc # "idle" /\ tx[c].i # i
      <4>1. inc'[tx[c].i] = inc[tx[c].i]  BY <3>2, <1>2, <1>6
      <4> QED BY <3>2, <4>1, <1>1 DEF TxInv
    <3>3. CASE tx'[c] = tx[c] /\ (tx[c].pc = "idle" \/ tx[c].i = i)
      <4>1. ~tx[c].holds  BY <1>1, <3>3 DEF TxInv, ClerkOK
      <4>2. tx[c].pc \in {"idle", "resolution"}  BY <4>1, <1>1 DEF TxInv, ClerkOK
      <4> QED BY <3>3, <4>1, <4>2 DEF ClerkOK
    <3> QED BY <3>1, <3>2, <3>3
  <2>3. ASSUME NEW o \in Opener PROVE OpenerOK(tx'[o], inc'[tx'[o].i])
    <3>1. CASE tx'[o] = NoTx  BY <3>1, DeskEmpty DEF OpenerOK
    <3>2. CASE tx'[o] = tx[o] /\ tx[o].pc # "idle"
      <4>1. inc'[tx[o].i] = inc[tx[o].i]  BY <3>2, <1>2, <1>6
      <4> QED BY <3>2, <4>1, <1>1 DEF TxInv
    <3>3. CASE tx'[o] = tx[o] /\ tx[o].pc = "idle"
      <4>1. ~tx[o].holds  BY <1>1, <3>3 DEF TxInv, OpenerOK
      <4> QED BY <3>3, <4>1 DEF OpenerOK
    <3> QED BY <3>1, <3>2, <3>3
  <2> QED BY <2>1, <2>2, <2>3 DEF TxInv
<1>8. Apart'
  <2>1. \A v \in Clerk \cup Opener : tx'[v].holds => tx'[v] = tx[v]  BY DeskEmpty
  <2> QED BY <1>1, <1>5, <2>1 DEF Apart
<1>9. Unique'
  <2>1. \A o \in Opener : Adds(o)' => Adds(o) /\ tx'[o].pc = "commit"
    <3> SUFFICES ASSUME NEW o \in Opener, Adds(o)' PROVE Adds(o)
      BY DEF Adds
    <3>1. tx'[o].pc = "commit" /\ ~inc'[tx'[o].i].ex  BY DEF Adds
    <3>2. tx'[o] = tx[o] /\ tx[o].i \in 1 .. MaxInc
      <4>1. tx'[o].pc # "idle"  BY <3>1
      <4> QED BY <4>1, <1>5, <1>6, DeskAssumption
    <3>3. inc'[tx[o].i] = inc[tx[o].i]  BY <3>1, <3>2, <1>2
    <3> QED BY <3>1, <3>2, <3>3 DEF Adds
  <2>2. \A o \in Opener : Adds(o)' => /\ \A j \in 1 .. MaxInc : ~(inc'[j].ex /\ inc'[j].fp)
                                      /\ \A q \in Opener : Adds(q)' => q = o
    BY <1>1, <1>2, <2>1 DEF Unique
  <2>3. \A j, k \in 1 .. MaxInc : inc'[j].ex /\ inc'[j].fp /\ inc'[k].ex /\ inc'[k].fp => j = k
    BY <1>1, <1>2 DEF Unique
  <2> QED BY <2>2, <2>3 DEF Unique
<1>10. Rows'  BY <1>1, <1>2, <1>3 DEF Rows, DeskTypes
<1> QED BY <1>4, <1>7, <1>8, <1>9, <1>10 DEF DeskIInv

\* What a step finds of a transaction.
LEMMA DeskFacts ==
  ASSUME DeskIInv
  PROVE  /\ DeskTypes /\ TxInv /\ Apart /\ Unique /\ Rows
         /\ \A w \in Clerk \cup Opener : tx[w] \in TxRow /\ tx[w].new \in IncRow
         /\ \A w \in Clerk \cup Opener : tx[w].pc # "idle" => tx[w].i \in 1 .. MaxInc /\ tx[w].i <= incSeq
         /\ \A i \in 1 .. MaxInc : inc[i] \in IncRow /\ inc[i].notes \in Seq(Note)
<1>1. DeskTypes /\ TxInv /\ Apart /\ Unique /\ Rows  BY DEF DeskIInv
<1>2. \A w \in Clerk \cup Opener : tx[w] \in TxRow /\ tx[w].new \in IncRow
  BY <1>1 DEF DeskTypes, TxRow
<1>3. \A w \in Clerk \cup Opener : tx[w].pc # "idle" => tx[w].i \in 1 .. MaxInc /\ tx[w].i <= incSeq
  BY <1>1, DeskAssumption DEF DeskTypes, TxInv
<1>4. \A i \in 1 .. MaxInc : inc[i] \in IncRow /\ inc[i].notes \in Seq(Note)
  BY <1>1 DEF DeskTypes, IncRow
<1> QED BY <1>1, <1>2, <1>3, <1>4

\* Requests of operators preserve the invariant.
LEMMA DeskClerkSteps ==
  ASSUME DeskIInv, NEW c \in Clerk, NEW i \in 1 .. MaxInc, NEW s \in IncState \cup {"keep"}
  PROVE  /\ AppendNote(c, i, s) => DeskIInv'
         /\ UpdateOnly(c, i, s) => DeskIInv'
         /\ FindIncident(c, i) => DeskIInv'
         /\ UpdateFields(c) => DeskIInv'
         /\ InsertResolution(c) => DeskIInv'
         /\ CommitFields(c) => DeskIInv'
<1>0. DeskTypes /\ TxInv /\ Apart /\ Unique /\ Rows  BY DeskFacts
<1>a. c \in Clerk \cup Opener /\ c \notin Opener  BY DeskAssumption
<1>b. inc[i] \in IncRow /\ tx[c] \in TxRow /\ tx[c].new \in IncRow  BY <1>a, DeskFacts
<1>c. incSeq \in 0 .. MaxInc /\ resol \subseteq 1 .. MaxInc /\ \A j \in resol : inc[j].ex
  BY <1>0 DEF DeskTypes, Rows
<1>d. inc[i].ex => i \in 1 .. incSeq  BY <1>0 DEF Rows
<1>e. ASSUME AppendNote(c, i, s) PROVE DeskIInv'
  <2> DEFINE t == [NoTx EXCEPT !.pc = "fields", !.i = i, !.note = TRUE, !.state = s,
                               !.holds = TRUE, !.new = withNote(inc[i], "manual")]
  <2>1. unlocked(i) /\ inc[i].ex /\ tx' = [tx EXCEPT ![c] = t] /\ UNCHANGED <<inc, incSeq, resol, said, alarmed>>
    BY <1>e DEF AppendNote
  <2>2. withNote(inc[i], "manual") \in IncRow /\ withNote(inc[i], "manual").notes = Append(inc[i].notes, "manual")
        /\ withNote(inc[i], "manual").ex = inc[i].ex /\ withNote(inc[i], "manual").fp = inc[i].fp
        /\ withNote(inc[i], "manual").state = inc[i].state
    BY <1>b, DeskEdits DEF Note, IncState
  <2>3. t \in TxRow  BY <2>2, DeskTx
  <2>4. t.pc = "fields" /\ t.i = i /\ t.note = TRUE /\ t.holds = TRUE /\ t.new = withNote(inc[i], "manual")
    BY DEF NoTx
  <2>5. ClerkOK(t, inc[t.i])  BY <2>1, <2>2, <2>4 DEF ClerkOK
  <2>6. \A v \in (Clerk \cup Opener) \ {c} : tx[v].holds => tx[v].i # i
    BY <2>1, <1>0 DEF unlocked, DeskTypes
  <2> HIDE DEF t
  <2>9. TxMoves(c, t)  BY <1>a, <1>c, <1>d, <2>1, <2>3, <2>4, <2>5, <2>6 DEF TxMoves
  <2> QED BY <1>a, <2>9, DeskTxStep
<1>f. ASSUME UpdateOnly(c, i, s) PROVE DeskIInv'
  <2> DEFINE t == [NoTx EXCEPT !.pc = "commit", !.i = i, !.state = s,
                               !.holds = TRUE, !.new = [inc[i] EXCEPT !.state = s]]
  <2>1. unlocked(i) /\ inc[i].ex /\ s # "keep" /\ tx' = [tx EXCEPT ![c] = t]
        /\ UNCHANGED <<inc, incSeq, resol, said, alarmed>>
    BY <1>f DEF UpdateOnly
  <2>2. [inc[i] EXCEPT !.state = s] \in IncRow /\ [inc[i] EXCEPT !.state = s].notes = inc[i].notes
        /\ [inc[i] EXCEPT !.state = s].ex = inc[i].ex /\ [inc[i] EXCEPT !.state = s].fp = inc[i].fp
        /\ [inc[i] EXCEPT !.state = s].state = s
    <3>1. "manual" \in Note /\ s \in IncState  BY <2>1 DEF Note
    <3> QED BY <1>b, <3>1, DeskEdits
  <2>3. t \in TxRow  BY <2>2, DeskTx
  <2>4. t.pc = "commit" /\ t.i = i /\ t.note = FALSE /\ t.holds = TRUE /\ t.new = [inc[i] EXCEPT !.state = s]
        /\ t.state = s
    BY DEF NoTx
  <2>5. ClerkOK(t, inc[t.i])  BY <2>1, <2>2, <2>4 DEF ClerkOK
  <2>6. \A v \in (Clerk \cup Opener) \ {c} : tx[v].holds => tx[v].i # i
    BY <2>1, <1>0 DEF unlocked, DeskTypes
  <2> HIDE DEF t
  <2>9. TxMoves(c, t)  BY <1>a, <1>c, <1>d, <2>1, <2>3, <2>4, <2>5, <2>6 DEF TxMoves
  <2> QED BY <1>a, <2>9, DeskTxStep
<1>g. ASSUME FindIncident(c, i) PROVE DeskIInv'
  <2> DEFINE t == [NoTx EXCEPT !.pc = "resolution", !.i = i]
  <2>1. inc[i].ex /\ tx' = [tx EXCEPT ![c] = t] /\ UNCHANGED <<inc, incSeq, resol, said, alarmed>>
    BY <1>g DEF FindIncident
  <2>2. t \in TxRow  BY DeskEmpty, DeskTx
  <2>3. t.pc = "resolution" /\ t.i = i /\ ~t.holds  BY DEF NoTx
  <2>4. ClerkOK(t, inc[t.i])  BY <2>3 DEF ClerkOK
  <2> HIDE DEF t
  <2>9. TxMoves(c, t)  BY <1>a, <1>c, <1>d, <2>1, <2>2, <2>3, <2>4 DEF TxMoves
  <2> QED BY <1>a, <2>9, DeskTxStep
<1>h. ASSUME UpdateFields(c) PROVE DeskIInv'
  <2> DEFINE n == [tx[c].new EXCEPT !.state = IF tx[c].state = "keep" THEN tx[c].new.state ELSE tx[c].state]
             t == [tx[c] EXCEPT !.pc = "commit", !.new = n]
  <2>1. tx[c].pc = "fields" /\ UNCHANGED <<inc, incSeq, resol, said, alarmed>>  BY <1>h DEF UpdateFields
  <2>2. tx' = [tx EXCEPT ![c] = t]  BY <1>h, <1>a, <1>b DEF UpdateFields, TxRow
  <2>3. n \in IncRow /\ n.notes = tx[c].new.notes /\ n.ex = tx[c].new.ex /\ n.fp = tx[c].new.fp
        /\ n.state = IF tx[c].state = "keep" THEN tx[c].new.state ELSE tx[c].state
    BY <1>b DEF TxRow, IncRow
  <2>4. ClerkOK(tx[c], inc[tx[c].i])  BY <1>0 DEF TxInv
  <2> HIDE DEF n
  <2>5. t \in TxRow /\ t.pc = "commit" /\ t.i = tx[c].i /\ t.note = tx[c].note /\ t.state = tx[c].state
        /\ t.holds = tx[c].holds /\ t.new = n
    BY <1>b, <2>3 DEF TxRow
  <2>6. ClerkOK(t, inc[t.i])  BY <2>1, <2>3, <2>4, <2>5 DEF ClerkOK
  <2>7. tx[c].i \in 1 .. incSeq  BY <2>1, <1>0, <1>a DEF TxInv
  <2>8. tx[c].holds => \A v \in (Clerk \cup Opener) \ {c} : tx[v].holds => tx[v].i # tx[c].i
    BY <1>0, <1>a DEF Apart
  <2> HIDE DEF t
  <2>9. TxMoves(c, t)  BY <1>a, <1>c, <2>1, <2>2, <2>5, <2>6, <2>7, <2>8 DEF TxMoves
  <2> QED BY <1>a, <2>9, DeskTxStep
<1>i. ASSUME InsertResolution(c) PROVE DeskIInv'
  <2>1. tx[c].pc = "resolution" /\ tx' = [tx EXCEPT ![c] = NoTx] /\ UNCHANGED <<inc, incSeq, said, alarmed>>
        /\ resol' = IF inc[tx[c].i].ex THEN resol \cup {tx[c].i} ELSE resol
    BY <1>i DEF InsertResolution
  <2>2. tx[c].i \in 1 .. MaxInc  BY <2>1, <1>a, DeskFacts
  <2>3. resol' \subseteq 1 .. MaxInc /\ \A j \in resol' : inc[j].ex  BY <2>1, <2>2, <1>c
  <2>4. ClerkOK(NoTx, inc[NoTx.i])  BY DeskEmpty DEF ClerkOK
  <2>5. TxMoves(c, NoTx)  BY <1>a, <1>c, <2>1, <2>3, <2>4, DeskEmpty DEF TxMoves
  <2> QED BY <1>a, <2>5, DeskTxStep
<1>j. ASSUME CommitFields(c) PROVE DeskIInv'
  <2> DEFINE k == tx[c].i  r == tx[c].new
  <2>1. tx[c].pc = "commit" /\ inc' = [inc EXCEPT ![k] = r] /\ tx' = [tx EXCEPT ![c] = NoTx]
        /\ said' = (IF tx[c].note THEN [said EXCEPT ![k] = Append(said[k], "manual")] ELSE said)
        /\ alarmed' = (IF tx[c].state = "keep" THEN alarmed ELSE alarmed \ {k})
        /\ UNCHANGED <<incSeq, resol>>
    BY <1>j DEF CommitFields
  <2>2. k \in 1 .. MaxInc /\ k <= incSeq  BY <2>1, <1>a, DeskFacts
  <2>3. tx[c].holds /\ inc[k].ex /\ r.ex /\ (r.fp => inc[k].fp)
        /\ r.notes = (IF tx[c].note THEN Append(inc[k].notes, "manual") ELSE inc[k].notes)
        /\ r.state = (IF tx[c].state = "keep" THEN inc[k].state ELSE tx[c].state)
    BY <2>1, <1>0 DEF TxInv, ClerkOK
  <2>4. inc[k].notes = said[k] /\ (k \in alarmed => inc[k].state = "active")  BY <1>0, <2>2 DEF Rows
  <2>5. said' = [said EXCEPT ![k] = r.notes]
    <3>1. CASE tx[c].note  BY <3>1, <2>1, <2>3, <2>4
    <3>2. CASE ~tx[c].note
      <4>1. said \in [1 .. MaxInc -> Seq(Note)] /\ r.notes = said[k] /\ said' = said
        BY <1>0, <2>1, <2>3, <2>4, <3>2 DEF DeskTypes
      <4> QED BY <4>1, <2>2
    <3> QED BY <3>1, <3>2
  <2>6. /\ tx' \in [Clerk \cup Opener -> TxRow] /\ tx'[c] = NoTx
        /\ \A v \in (Clerk \cup Opener) \ {c} : tx'[v] = tx[v]
    BY <2>1, <1>0, <1>a, DeskEmpty DEF DeskTypes
  <2>7. \A v \in Clerk \cup Opener : tx'[v].holds => tx[v].i # k
    BY <2>3, <2>6, <1>0, <1>a, DeskEmpty DEF Apart
  <2>8. \A o \in Opener : tx'[o].pc # "idle" => tx[o].i # k
    <3> SUFFICES ASSUME NEW o \in Opener, tx[o].pc # "idle", tx[o].i = k PROVE FALSE
      BY <2>6, <1>a
    <3>1. OpenerOK(tx[o], inc[k])  BY <1>0 DEF TxInv
    <3>2. tx[o].holds  BY <3>1, <2>3 DEF OpenerOK
    <3> QED BY <3>2, <2>3, <1>0, <1>a DEF Apart
  <2>9. alarmed' \subseteq alarmed \cup {k} /\ (k \in alarmed' => r.state = "active")
    BY <2>1, <2>3, <2>4
  <2>10. \A v \in Clerk \cup Opener : tx'[v] \in {tx[v], NoTx}  BY <2>6
  <2>11. r \in IncRow  BY <1>b
  <2> HIDE DEF k, r
  <2>12. RowMoves(k, r)
    <3>1. inc' = [inc EXCEPT ![k] = r] /\ incSeq' = incSeq /\ resol' = resol  BY <2>1
    <3>2. r.ex /\ (r.fp => inc[k].fp) /\ inc[k].ex  BY <2>3
    <3>3. tx' \in [Clerk \cup Opener -> TxRow]  BY <2>6
    <3> QED BY <3>1, <3>2, <3>3, <1>c, <2>2, <2>5, <2>7, <2>8, <2>9, <2>10, <2>11 DEF RowMoves
  <2> QED BY <2>2, <2>12, DeskRowStep
<1> QED BY <1>e, <1>f, <1>g, <1>h, <1>i, <1>j

\* Transactions of the alert engine preserve the invariant.
LEMMA DeskOpenerSteps ==
  ASSUME DeskIInv, NEW o \in Opener
  PROVE  /\ SelectFingerprint(o) => DeskIInv'
         /\ InsertIncident(o) => DeskIInv'
         /\ RepeatAlert(o) => DeskIInv'
         /\ CommitAlert(o) => DeskIInv'
<1>0. DeskTypes /\ TxInv /\ Apart /\ Unique /\ Rows  BY DeskFacts
<1>a. o \in Clerk \cup Opener /\ o \notin Clerk  BY DeskAssumption
<1>b. tx[o] \in TxRow /\ tx[o].new \in IncRow  BY <1>a, DeskFacts
<1>c. incSeq \in 0 .. MaxInc /\ resol \subseteq 1 .. MaxInc /\ \A j \in resol : inc[j].ex
  BY <1>0 DEF DeskTypes, Rows
<1>d. OpenerOK(tx[o], inc[tx[o].i])  BY <1>0 DEF TxInv
<1>k. "open" \in Note /\ "repeat" \in Note /\ "active" \in IncState  BY DEF Note, IncState
<1>e. ASSUME SelectFingerprint(o) PROVE DeskIInv'
  <2>0. UNCHANGED <<inc, resol, said, alarmed>>  BY <1>e DEF SelectFingerprint
  <2>1. ASSUME NEW i \in Keyed, unlocked(i), incSeq' = incSeq,
               tx' = [tx EXCEPT ![o] = [NoTx EXCEPT !.pc = "repeat", !.i = i, !.holds = TRUE]]
        PROVE  DeskIInv'
    <3> DEFINE t == [NoTx EXCEPT !.pc = "repeat", !.i = i, !.holds = TRUE]
    <3>1. i \in 1 .. MaxInc /\ inc[i].ex /\ inc[i].fp  BY DEF Keyed
    <3>2. t \in TxRow  BY <3>1, DeskEmpty, DeskTx
    <3>3. t.pc = "repeat" /\ t.i = i /\ t.holds = TRUE  BY DEF NoTx
    <3>4. OpenerOK(t, inc[t.i])  BY <3>1, <3>3 DEF OpenerOK
    <3>5. \A v \in (Clerk \cup Opener) \ {o} : tx[v].holds => tx[v].i # i
      BY <2>1, <1>0 DEF unlocked, DeskTypes
    <3>6. \A q \in Opener \ {o} : tx[q].pc # "idle" => tx[q].i # i
      BY <3>1, <3>5, <1>0 DEF TxInv, OpenerOK
    <3>7. i \in 1 .. incSeq  BY <3>1, <1>0 DEF Rows
    <3>8. tx' = [tx EXCEPT ![o] = t]  BY <2>1
    <3> HIDE DEF t
    <3>9. TxMoves(o, t)
      <4>1. incSeq' = incSeq /\ inc' = inc /\ said' = said /\ alarmed' = alarmed /\ resol' = resol
        BY <2>0, <2>1
      <4> QED BY <1>a, <1>c, <3>2, <3>3, <3>4, <3>5, <3>6, <3>7, <3>8, <4>1 DEF TxMoves
    <3> QED BY <1>a, <3>9, DeskTxStep
  <2>2. ASSUME incSeq < MaxInc, incSeq' = incSeq + 1,
               tx' = [tx EXCEPT ![o] = [NoTx EXCEPT !.pc = "open", !.i = incSeq']]
        PROVE  DeskIInv'
    <3> DEFINE t == [NoTx EXCEPT !.pc = "open", !.i = incSeq']
    <3>0. incSeq' \in 1 .. MaxInc /\ ~(incSeq' <= incSeq)  BY <2>2, <1>c, DeskAssumption
    <3>1. incSeq' \in 1 .. MaxInc /\ ~inc[incSeq'].ex  BY <3>0, <1>0 DEF Rows
    <3>2. t \in TxRow  BY <3>1, DeskEmpty, DeskTx
    <3>3. t.pc = "open" /\ t.i = incSeq' /\ t.holds = FALSE  BY DEF NoTx
    <3>4. OpenerOK(t, inc[t.i])  BY <3>1, <3>3 DEF OpenerOK
    <3>5. \A q \in Opener \ {o} : tx[q].pc # "idle" => tx[q].i # incSeq'
      BY <2>2, <1>0, <1>c DEF TxInv
    <3>8. tx' = [tx EXCEPT ![o] = t]  BY <2>2
    <3> HIDE DEF t
    <3>9. TxMoves(o, t)
      <4>1. inc' = inc /\ said' = said /\ alarmed' = alarmed /\ resol' = resol  BY <2>0
      <4>2. incSeq' \in 0 .. MaxInc /\ incSeq <= incSeq' /\ incSeq' \in 1 .. incSeq'  BY <2>2, <1>c, DeskAssumption
      <4> QED BY <1>a, <1>c, <3>2, <3>3, <3>4, <3>5, <3>8, <4>1, <4>2 DEF TxMoves
    <3> QED BY <1>a, <3>9, DeskTxStep
  <2> QED BY <1>e, <2>1, <2>2 DEF SelectFingerprint
<1>f. ASSUME InsertIncident(o) PROVE DeskIInv'
  <2> DEFINE n == [ex |-> TRUE, fp |-> TRUE, state |-> "active", notes |-> <<"open">>]
             t == [tx[o] EXCEPT !.pc = "commit", !.holds = TRUE, !.new = n]
  <2>1. tx[o].pc = "open" /\ Keyed = {} /\ (\A q \in Opener \ {o} : ~(tx[q].holds /\ tx[q].new.fp))
        /\ UNCHANGED <<inc, incSeq, resol, said, alarmed>>
    BY <1>f DEF InsertIncident
  <2>2. tx' = [tx EXCEPT ![o] = t]  BY <1>f, <1>a, <1>b DEF InsertIncident, TxRow
  <2>3. n \in IncRow /\ n.ex /\ n.fp /\ n.state = "active" /\ n.notes = <<"open">>
    BY <1>k DEF IncRow
  <2> HIDE DEF n
  <2>4. t \in TxRow /\ t.pc = "commit" /\ t.i = tx[o].i /\ t.holds = TRUE /\ t.new = n
    BY <1>b, <2>3 DEF TxRow
  <2>5. tx[o].i \in 1 .. incSeq /\ ~inc[tx[o].i].ex  BY <2>1, <1>0, <1>a, <1>d DEF TxInv, OpenerOK
  <2>6. OpenerOK(t, inc[t.i])  BY <2>3, <2>4, <2>5 DEF OpenerOK
  <2>7. \A v \in (Clerk \cup Opener) \ {o} : tx[v].holds => tx[v].i # tx[o].i
    <3> SUFFICES ASSUME NEW v \in (Clerk \cup Opener) \ {o}, tx[v].holds, tx[v].i = tx[o].i PROVE FALSE
      OBVIOUS
    <3>1. CASE v \in Clerk
      <4>1. ClerkOK(tx[v], inc[tx[o].i])  BY <3>1, <1>0 DEF TxInv
      <4> QED BY <4>1, <2>5 DEF ClerkOK
    <3>2. CASE v \in Opener
      <4>1. tx[v].pc # "idle"  BY <3>2, <1>0 DEF TxInv, OpenerOK
      <4> QED BY <4>1, <2>1, <1>0, <3>2 DEF Apart
    <3> QED BY <3>1, <3>2
  <2>8. \A q \in Opener \ {o} : tx[q].pc # "idle" => tx[q].i # tx[o].i
    BY <2>1, <1>0 DEF Apart
  <2>9. \A i \in 1 .. MaxInc : ~(inc[i].ex /\ inc[i].fp)  BY <2>1 DEF Keyed
  <2>10. \A q \in Opener \ {o} : ~Adds(q)
    BY <2>1, <1>0 DEF Adds, TxInv, OpenerOK
  <2> HIDE DEF t
  <2>11. TxMoves(o, t)
    BY <1>a, <1>c, <2>1, <2>2, <2>4, <2>5, <2>6, <2>7, <2>8, <2>9, <2>10 DEF TxMoves
  <2> QED BY <1>a, <2>11, DeskTxStep
<1>g. ASSUME RepeatAlert(o) PROVE DeskIInv'
  <2> DEFINE k == tx[o].i
             n == [withNote(inc[k], "repeat") EXCEPT !.state = "active"]
             t == [tx[o] EXCEPT !.pc = "commit", !.new = n]
  <2>1. tx[o].pc = "repeat" /\ UNCHANGED <<inc, incSeq, resol, said, alarmed>>
    BY <1>g DEF RepeatAlert
  <2>2. tx' = [tx EXCEPT ![o] = t]  BY <1>g, <1>a, <1>b DEF RepeatAlert, TxRow
  <2>3. tx[o].holds /\ inc[k].ex /\ inc[k].fp  BY <2>1, <1>d DEF OpenerOK
  <2>4. k \in 1 .. incSeq /\ inc[k] \in IncRow  BY <2>1, <1>0, <1>a, DeskFacts DEF TxInv
  <2>5. n \in IncRow /\ n.ex = inc[k].ex /\ n.fp = inc[k].fp /\ n.state = "active"
        /\ n.notes = Append(inc[k].notes, "repeat")
    <3> DEFINE m == withNote(inc[k], "repeat")
    <3>1. m \in IncRow /\ m.ex = inc[k].ex /\ m.fp = inc[k].fp /\ m.notes = Append(inc[k].notes, "repeat")
      BY <1>k, <2>4, DeskEdits
    <3> HIDE DEF m
    <3>2. [m EXCEPT !.state = "active"] \in IncRow /\ [m EXCEPT !.state = "active"].notes = m.notes
          /\ [m EXCEPT !.state = "active"].ex = m.ex /\ [m EXCEPT !.state = "active"].fp = m.fp
          /\ [m EXCEPT !.state = "active"].state = "active"
      BY <1>k, <3>1, DeskEdits
    <3>3. n = [m EXCEPT !.state = "active"]  BY DEF m
    <3> HIDE DEF n
    <3> QED BY <3>1, <3>2, <3>3
  <2> HIDE DEF n
  <2>6. t \in TxRow /\ t.pc = "commit" /\ t.i = k /\ t.holds = tx[o].holds /\ t.new = n
    BY <1>b, <2>5 DEF TxRow
  <2>7. OpenerOK(t, inc[t.i])  BY <2>3, <2>5, <2>6 DEF OpenerOK
  <2>8. \A v \in (Clerk \cup Opener) \ {o} : tx[v].holds => tx[v].i # k
    BY <1>0, <1>a, <2>3 DEF Apart
  <2>9. \A q \in Opener \ {o} : tx[q].pc # "idle" => tx[q].i # k
    BY <2>1, <1>0 DEF Apart
  <2> HIDE DEF t, k
  <2>10. TxMoves(o, t)
    BY <1>a, <1>c, <2>1, <2>2, <2>3, <2>4, <2>6, <2>7, <2>8, <2>9 DEF TxMoves
  <2> QED BY <1>a, <2>10, DeskTxStep
<1>h. ASSUME CommitAlert(o) PROVE DeskIInv'
  <2> DEFINE k == tx[o].i  r == tx[o].new
  <2>1. tx[o].pc = "commit" /\ inc' = [inc EXCEPT ![k] = r] /\ tx' = [tx EXCEPT ![o] = NoTx]
        /\ said' = [said EXCEPT ![k] = Append(said[k], r.notes[Len(r.notes)])]
        /\ alarmed' = alarmed \cup {k} /\ UNCHANGED <<incSeq, resol>>
    BY <1>h DEF CommitAlert
  <2>2. k \in 1 .. MaxInc /\ k <= incSeq  BY <2>1, <1>a, DeskFacts
  <2>3. tx[o].holds /\ r.ex /\ r.fp /\ r.state = "active"
    BY <2>1, <1>d DEF OpenerOK
  <2>4. \/ ~inc[k].ex /\ r.notes = <<"open">>
        \/ inc[k].ex /\ inc[k].fp /\ r.notes = Append(inc[k].notes, "repeat")
    BY <2>1, <1>d DEF OpenerOK
  <2>5. inc[k].notes = said[k] /\ said[k] \in Seq(Note) /\ (~inc[k].ex => said[k] = <<>>)
    BY <1>0, <2>2, DeskEmpty DEF Rows, DeskTypes
  <2>6. r.notes = Append(said[k], r.notes[Len(r.notes)])
    <3>1. CASE r.notes = <<"open">> /\ ~inc[k].ex  BY <3>1, <2>5
    <3>2. CASE r.notes = Append(inc[k].notes, "repeat")  BY <3>2, <2>5, <1>k
    <3> QED BY <3>1, <3>2, <2>4
  <2>7. said' = [said EXCEPT ![k] = r.notes]  BY <2>1, <2>6
  <2>8. /\ tx' \in [Clerk \cup Opener -> TxRow] /\ tx'[o] = NoTx
        /\ \A v \in (Clerk \cup Opener) \ {o} : tx'[v] = tx[v]
    BY <2>1, <1>0, <1>a, DeskEmpty DEF DeskTypes
  <2>9. \A v \in Clerk \cup Opener : tx'[v].holds => tx[v].i # k
    BY <2>3, <2>8, <1>0, <1>a, DeskEmpty DEF Apart
  <2>10. \A q \in Opener : tx'[q].pc # "idle" => tx[q].i # k
    BY <2>1, <2>8, <1>0, DeskEmpty DEF Apart
  <2>11. \A v \in Clerk \cup Opener : tx'[v] \in {tx[v], NoTx}  BY <2>8
  <2>12. r \in IncRow  BY <1>b
  <2>13. \/ inc[k].ex /\ inc[k].fp
         \/ /\ \A j \in 1 .. MaxInc : ~(inc[j].ex /\ inc[j].fp)
            /\ \A q \in Opener : tx'[q].pc = "commit" => ~Adds(q)
    <3>1. CASE inc[k].ex  BY <3>1, <2>4
    <3>2. CASE ~inc[k].ex
      <4>1. Adds(o)  BY <3>2, <2>1 DEF Adds
      <4>2. tx'[o].pc # "commit"  BY <2>8, DeskEmpty
      <4> QED BY <4>1, <4>2, <1>0 DEF Unique
    <3> QED BY <3>1, <3>2
  <2>14. inc' = [inc EXCEPT ![k] = r] /\ incSeq' = incSeq /\ resol' = resol /\ alarmed' = alarmed \cup {k}
    BY <2>1
  <2>15. tx' \in [Clerk \cup Opener -> TxRow]  BY <2>8
  <2> HIDE DEF k, r
  <2>16. RowMoves(k, r)
    BY <1>c, <2>2, <2>3, <2>7, <2>9, <2>10, <2>11, <2>12, <2>13, <2>14, <2>15 DEF RowMoves
  <2> QED BY <2>2, <2>16, DeskRowStep
<1> QED BY <1>e, <1>f, <1>g, <1>h

\* Steps outside a transaction, and the end of one, preserve the invariant.
LEMMA DeskOtherSteps ==
  ASSUME DeskIInv
  PROVE  /\ \A s \in IncState, ns \in {<<>>, <<"manual">>} : CreateIncident(s, ns) => DeskIInv'
         /\ \A w \in Clerk \cup Opener : Rollback(w) => DeskIInv'
         /\ \A i \in 1 .. MaxInc : DeleteIncident(i) \/ JournalCommand(i) \/ AutoResolveIncident(i) => DeskIInv'
<1>0. DeskTypes /\ TxInv /\ Apart /\ Unique /\ Rows  BY DeskFacts
<1>c. incSeq \in 0 .. MaxInc /\ resol \subseteq 1 .. MaxInc /\ \A j \in resol : inc[j].ex
  BY <1>0 DEF DeskTypes, Rows
<1>d. DOMAIN tx = Clerk \cup Opener /\ tx \in [Clerk \cup Opener -> TxRow]  BY <1>0 DEF DeskTypes
<1>e. ASSUME NEW s \in IncState, NEW ns \in {<<>>, <<"manual">>}, CreateIncident(s, ns)
      PROVE  DeskIInv'
  <2> DEFINE k == incSeq + 1  n == [NoInc EXCEPT !.ex = TRUE, !.state = s, !.notes = ns]
  <2>1. incSeq < MaxInc /\ incSeq' = incSeq + 1 /\ UNCHANGED <<resol, tx, alarmed>>
    BY <1>e DEF CreateIncident
  <2>2. k \in 1 .. MaxInc /\ incSeq' \in 0 .. MaxInc /\ incSeq' = k  BY <2>1, <1>c, DeskAssumption
  <2>3. inc[k] = NoInc /\ k \notin resol
    <3>1. ~(k <= incSeq)  BY <1>c
    <3> QED BY <1>0, <2>2, <3>1, DeskEmpty DEF Rows
  <2>4. \A v \in Clerk \cup Opener : tx[v].pc # "idle" => tx[v].i # k
    BY <1>0, <1>c DEF TxInv
  <2>5. \A v \in Clerk \cup Opener : tx[v].holds => tx[v].pc # "idle"
    <3>1. \A v \in Clerk : tx[v].holds => tx[v].pc # "idle"  BY <1>0 DEF TxInv, ClerkOK
    <3>2. \A v \in Opener : tx[v].holds => tx[v].pc # "idle"  BY <1>0 DEF TxInv, OpenerOK
    <3> QED BY <3>1, <3>2
  <2>6. ASSUME UNCHANGED <<inc, said>> PROVE DeskIInv'
    <3>1. inc' = inc /\ said' = said /\ tx' = tx /\ resol' = resol /\ alarmed' = alarmed  BY <2>1, <2>6
    <3>2. DeskTypes'  BY <1>0, <2>2, <3>1 DEF DeskTypes
    <3>3. \A w \in Clerk \cup Opener : tx[w].pc # "idle" => tx[w].i \in 1 .. incSeq'
      BY <1>0, <1>c, <2>1 DEF TxInv
    <3>4. TxInv'  BY <1>0, <3>1, <3>3 DEF TxInv
    <3>5. Apart'  BY <1>0, <3>1 DEF Apart
    <3>6. Unique'  BY <1>0, <3>1 DEF Unique, Adds
    <3>7. Rows'  BY <1>0, <1>c, <2>1, <3>1 DEF Rows
    <3> QED BY <3>2, <3>4, <3>5, <3>6, <3>7 DEF DeskIInv
  <2>7. ASSUME inc' = [inc EXCEPT ![incSeq'] = n], said' = [said EXCEPT ![incSeq'] = ns] PROVE DeskIInv'
    <3>0. ns \in Seq(Note)
      <4>1. "manual" \in Note  BY DEF Note
      <4>2. <<>> \in Seq(Note) /\ <<"manual">> \in Seq(Note)  BY <4>1
      <4> QED BY <4>2
    <3>1. n \in IncRow /\ n.ex = TRUE /\ n.fp = NoInc.fp /\ n.state = s /\ n.notes = ns
      <4>1. NoInc \in IncRow  BY DeskEmpty
      <4> QED BY <3>0, <4>1 DEF IncRow
    <3>2. inc' = [inc EXCEPT ![k] = n] /\ said' = [said EXCEPT ![k] = n.notes]  BY <2>2, <2>7, <3>1
    <3>3. k \notin alarmed  BY <1>0, <2>2, <2>3, DeskEmpty DEF Rows
    <3> HIDE DEF k, n
    <3>4. ~n.fp  BY <3>1, DeskEmpty
    <3>5. RowMoves(k, n)
      BY <1>c, <1>d, <2>1, <2>2, <2>3, <2>4, <2>5, <3>1, <3>2, <3>3, <3>4 DEF RowMoves
    <3> QED BY <2>2, <3>5, DeskRowStep
  <2> QED BY <1>e, <2>6, <2>7 DEF CreateIncident
<1>f. ASSUME NEW w \in Clerk \cup Opener, Rollback(w) PROVE DeskIInv'
  <2>1. tx' = [tx EXCEPT ![w] = NoTx] /\ UNCHANGED <<inc, incSeq, resol, said, alarmed>>
    BY <1>f DEF Rollback
  <2>2. ClerkOK(NoTx, inc[NoTx.i]) /\ OpenerOK(NoTx, inc[NoTx.i])  BY DeskEmpty DEF ClerkOK, OpenerOK
  <2>3. TxMoves(w, NoTx)  BY <1>c, <2>1, <2>2, DeskEmpty DEF TxMoves
  <2> QED BY <2>3, DeskTxStep
<1>g. ASSUME NEW i \in 1 .. MaxInc, unlocked(i), inc[i].ex
      PROVE  /\ \A v \in Clerk \cup Opener : tx[v].holds => tx[v].i # i
             /\ \A o \in Opener : tx[o].pc # "idle" => tx[o].i # i
             /\ i <= incSeq /\ inc[i] \in IncRow /\ inc[i].notes = said[i]
  <2>1. \A v \in Clerk \cup Opener : tx[v].holds => tx[v].i # i  BY <1>d, <1>g DEF unlocked
  <2>2. \A o \in Opener : tx[o].pc # "idle" => tx[o].i # i
    BY <2>1, <1>0, <1>g DEF TxInv, OpenerOK
  <2> QED BY <1>0, <1>g, <2>1, <2>2, DeskFacts DEF Rows
<1>h. ASSUME NEW i \in 1 .. MaxInc, DeleteIncident(i) PROVE DeskIInv'
  <2>1. inc[i].ex /\ unlocked(i) /\ inc' = [inc EXCEPT ![i] = NoInc] /\ resol' = resol \ {i}
        /\ said' = [said EXCEPT ![i] = <<>>] /\ alarmed' = alarmed \ {i} /\ UNCHANGED <<incSeq, tx>>
    BY <1>h DEF DeleteIncident
  <2>2. said' = [said EXCEPT ![i] = NoInc.notes]  BY <2>1, DeskEmpty
  <2>3. NoInc \in IncRow /\ ~NoInc.ex  BY DeskEmpty
  <2>4. /\ \A v \in Clerk \cup Opener : tx[v].holds => tx[v].i # i
        /\ \A o \in Opener : tx[o].pc # "idle" => tx[o].i # i
    BY <1>g, <2>1
  <2>5. tx' = tx /\ incSeq' = incSeq  BY <2>1
  <2>6. inc' = [inc EXCEPT ![i] = NoInc] /\ resol' = resol \ {i} /\ alarmed' = alarmed \ {i}  BY <2>1
  <2>7. RowMoves(i, NoInc)  BY <1>c, <1>d, <2>2, <2>3, <2>4, <2>5, <2>6 DEF RowMoves
  <2> QED BY <2>7, DeskRowStep
<1>j. ASSUME NEW i \in 1 .. MaxInc, NEW r \in IncRow, NEW n \in Note, journal(i, r, n), inc[i].ex,
             r.ex = inc[i].ex, r.fp = inc[i].fp, r.notes = inc[i].notes, UNCHANGED <<incSeq, resol, tx>>,
             alarmed' \subseteq alarmed, i \in alarmed' => r.state = "active"
      PROVE  DeskIInv'
  <2> DEFINE m == withNote(r, n)
  <2>1. m \in IncRow /\ m.notes = Append(r.notes, n) /\ m.ex = r.ex /\ m.fp = r.fp /\ m.state = r.state
    BY DeskEdits DEF IncState
  <2>2. unlocked(i) /\ inc' = [inc EXCEPT ![i] = m] /\ said' = [said EXCEPT ![i] = Append(said[i], n)]
    BY <1>j DEF journal
  <2>3. said' = [said EXCEPT ![i] = m.notes]  BY <1>g, <1>j, <2>1, <2>2
  <2> HIDE DEF m
  <2>4. /\ \A v \in Clerk \cup Opener : tx[v].holds => tx[v].i # i
        /\ \A o \in Opener : tx[o].pc # "idle" => tx[o].i # i
        /\ i <= incSeq
    BY <1>g, <1>j, <2>2
  <2>5. tx' = tx /\ incSeq' = incSeq /\ resol' = resol /\ alarmed' \subseteq alarmed
        /\ (i \in alarmed' => m.state = "active")
    BY <1>j, <2>1
  <2>6. inc' = [inc EXCEPT ![i] = m]  BY <2>2
  <2>7. m \in IncRow /\ m.ex /\ inc[i].ex /\ m.fp = inc[i].fp  BY <1>j, <2>1
  <2>8. RowMoves(i, m)  BY <1>c, <1>d, <2>3, <2>4, <2>5, <2>6, <2>7 DEF RowMoves
  <2> QED BY <2>8, DeskRowStep
<1>k. ASSUME NEW i \in 1 .. MaxInc, JournalCommand(i) PROVE DeskIInv'
  <2>1. inc[i].ex /\ journal(i, inc[i], "command") /\ UNCHANGED <<incSeq, resol, tx, alarmed>>
    BY <1>k DEF JournalCommand
  <2>2. "command" \in Note  BY DEF Note
  <2>3. inc[i] \in IncRow /\ (i \in alarmed => inc[i].state = "active")  BY <1>0, DeskFacts DEF Rows
  <2> QED BY <1>j, <2>1, <2>2, <2>3
<1>l. ASSUME NEW i \in 1 .. MaxInc, AutoResolveIncident(i) PROVE DeskIInv'
  <2> DEFINE r == [inc[i] EXCEPT !.state = "resolved"]
  <2>1. inc[i].ex /\ journal(i, r, "recovery") /\ alarmed' = alarmed \ {i} /\ UNCHANGED <<incSeq, resol, tx>>
    BY <1>l DEF AutoResolveIncident, Keyed
  <2>2. "recovery" \in Note /\ "resolved" \in IncState  BY DEF Note, IncState
  <2>3. inc[i] \in IncRow  BY DeskFacts
  <2>4. r \in IncRow /\ r.ex = inc[i].ex /\ r.fp = inc[i].fp /\ r.notes = inc[i].notes
    BY <2>2, <2>3, DeskEdits
  <2> HIDE DEF r
  <2> QED BY <1>j, <2>1, <2>2, <2>4
<1> QED BY <1>e, <1>f, <1>h, <1>k, <1>l

\* The first state satisfies the invariant.
LEMMA DeskInitInv == DeskInit => DeskIInv
<1> SUFFICES ASSUME DeskInit PROVE DeskIInv
  OBVIOUS
<1>1. DeskTypes  BY DeskAssumption, DeskEmpty DEF DeskInit, DeskTypes
<1>2. \A w \in Clerk \cup Opener : tx[w] = NoTx  BY DEF DeskInit
<1>3. \A i \in 1 .. MaxInc : inc[i] = NoInc /\ said[i] = <<>> /\ i \notin resol /\ i \notin alarmed
  BY DEF DeskInit
<1>4. TxInv  BY <1>2, DeskEmpty DEF TxInv, ClerkOK, OpenerOK
<1>5. Apart  BY <1>2, DeskEmpty DEF Apart
<1>6. Unique  BY <1>2, <1>3, DeskEmpty DEF Unique, Adds
<1>7. Rows  BY <1>3, DeskEmpty DEF Rows
<1> QED BY <1>1, <1>4, <1>5, <1>6, <1>7 DEF DeskIInv

\* Every step of the service desk preserves the invariant.
LEMMA DeskStep == DeskIInv /\ [DeskNext]_deskVars => DeskIInv'
<1> SUFFICES ASSUME DeskIInv PROVE [DeskNext]_deskVars => DeskIInv'
  OBVIOUS
<1>1. ASSUME DeskNext PROVE DeskIInv'
  <2>1. ASSUME NEW c \in Clerk, NEW i \in 1 .. MaxInc, NEW s \in IncState \cup {"keep"},
               AppendNote(c, i, s) \/ UpdateOnly(c, i, s) PROVE DeskIInv'
    BY <2>1, DeskClerkSteps
  <2>2. ASSUME NEW c \in Clerk, NEW i \in 1 .. MaxInc, FindIncident(c, i) PROVE DeskIInv'
    <3>1. "keep" \in IncState \cup {"keep"}  OBVIOUS
    <3> QED BY <2>2, <3>1, DeskClerkSteps
  <2>3. ASSUME NEW c \in Clerk, UpdateFields(c) \/ CommitFields(c) \/ InsertResolution(c) PROVE DeskIInv'
    <3>1. tx[c].pc # "idle"  BY <2>3 DEF UpdateFields, CommitFields, InsertResolution
    <3>2. tx[c].i \in 1 .. MaxInc  BY <3>1, DeskFacts
    <3>3. "keep" \in IncState \cup {"keep"}  OBVIOUS
    <3> QED BY <2>3, <3>2, <3>3, DeskClerkSteps
  <2>4. ASSUME NEW o \in Opener,
               SelectFingerprint(o) \/ InsertIncident(o) \/ RepeatAlert(o) \/ CommitAlert(o) PROVE DeskIInv'
    BY <2>4, DeskOpenerSteps
  <2> QED BY <1>1, <2>1, <2>2, <2>3, <2>4, DeskOtherSteps DEF DeskNext
<1>2. ASSUME UNCHANGED deskVars PROVE DeskIInv'
  <2>1. inc' = inc /\ incSeq' = incSeq /\ resol' = resol /\ tx' = tx /\ said' = said /\ alarmed' = alarmed
    BY <1>2 DEF deskVars
  <2> QED BY <2>1 DEF DeskIInv, DeskTypes, TxInv, Apart, Unique, Adds, Rows
<1> QED BY <1>1, <1>2

\* The invariant implies what the run checks.
LEMMA DeskInvHolds == DeskIInv => DeskInv
<1> SUFFICES ASSUME DeskIInv PROVE DeskInv
  OBVIOUS
<1>0. DeskTypes /\ Unique /\ Rows  BY DeskFacts
<1>1. DeskTypeOK  BY <1>0 DEF DeskTypes, Rows, DeskTypeOK, IncRow
<1>2. Cardinality(Keyed) <= 1
  <2>1. CASE Keyed = {}  BY <2>1, FS_EmptySet
  <2>2. CASE Keyed # {}
    <3>1. PICK i : i \in Keyed  BY <2>2
    <3>2. Keyed = {i}  BY <3>1, <1>0 DEF Keyed, Unique
    <3> QED BY <3>2, FS_Singleton
  <2> QED BY <2>1, <2>2
<1> QED BY <1>0, <1>1, <1>2 DEF DeskInv, Rows, DeskTypes

\* A journal that a step may make of another: the same, or one note longer
Grown(s, t) == t = s \/ \E n \in Note : t = Append(s, n)

\* What a step leaves of a journal: an incident that stays keeps every note, in their order.
LEMMA JournalStep ==
  ASSUME DeskIInv, [DeskNext]_deskVars, NEW i \in 1 .. MaxInc, inc[i].ex, inc'[i].ex
  PROVE  Grown(inc[i].notes, inc'[i].notes)
<1>1. DeskTypes /\ TxInv /\ Rows  BY DEF DeskIInv
<1>2. ASSUME NEW j \in 1 .. MaxInc, NEW r, inc' = [inc EXCEPT ![j] = r], i = j => Grown(inc[j].notes, r.notes)
      PROVE  Grown(inc[i].notes, inc'[i].notes)
  <2>1. CASE i = j
    <3>1. inc'[i] = r  BY <1>1, <1>2, <2>1 DEF DeskTypes
    <3> QED BY <1>2, <2>1, <3>1
  <2>2. CASE i # j
    <3>1. inc'[i] = inc[i]  BY <1>1, <1>2, <2>2 DEF DeskTypes
    <3> QED BY <3>1 DEF Grown
  <2> QED BY <2>1, <2>2
<1>3. CASE UNCHANGED inc  BY <1>3 DEF Grown
<1>4. ASSUME NEW s \in IncState, NEW ns \in {<<>>, <<"manual">>}, CreateIncident(s, ns)
      PROVE  Grown(inc[i].notes, inc'[i].notes)
  <2> DEFINE r == [NoInc EXCEPT !.ex = TRUE, !.state = s, !.notes = ns]
  <2>1. CASE inc' = [inc EXCEPT ![incSeq'] = r]
    <3>1. incSeq' \in 1 .. MaxInc /\ incSeq' = incSeq + 1 /\ incSeq \in Nat
      BY <1>1, <1>4, DeskAssumption DEF CreateIncident, DeskTypes
    <3>2. i <= incSeq  BY <1>1 DEF Rows
    <3>3. i # incSeq'  BY <3>1, <3>2
    <3> HIDE DEF r
    <3> QED BY <1>2, <2>1, <3>1, <3>3
  <2> QED BY <1>3, <1>4, <2>1 DEF CreateIncident
<1>5. ASSUME NEW c \in Clerk, CommitFields(c) PROVE Grown(inc[i].notes, inc'[i].notes)
  <2>1. tx[c].i \in 1 .. MaxInc
    <3>1. tx[c].i \in 1 .. incSeq  BY <1>1, <1>5 DEF TxInv, CommitFields
    <3> QED BY <1>1, <3>1, DeskAssumption DEF DeskTypes
  <2>2. ClerkOK(tx[c], inc[tx[c].i]) /\ tx[c].pc = "commit"  BY <1>1, <1>5 DEF TxInv, CommitFields
  <2>3. tx[c].new.notes = IF tx[c].note THEN Append(inc[tx[c].i].notes, "manual") ELSE inc[tx[c].i].notes
    BY <2>2 DEF ClerkOK
  <2>4. Grown(inc[tx[c].i].notes, tx[c].new.notes)  BY <2>3 DEF Grown, Note
  <2> QED BY <1>2, <1>5, <2>1, <2>4 DEF CommitFields
<1>6. ASSUME NEW o \in Opener, CommitAlert(o) PROVE Grown(inc[i].notes, inc'[i].notes)
  <2>1. tx[o].i \in 1 .. MaxInc
    <3>1. tx[o].i \in 1 .. incSeq  BY <1>1, <1>6 DEF TxInv, CommitAlert
    <3> QED BY <1>1, <3>1, DeskAssumption DEF DeskTypes
  <2>2. OpenerOK(tx[o], inc[tx[o].i]) /\ tx[o].pc = "commit"  BY <1>1, <1>6 DEF TxInv, CommitAlert
  <2>3. i = tx[o].i => tx[o].new.notes = Append(inc[tx[o].i].notes, "repeat")  BY <2>2 DEF OpenerOK
  <2>4. i = tx[o].i => Grown(inc[tx[o].i].notes, tx[o].new.notes)  BY <2>3 DEF Grown, Note
  <2> QED BY <1>2, <1>6, <2>1, <2>4 DEF CommitAlert
<1>7. ASSUME NEW j \in 1 .. MaxInc, DeleteIncident(j) PROVE Grown(inc[i].notes, inc'[i].notes)
  <2>1. i # j
    <3>1. SUFFICES ASSUME i = j PROVE FALSE  OBVIOUS
    <3>2. inc'[i] = NoInc  BY <1>1, <1>7, <3>1 DEF DeleteIncident, DeskTypes
    <3> QED BY <3>2, DeskEmpty
  <2> QED BY <1>2, <1>7, <2>1 DEF DeleteIncident
<1>8. ASSUME NEW j \in 1 .. MaxInc, JournalCommand(j) \/ AutoResolveIncident(j)
      PROVE  Grown(inc[i].notes, inc'[i].notes)
  <2> DEFINE shut == [inc[j] EXCEPT !.state = "resolved"]
  <2>1. inc[j] \in IncRow  BY <1>1 DEF DeskTypes
  <2>2. shut \in IncRow /\ shut.notes = inc[j].notes  BY <2>1 DEF IncRow, IncState
  <2>3. /\ Grown(inc[j].notes, withNote(inc[j], "command").notes)
        /\ Grown(inc[j].notes, withNote(shut, "recovery").notes)
    <3> HIDE DEF shut
    <3>1. "command" \in Note /\ "recovery" \in Note /\ "active" \in IncState  BY DEF Note, IncState
    <3>2. withNote(inc[j], "command").notes = Append(inc[j].notes, "command")  BY <2>1, <3>1, DeskEdits
    <3>3. withNote(shut, "recovery").notes = Append(shut.notes, "recovery")  BY <2>2, <3>1, DeskEdits
    <3> QED BY <2>2, <3>1, <3>2, <3>3 DEF Grown
  <2>4. CASE JournalCommand(j)
    BY <1>2, <2>3, <2>4 DEF JournalCommand, journal
  <2>5. CASE AutoResolveIncident(j)
    BY <1>2, <2>3, <2>5 DEF AutoResolveIncident, journal
  <2> QED BY <1>8, <2>4, <2>5
<1>9. CASE UNCHANGED deskVars  BY <1>3, <1>9 DEF deskVars
<1>10. CASE DeskNext
  BY <1>3, <1>4, <1>5, <1>6, <1>7, <1>8, <1>10
     DEF DeskNext, AppendNote, UpdateOnly, FindIncident, UpdateFields, InsertResolution,
         SelectFingerprint, InsertIncident, RepeatAlert, Rollback
<1> QED BY <1>9, <1>10

-----------------------------------------------------------------------------
(* The backup engine                                                        *)

Archive == [name : (Nat \X Second) \cup {<<>>}, day : Nat, whole : BOOLEAN]
RunRow == [pc : {"idle", "lock", "dump", "write", "publish", "prune", "remove"}, file : Archive, todo : SUBSET Archive]

BackupTypes ==
  /\ day \in 0 .. MaxDay /\ runMu \in Runner \cup {NoHolder} /\ store \subseteq Archive
  /\ bk \in [Runner -> RunRow]

\* A run past its lock holds it; what it publishes is whole and was written today or yesterday;
\* what it has published is in the storage directory and is not among what it removes.
RunInv ==
  \A r \in Runner :
    /\ bk[r].pc \notin {"idle", "lock"} => runMu = r
    /\ bk[r].pc = "publish" => bk[r].file.whole
    /\ bk[r].pc \in {"publish", "prune", "remove"} => bk[r].file.day <= day /\ day <= bk[r].file.day + 1
    /\ bk[r].pc \in {"prune", "remove"} => bk[r].file \in store
    /\ bk[r].pc = "remove" => bk[r].file \notin bk[r].todo

BackupIInv == BackupInv /\ BackupTypes /\ RunInv
USE BackupAssumption, RunnerAssumption

\* A run that rests is of its type.
LEMMA NoRunType == NoRun \in RunRow /\ NoRun.pc = "idle"
BY DEF NoRun, RunRow, Archive

\* The first state satisfies the invariant.
LEMMA BackupInitInv == BackupInit => BackupIInv
BY NoRunType DEF BackupInit, BackupIInv, BackupInv, BackupTypes, RunInv

\* A step of a run to b that leaves the storage directory, and keeps, takes or frees the lock
RunMoves(r, b) ==
  /\ b \in RunRow /\ bk' = [bk EXCEPT ![r] = b] /\ UNCHANGED <<day, store, ever>>
  /\ runMu \in {r, NoHolder} \/ runMu' = runMu
  /\ runMu' \in {runMu, r, NoHolder}
  /\ b.pc \notin {"idle", "lock"} => runMu' = r
  /\ b.pc = "publish" => b.file.whole
  /\ b.pc \in {"publish", "prune", "remove"} => b.file.day <= day /\ day <= b.file.day + 1
  /\ b.pc \in {"prune", "remove"} => b.file \in store
  /\ b.pc = "remove" => b.file \notin b.todo

\* Such a step preserves the invariant.
LEMMA RunStep ==
  ASSUME BackupIInv, NEW r \in Runner, NEW b, RunMoves(r, b)
  PROVE  BackupIInv'
<1> USE DEF RunMoves
<1>1. BackupInv /\ BackupTypes /\ RunInv  BY DEF BackupIInv
<1>2. bk'[r] = b /\ \A q \in Runner \ {r} : bk'[q] = bk[q]  BY <1>1 DEF BackupTypes
<1>3. BackupTypes'  BY <1>1 DEF BackupTypes
<1>4. RunInv'  BY <1>1, <1>2 DEF RunInv
<1>5. BackupInv'  BY <1>1, <1>3 DEF BackupInv, BackupTypes
<1> QED BY <1>3, <1>4, <1>5 DEF BackupIInv

\* Every step of the backup engine preserves the invariant.
LEMMA BackupStep == BackupIInv /\ [BackupNext]_backupVars => BackupIInv'
<1> SUFFICES ASSUME BackupIInv PROVE [BackupNext]_backupVars => BackupIInv'
  OBVIOUS
<1>0. BackupInv /\ BackupTypes /\ RunInv  BY DEF BackupIInv
<1>1. ASSUME NEW r \in Runner,
             \/ AskBackup(r) \/ LockRun(r) \/ DumpDatabase(r) \/ WriteArchive(r)
             \/ PublishArchive(r) \/ ListArchives(r) \/ RemoveArchive(r)
             \/ EndBackup(r) \/ FailBackup(r)
      PROVE  BackupIInv'
  <2>0. bk[r] \in RunRow /\ bk[r].file \in Archive /\ bk[r].todo \subseteq Archive
        /\ bk[r].file.day \in Nat /\ day \in Nat
    BY <1>0 DEF BackupTypes, RunRow, Archive
  <2>a. /\ bk[r].pc \notin {"idle", "lock"} => runMu = r
        /\ bk[r].pc = "publish" => bk[r].file.whole
        /\ bk[r].pc \in {"publish", "prune", "remove"} => bk[r].file.day <= day /\ day <= bk[r].file.day + 1
        /\ bk[r].pc \in {"prune", "remove"} => bk[r].file \in store
        /\ bk[r].pc = "remove" => bk[r].file \notin bk[r].todo
    BY <1>0 DEF RunInv
  <2>1. CASE AskBackup(r)
    <3> DEFINE b == [bk[r] EXCEPT !.pc = "lock"]
    <3>1. b \in RunRow /\ b.pc = "lock" /\ bk' = [bk EXCEPT ![r] = b]  BY <2>0, <2>1 DEF AskBackup, RunRow
    <3>2. UNCHANGED <<day, runMu, store, ever>>  BY <2>1 DEF AskBackup
    <3> HIDE DEF b
    <3> QED BY <3>1, <3>2, RunStep DEF RunMoves
  <2>2. CASE LockRun(r)
    <3> DEFINE b == [bk[r] EXCEPT !.pc = "dump"]
    <3>1. b \in RunRow /\ b.pc = "dump" /\ bk' = [bk EXCEPT ![r] = b]  BY <2>0, <2>2 DEF LockRun, RunRow
    <3>2. runMu = NoHolder /\ runMu' = r /\ UNCHANGED <<day, store, ever>>  BY <2>2 DEF LockRun
    <3> HIDE DEF b
    <3> QED BY <3>1, <3>2, RunStep DEF RunMoves
  <2>3. CASE DumpDatabase(r)
    <3>1. PICK s \in Second : bk' = [bk EXCEPT ![r].pc = "write", ![r].file.name = <<day, s>>]
      BY <2>3 DEF DumpDatabase
    <3> DEFINE f == [bk[r].file EXCEPT !.name = <<day, s>>]
               b == [bk[r] EXCEPT !.pc = "write", !.file = f]
    <3>2. f \in Archive  BY <2>0 DEF Archive
    <3>3. bk' = [bk EXCEPT ![r] = b]  BY <2>0, <3>1 DEF RunRow
    <3> HIDE DEF f
    <3>4. b \in RunRow /\ b.pc = "write"  BY <2>0, <3>2 DEF RunRow
    <3>5. runMu = r /\ UNCHANGED <<day, runMu, store, ever>>  BY <2>3, <2>a DEF DumpDatabase
    <3> HIDE DEF b
    <3> QED BY <3>3, <3>4, <3>5, RunStep DEF RunMoves
  <2>4. CASE WriteArchive(r)
    <3> DEFINE f == [bk[r].file EXCEPT !.day = day, !.whole = TRUE]
               b == [bk[r] EXCEPT !.pc = "publish", !.file = f]
    <3>2. f \in Archive /\ f.day = day /\ f.whole  BY <2>0 DEF Archive
    <3>3. bk' = [bk EXCEPT ![r] = b]  BY <2>0, <2>4 DEF WriteArchive, RunRow
    <3> HIDE DEF f
    <3>4. b \in RunRow /\ b.pc = "publish" /\ b.file = f  BY <2>0, <3>2 DEF RunRow
    <3>5. runMu = r /\ UNCHANGED <<day, runMu, store, ever>>  BY <2>4, <2>a DEF WriteArchive
    <3> HIDE DEF b
    <3>6. b.file.whole /\ b.file.day <= day /\ day <= b.file.day + 1  BY <2>0, <3>2, <3>4
    <3>7. RunMoves(r, b)  BY <3>3, <3>4, <3>5, <3>6 DEF RunMoves
    <3> QED BY <3>7, RunStep
  <2>5. CASE PublishArchive(r)
    <3> DEFINE f == bk[r].file
               b == [bk[r] EXCEPT !.pc = "prune"]
    <3>1. bk[r].pc = "publish" /\ ever' = TRUE /\ UNCHANGED <<day, runMu>>
          /\ store' = {a \in store : a.name # f.name} \cup {f} /\ bk' = [bk EXCEPT ![r] = b]
      BY <2>0, <2>5 DEF PublishArchive, RunRow
    <3>2. b \in RunRow /\ b.pc = "prune" /\ b.file = f  BY <2>0 DEF RunRow
    <3>3. runMu = r /\ f.whole /\ f.day <= day /\ day <= f.day + 1 /\ f \in Archive  BY <3>1, <2>a, <2>0
    <3> HIDE DEF b
    <3>4. bk'[r] = b /\ \A q \in Runner \ {r} : bk'[q] = bk[q]  BY <1>0, <3>1 DEF BackupTypes
    <3>5. \A q \in Runner \ {r} : bk[q].pc \in {"idle", "lock"}  BY <1>0, <3>3 DEF RunInv
    <3>6. BackupTypes'  BY <1>0, <3>1, <3>2, <3>3 DEF BackupTypes
    <3>7. RunInv'  BY <3>1, <3>2, <3>3, <3>4, <3>5 DEF RunInv
    <3>8. BackupInv'  BY <1>0, <3>1, <3>3, <3>6 DEF BackupInv, BackupTypes
    <3> QED BY <3>6, <3>7, <3>8 DEF BackupIInv
  <2>6. CASE ListArchives(r)
    <3> DEFINE old == {a \in store : a.day + Retention < day}
               b == [bk[r] EXCEPT !.pc = "remove", !.todo = old]
    <3>1. bk[r].pc = "prune" /\ bk' = [bk EXCEPT ![r] = b] /\ UNCHANGED <<day, runMu, store, ever>>
      BY <2>0, <2>6 DEF ListArchives, RunRow
    <3>2. old \subseteq Archive  BY <1>0 DEF BackupTypes
    <3>3. bk[r].file \notin old  BY <2>0, <2>a, <3>1
    <3> HIDE DEF old
    <3>4. b \in RunRow /\ b.pc = "remove" /\ b.file = bk[r].file /\ b.todo = old  BY <2>0, <3>2 DEF RunRow
    <3> HIDE DEF b
    <3> QED BY <2>a, <3>1, <3>3, <3>4, RunStep DEF RunMoves
  <2>7. CASE RemoveArchive(r)
    <3>1. PICK a \in bk[r].todo : store' \in {store \ {a}, store} /\ bk' = [bk EXCEPT ![r].todo = @ \ {a}]
      BY <2>7 DEF RemoveArchive
    <3> DEFINE b == [bk[r] EXCEPT !.todo = bk[r].todo \ {a}]
    <3>2. bk[r].pc = "remove" /\ UNCHANGED <<day, runMu, ever>>  BY <2>7 DEF RemoveArchive
    <3>3. bk' = [bk EXCEPT ![r] = b]  BY <2>0, <3>1 DEF RunRow
    <3>4. b \in RunRow /\ b.pc = "remove" /\ b.file = bk[r].file /\ b.todo = bk[r].todo \ {a}
      BY <2>0, <3>2 DEF RunRow
    <3> HIDE DEF b
    <3>5. runMu = r /\ bk[r].file \in store /\ bk[r].file # a  BY <2>a, <3>2
    <3>6. store' \subseteq store /\ bk[r].file \in store'  BY <3>1, <3>5
    <3>7. bk'[r] = b /\ \A q \in Runner \ {r} : bk'[q] = bk[q]  BY <1>0, <3>3 DEF BackupTypes
    <3>8. \A q \in Runner \ {r} : bk[q].pc \in {"idle", "lock"}  BY <1>0, <3>5 DEF RunInv
    <3>9. BackupTypes'  BY <1>0, <3>2, <3>3, <3>4, <3>6 DEF BackupTypes
    <3>10. RunInv'  BY <2>a, <3>2, <3>4, <3>6, <3>7, <3>8 DEF RunInv
    <3>11. BackupInv'  BY <1>0, <3>2, <3>6, <3>9 DEF BackupInv, BackupTypes
    <3> QED BY <3>9, <3>10, <3>11 DEF BackupIInv
  <2>8. CASE EndBackup(r) \/ FailBackup(r)
    <3>1. bk[r].pc \notin {"idle", "lock"} /\ bk' = [bk EXCEPT ![r] = NoRun] /\ runMu' = NoHolder
          /\ UNCHANGED <<day, store, ever>>
      BY <2>8 DEF EndBackup, FailBackup, endRun
    <3> QED BY <2>a, <3>1, NoRunType, RunStep DEF RunMoves
  <2> QED BY <1>1, <2>1, <2>2, <2>3, <2>4, <2>5, <2>6, <2>7, <2>8
<1>2. ASSUME StopEngine PROVE BackupIInv'
  <2>1. bk' = [r \in Runner |-> NoRun] /\ runMu' = NoHolder /\ UNCHANGED <<day, store, ever>>
    BY <1>2 DEF StopEngine
  <2>2. BackupTypes'  BY <1>0, <2>1, NoRunType DEF BackupTypes
  <2>3. RunInv'  BY <2>1, NoRunType DEF RunInv
  <2>4. BackupInv'  BY <1>0, <2>1, <2>2 DEF BackupInv, BackupTypes
  <2> QED BY <2>2, <2>3, <2>4 DEF BackupIInv
<1>3. ASSUME NextDay PROVE BackupIInv'
  <2>1. day < MaxDay /\ day' = day + 1 /\ UNCHANGED <<bk, runMu, store, ever>>
        /\ \A r \in Runner : bk[r].pc \in {"publish", "prune", "remove"} => bk[r].file.day = day
    BY <1>3 DEF NextDay
  <2>2. day \in Nat  BY <1>0 DEF BackupTypes
  <2>3. BackupTypes'  BY <1>0, <2>1 DEF BackupTypes
  <2>4. RunInv'  BY <1>0, <2>1, <2>2 DEF RunInv
  <2>5. BackupInv'  BY <1>0, <2>1, <2>3 DEF BackupInv, BackupTypes
  <2> QED BY <2>3, <2>4, <2>5 DEF BackupIInv
<1>4. ASSUME UNCHANGED backupVars PROVE BackupIInv'
  <2>1. day' = day /\ bk' = bk /\ runMu' = runMu /\ store' = store /\ ever' = ever
    BY <1>4 DEF backupVars
  <2> QED BY <1>0, <2>1 DEF BackupIInv, BackupInv, BackupTypes, RunInv
<1> QED BY <1>1, <1>2, <1>3, <1>4 DEF BackupNext

HIDE BackupAssumption
HIDE RunnerAssumption

-----------------------------------------------------------------------------
(* The app catalogue                                                        *)

Locator == Blob \cup {"url"}
AppRow == [st : {"none", "on", "deleted"}, loc : Locator]
CatOp == {"idle", "rename", "insert", "patch", "delete", "unlink", "upsert", "dispatch", "sent", "refused"}
ReqRow == [op : CatOp, app : App \cup {Unnamed}, loc : Locator, lone : BOOLEAN]
InstRow == [st : {"none", "wire", "get", "have", "ok", "err"}, app : App \cup {Unnamed}, url : BOOLEAN,
            own : BOOLEAN, denied : BOOLEAN, lone : BOOLEAN]

CatTypes ==
  /\ app \in [App -> AppRow] /\ blob \in [Blob -> {"none", "partial", "file"}]
  /\ row \in [App -> Statuses \cup {"none"}] /\ online \in {"off", "on", "other"}
  /\ req \in [CatHandler -> ReqRow] /\ inst \in [Install -> InstRow]
  /\ \A h \in CatHandler : req[h].op # "idle" => req[h].app \in App
  /\ \A h \in CatHandler : req[h].op = "idle" => req[h].app = Unnamed
  /\ \A k \in Install : inst[k].st # "none" => inst[k].app \in App
  /\ \A k \in Install : inst[k].st = "none" => inst[k].app = Unnamed

\* What a request in progress says of its entry: an upload's is still to come, and no other
\* request is about it; one that removes a file has deleted its entry, alone.
Progress ==
  \A h \in CatHandler :
    /\ req[h].op \in {"rename", "insert"} =>
         app[req[h].app].st = "none" /\ \A g \in CatHandler \ {h} : req[g].app # req[h].app
    /\ req[h].op \in {"patch", "delete", "unlink", "upsert", "dispatch", "sent", "refused"} =>
         app[req[h].app].st # "none"
    /\ req[h].op = "unlink" =>
         /\ app[req[h].app].st = "deleted"
         /\ \A g \in CatHandler \ {h} : ~(req[g].op = "unlink" /\ req[g].app = req[h].app)

\* An entry refers to a blob, or a request does that may still write or remove it.
AppClaims(x, b) == app[x].st = "on" /\ app[x].loc = b
ReqClaims(h, b) ==
  /\ req[h].loc = b
  /\ \/ req[h].op \in {"rename", "insert", "unlink"}
     \/ req[h].op \in {"patch", "delete"} /\ app[req[h].app].st = "on"
Claims(x, b) == AppClaims(x, b) \/ \E h \in CatHandler : req[h].app = x /\ ReqClaims(h, b)

\* A blob no PATCH has named belongs to one entry, and is a file unless it is still being written.
Owned ==
  \A b \in Blob \ moved :
    /\ \A x, y \in App : Claims(x, b) /\ Claims(y, b) => x = y
    /\ \A x \in App : AppClaims(x, b) => blob[b] = "file"
    /\ \A h \in CatHandler : ReqClaims(h, b) => blob[b] = IF req[h].op = "rename" THEN "partial" ELSE "file"

Assigning == {"dispatch", "sent", "refused"}
Open(a, r) == a.st = "on" => r \in {"pending", "installing"}

\* A lone assignment, before its command leaves and after it
LoneInv ==
  /\ \A h \in CatHandler : req[h].lone =>
       /\ req[h].op = "dispatch" /\ Open(app[req[h].app], row[req[h].app])
       /\ \A g \in CatHandler \ {h} : ~(req[g].app = req[h].app /\ req[g].op \in Assigning)
       /\ \A k \in Install : inst[k].app # req[h].app
  /\ \A k \in Install : inst[k].lone =>
       /\ inst[k].st \in {"wire", "get"} /\ Open(app[inst[k].app], row[inst[k].app])
       /\ \A g \in CatHandler : req[g].app = inst[k].app /\ req[g].op \in Assigning => req[g].op = "sent"
       /\ \A j \in Install \ {k} : inst[j].app # inst[k].app

\* A command is about an entry that was there, and one that has installed is on the device.
InstInv ==
  \A k \in Install :
    /\ inst[k].st # "none" => app[inst[k].app].st # "none"
    /\ inst[k].st = "ok" => inst[k].app \in installed

CatIInv == CatTypes /\ Progress /\ Owned /\ LoneInv /\ InstInv /\ SuccessIsInstalled /\ LoneInstallIsServed

USE CatAssumption

\* What rests is of its type.
LEMMA CatEmpty ==
  /\ NoReq \in ReqRow /\ NoReq.op = "idle" /\ NoReq.app = Unnamed /\ NoReq.loc = "url" /\ ~NoReq.lone
  /\ NoInst \in InstRow /\ NoInst.st = "none" /\ NoInst.app = Unnamed /\ ~NoInst.denied /\ ~NoInst.lone
  /\ NoApp \in AppRow /\ NoApp.st = "none" /\ NoApp.loc = "url"
<1>1. NoReq \in ReqRow /\ NoReq.op = "idle" /\ NoReq.app = Unnamed /\ NoReq.loc = "url" /\ ~NoReq.lone
  BY DEF NoReq, ReqRow, CatOp, Locator
<1>2. NoInst \in InstRow /\ NoInst.st = "none" /\ NoInst.app = Unnamed /\ ~NoInst.denied /\ ~NoInst.lone
  BY DEF NoInst, InstRow
<1>3. NoApp \in AppRow /\ NoApp.st = "none" /\ NoApp.loc = "url"
  BY DEF NoApp, AppRow, Locator
<1> QED BY <1>1, <1>2, <1>3

\* A request that does() is of its type.
LEMMA CatDo ==
  ASSUME NEW op \in CatOp, NEW x \in App, NEW l \in Locator
  PROVE  LET q == [op |-> op, app |-> x, loc |-> l, lone |-> FALSE]
         IN  q \in ReqRow /\ q.op = op /\ q.app = x /\ q.loc = l /\ ~q.lone
BY DEF ReqRow

\* What the invariant says of one request, entry and command.
LEMMA CatFacts ==
  ASSUME CatIInv
  PROVE  /\ CatTypes /\ Progress /\ Owned /\ LoneInv /\ InstInv /\ SuccessIsInstalled /\ LoneInstallIsServed
         /\ \A h \in CatHandler : /\ req[h] \in ReqRow /\ req[h].op \in CatOp /\ req[h].loc \in Locator
                                  /\ req[h].op # "idle" => req[h].app \in App
         /\ \A x \in App : app[x] \in AppRow /\ app[x].loc \in Locator
         /\ \A k \in Install : inst[k] \in InstRow
<1>1. CatTypes /\ Progress /\ Owned /\ LoneInv /\ InstInv /\ SuccessIsInstalled /\ LoneInstallIsServed
  BY DEF CatIInv
<1>2. \A h \in CatHandler : /\ req[h] \in ReqRow /\ req[h].op \in CatOp /\ req[h].loc \in Locator
                            /\ req[h].op # "idle" => req[h].app \in App
  BY <1>1 DEF CatTypes, ReqRow
<1>3. \A x \in App : app[x] \in AppRow /\ app[x].loc \in Locator  BY <1>1 DEF CatTypes, AppRow
<1>4. \A k \in Install : inst[k] \in InstRow  BY <1>1 DEF CatTypes
<1> QED BY <1>1, <1>2, <1>3, <1>4

\* The requests change in one place, to q.
ReqMoves(h, q) ==
  /\ q \in ReqRow /\ req' = [req EXCEPT ![h] = q]
  /\ q.op # "idle" => q.app \in App
  /\ q.op = "idle" => q.app = Unnamed

\* Steps that touch neither the commands nor the rows of the device keep what is said of lone
\* assignments and of commands.
LEMMA LoneKeeps ==
  ASSUME CatIInv, inst' = inst, installed' = installed,
         \A x \in App : app[x].st # "none" =>
           /\ app'[x].st # "none"
           /\ app'[x].st = "on" => app[x].st = "on" /\ row'[x] = row[x],
         \A g \in CatHandler : req'[g].lone => req'[g] = req[g],
         \A g \in CatHandler : req'[g].op \in Assigning => req'[g] = req[g]
  PROVE  LoneInv' /\ InstInv' /\ LoneInstallIsServed'
<1>1. CatTypes /\ Progress /\ LoneInv /\ InstInv /\ LoneInstallIsServed  BY CatFacts
<1>2. \A x \in App : app[x].st # "none" /\ Open(app[x], row[x]) => Open(app'[x], row'[x])  BY DEF Open
<1>3. \A k \in Install : inst[k].st # "none" => inst[k].app \in App  BY <1>1 DEF CatTypes
<1>4. InstInv'  BY <1>1, <1>3 DEF InstInv
<1>5. LoneInstallIsServed'  BY <1>1 DEF LoneInstallIsServed
<1>6. ASSUME NEW h \in CatHandler, req'[h].lone
      PROVE  /\ req'[h].op = "dispatch" /\ Open(app'[req'[h].app], row'[req'[h].app])
             /\ \A g \in CatHandler \ {h} : ~(req'[g].app = req'[h].app /\ req'[g].op \in Assigning)
             /\ \A k \in Install : inst[k].app # req'[h].app
  <2>1. req'[h] = req[h] /\ req[h].lone  BY <1>6
  <2>2. req[h].op = "dispatch" /\ Open(app[req[h].app], row[req[h].app])
        /\ (\A g \in CatHandler \ {h} : ~(req[g].app = req[h].app /\ req[g].op \in Assigning))
        /\ \A k \in Install : inst[k].app # req[h].app
    BY <1>1, <2>1 DEF LoneInv
  <2>3. PICK x \in App : x = req[h].app /\ app[x].st # "none"  BY <2>2, <1>1, CatFacts DEF Progress
  <2>4. Open(app'[x], row'[x])  BY <1>2, <2>2, <2>3
  <2>5. Open(app'[req'[h].app], row'[req'[h].app])  BY <2>1, <2>3, <2>4
  <2> QED BY <2>1, <2>2, <2>5
<1>7. ASSUME NEW k \in Install, inst[k].lone
      PROVE  /\ inst[k].st \in {"wire", "get"} /\ Open(app'[inst[k].app], row'[inst[k].app])
             /\ \A g \in CatHandler : req'[g].app = inst[k].app /\ req'[g].op \in Assigning => req'[g].op = "sent"
             /\ \A j \in Install \ {k} : inst[j].app # inst[k].app
  <2>1. inst[k].st \in {"wire", "get"} /\ Open(app[inst[k].app], row[inst[k].app])
        /\ (\A g \in CatHandler : req[g].app = inst[k].app /\ req[g].op \in Assigning => req[g].op = "sent")
        /\ \A j \in Install \ {k} : inst[j].app # inst[k].app
    BY <1>1, <1>7 DEF LoneInv
  <2>2. inst[k].app \in App /\ app[inst[k].app].st # "none"  BY <2>1, <1>1, <1>3 DEF InstInv
  <2> QED BY <2>1, <2>2, <1>2
<1> QED BY <1>4, <1>5, <1>6, <1>7 DEF LoneInv

\* Once nothing but one request has moved, the others are as they were.
LEMMA CatOthers ==
  ASSUME CatIInv, NEW h \in CatHandler, NEW q, ReqMoves(h, q)
  PROVE  /\ req'[h] = q /\ \A g \in CatHandler \ {h} : req'[g] = req[g]
         /\ req' \in [CatHandler -> ReqRow]
         /\ \A g \in CatHandler : req'[g].op # "idle" => req'[g].app \in App
         /\ \A g \in CatHandler : req'[g].op = "idle" => req'[g].app = Unnamed
<1>1. CatTypes  BY CatFacts
<1>2. req'[h] = q /\ \A g \in CatHandler \ {h} : req'[g] = req[g]  BY <1>1 DEF ReqMoves, CatTypes
<1>3. req' \in [CatHandler -> ReqRow]  BY <1>1 DEF ReqMoves, CatTypes
<1>4. \A g \in CatHandler : req'[g].op # "idle" => req'[g].app \in App  BY <1>1, <1>2 DEF ReqMoves, CatTypes
<1>5. \A g \in CatHandler : req'[g].op = "idle" => req'[g].app = Unnamed  BY <1>1, <1>2 DEF ReqMoves, CatTypes
<1> QED BY <1>2, <1>3, <1>4, <1>5

\* A request reads an entry, or ends; nothing else changes, but blobs may have been named.
JustReads(h, q) ==
  /\ ReqMoves(h, q) /\ UNCHANGED <<app, blob, row, online, inst, installed>> /\ moved \subseteq moved'
  /\ q.op \in {"idle", "patch", "delete", "upsert"} /\ ~q.lone
  /\ q.op # "idle" => app[q.app].st = "on"
  /\ q.op \in {"patch", "delete"} /\ q.loc \in Blob \ moved' => app[q.app].loc = q.loc

\* Such a step preserves the invariant.
LEMMA CatReadStep ==
  ASSUME CatIInv, NEW h \in CatHandler, NEW q, JustReads(h, q)
  PROVE  CatIInv'
<1> USE DEF JustReads
<1>1. CatTypes /\ Progress /\ Owned /\ LoneInv /\ InstInv /\ SuccessIsInstalled /\ LoneInstallIsServed
  BY CatFacts
<1>2. /\ req'[h] = q /\ \A g \in CatHandler \ {h} : req'[g] = req[g]
      /\ req' \in [CatHandler -> ReqRow]
      /\ \A g \in CatHandler : req'[g].op # "idle" => req'[g].app \in App
      /\ \A g \in CatHandler : req'[g].op = "idle" => req'[g].app = Unnamed
  BY CatOthers
<1>3. CatTypes'  BY <1>1, <1>2 DEF CatTypes
<1>4. Progress'
  <2>1. q.op = "idle" => q.app \notin App  BY CatEmpty DEF ReqMoves
  <2>2. \A g \in CatHandler \ {h} : req[g].op # "idle" => req[g].app \in App  BY <1>1 DEF CatTypes
  <2> QED BY <1>1, <1>2, <2>1, <2>2 DEF Progress
<1>5. Owned'
  <2>1. ASSUME NEW b \in Blob \ moved', NEW g \in CatHandler, ReqClaims(g, b)'
        PROVE  Claims(req'[g].app, b) /\ req'[g].app \in App
               /\ blob[b] = IF req'[g].op = "rename" THEN "partial" ELSE "file"
    <3>1. CASE g # h
      <4>1. ReqClaims(g, b) /\ req'[g] = req[g]  BY <1>2, <2>1, <3>1 DEF ReqClaims
      <4>2. req[g].op # "idle"  BY <4>1 DEF ReqClaims
      <4> QED BY <1>1, <4>1, <4>2 DEF Owned, Claims, CatTypes
    <3>2. CASE g = h
      <4>1. q.loc = b /\ q.op \in {"patch", "delete"}  BY <1>2, <2>1, <3>2 DEF ReqClaims
      <4>2. AppClaims(q.app, b) /\ q.app \in App  BY <4>1 DEF AppClaims, ReqMoves
      <4> QED BY <1>1, <1>2, <3>2, <4>1, <4>2 DEF Owned, Claims
    <3> QED BY <3>1, <3>2
  <2>2. \A b \in Blob, x \in App : AppClaims(x, b)' <=> AppClaims(x, b)  BY DEF AppClaims
  <2>3. \A b \in Blob \ moved', x \in App : Claims(x, b)' => Claims(x, b)
    BY <2>1, <2>2 DEF Claims
  <2>4. Blob \ moved' \subseteq Blob \ moved  OBVIOUS
  <2>5. \A b \in Blob \ moved', x \in App : AppClaims(x, b)' => blob[b] = "file"
    BY <1>1, <2>2, <2>4 DEF Owned
  <2> QED BY <1>1, <2>1, <2>3, <2>4, <2>5 DEF Owned
<1>6. LoneInv' /\ InstInv' /\ LoneInstallIsServed'
  <2>1. \A g \in CatHandler : req'[g].lone => req'[g] = req[g]  BY <1>2
  <2>2. \A g \in CatHandler : req'[g].op \in Assigning => req'[g] = req[g]  BY <1>2 DEF Assigning
  <2> QED BY <2>1, <2>2, LoneKeeps
<1>7. SuccessIsInstalled'  BY <1>1 DEF SuccessIsInstalled, Entry
<1> QED BY <1>3, <1>4, <1>5, <1>6, <1>7 DEF CatIInv

\* A request that ends with nothing else changed
LEMMA CatFinish ==
  ASSUME CatIInv, NEW h \in CatHandler, finish(h), UNCHANGED <<app, blob, row, online, inst, installed, moved>>
  PROVE  CatIInv'
<1>1. ReqMoves(h, NoReq)  BY CatEmpty DEF finish, ReqMoves
<1>2. JustReads(h, NoReq)  BY <1>1, CatEmpty DEF JustReads
<1> QED BY <1>2, CatReadStep

\* The steps that only read an entry preserve the invariant.
LEMMA CatReads ==
  ASSUME CatIInv, NEW h \in CatHandler, NEW x \in App
  PROVE  ReadPatch(h, x) \/ ReadDelete(h, x) \/ StartAssign(h, x) => CatIInv'
<1>0. app[x].loc \in Locator  BY CatFacts
<1>1. ASSUME NEW op \in {"patch", "delete", "upsert"}, NEW l \in Locator, do(h, op, x, l), Entry(x),
             UNCHANGED <<app, blob, row, online, inst, installed>>, moved \subseteq moved',
             op \in {"patch", "delete"} /\ l \in Blob \ moved' => app[x].loc = l
      PROVE  CatIInv'
  <2> DEFINE q == [op |-> op, app |-> x, loc |-> l, lone |-> FALSE]
  <2>1. op \in CatOp  BY DEF CatOp
  <2>2. q \in ReqRow /\ q.op = op /\ q.app = x /\ q.loc = l /\ ~q.lone  BY <2>1, CatDo
  <2>3. req' = [req EXCEPT ![h] = q]  BY <1>1 DEF do
  <2> HIDE DEF q
  <2>4. JustReads(h, q)  BY <1>1, <2>2, <2>3 DEF JustReads, ReqMoves, Entry
  <2> QED BY <2>4, CatReadStep
<1>2. ASSUME ReadPatch(h, x) PROVE CatIInv'
  <2>1. PICK loc \in {app[x].loc, "url"} \cup Blob :
          /\ do(h, "patch", x, loc)
          /\ moved' = IF loc = app[x].loc THEN moved ELSE moved \cup ({loc} \cap Blob)
    BY <1>2 DEF ReadPatch
  <2>2. Entry(x) /\ UNCHANGED <<app, blob, row, online, inst, installed>>  BY <1>2 DEF ReadPatch
  <2>3. loc \in Locator  BY <1>0 DEF Locator
  <2>4. moved \subseteq moved' /\ (loc \in Blob \ moved' => app[x].loc = loc)  BY <2>1
  <2> QED BY <1>1, <2>1, <2>2, <2>3, <2>4
<1>3. ASSUME ReadDelete(h, x) PROVE CatIInv'
  BY <1>0, <1>1, <1>3 DEF ReadDelete
<1>4. ASSUME StartAssign(h, x) PROVE CatIInv'
  BY <1>0, <1>1, <1>4 DEF StartAssign
<1> QED BY <1>2, <1>3, <1>4

\* An entry for a URL preserves the invariant.
LEMMA CatCreate == ASSUME CatIInv, NEW x \in App, CreateEntry(x) PROVE CatIInv'
<1>1. CatTypes /\ Progress /\ Owned /\ LoneInv /\ InstInv /\ SuccessIsInstalled /\ LoneInstallIsServed
  BY CatFacts
<1>2. /\ app[x].st = "none" /\ \A h \in CatHandler : req[h].app # x
      /\ app' = [app EXCEPT ![x] = [st |-> "on", loc |-> "url"]]
      /\ UNCHANGED <<blob, row, online, req, inst, installed, moved>>
  BY DEF CreateEntry
<1>3. [st |-> "on", loc |-> "url"] \in AppRow  BY DEF AppRow, Locator
<1>4. app'[x].st = "on" /\ app'[x].loc = "url" /\ \A y \in App \ {x} : app'[y] = app[y]
  BY <1>1, <1>2 DEF CatTypes
<1>5. CatTypes'  BY <1>1, <1>2, <1>3 DEF CatTypes
<1>6. \A h \in CatHandler : req[h].op # "idle" => req[h].app \in App /\ app'[req[h].app] = app[req[h].app]
  BY <1>1, <1>2, <1>4 DEF CatTypes
<1>7. Progress'
  <2>1. \A h \in CatHandler : req[h].op \in {"rename", "insert"} =>
         app'[req[h].app].st = "none" /\ \A g \in CatHandler \ {h} : req[g].app # req[h].app
    BY <1>1, <1>6 DEF Progress
  <2>2. \A h \in CatHandler : req[h].op \in {"patch", "delete", "unlink", "upsert", "dispatch", "sent", "refused"} =>
         app'[req[h].app].st # "none"
    BY <1>1, <1>6 DEF Progress
  <2>3. \A h \in CatHandler : req[h].op = "unlink" =>
         /\ app'[req[h].app].st = "deleted"
         /\ \A g \in CatHandler \ {h} : ~(req[g].op = "unlink" /\ req[g].app = req[h].app)
    BY <1>1, <1>6 DEF Progress
  <2> QED BY <1>2, <2>1, <2>2, <2>3 DEF Progress
<1>8. Owned'
  <2>1. \A b \in Blob, h \in CatHandler : ReqClaims(h, b)' <=> ReqClaims(h, b)
    BY <1>2, <1>6 DEF ReqClaims
  <2>2. \A b \in Blob, y \in App : AppClaims(y, b)' => AppClaims(y, b)
    BY <1>4 DEF AppClaims
  <2>3. \A b \in Blob, y \in App : Claims(y, b)' => Claims(y, b)  BY <1>2, <2>1, <2>2 DEF Claims
  <2> QED BY <1>1, <1>2, <2>1, <2>2, <2>3 DEF Owned
<1>9. LoneInv' /\ InstInv' /\ LoneInstallIsServed'
  <2>1. \A y \in App : app[y].st # "none" => app'[y] = app[y]  BY <1>2, <1>4
  <2> QED BY <1>2, <2>1, LoneKeeps
<1>10. SuccessIsInstalled'
  BY <1>1, <1>2, <1>4 DEF SuccessIsInstalled, Entry
<1> QED BY <1>5, <1>7, <1>8, <1>9, <1>10 DEF CatIInv

\* The steps of an upload preserve the invariant.
LEMMA CatUploads ==
  ASSUME CatIInv, NEW h \in CatHandler
  PROVE  /\ \A x \in App, b \in Blob : StartUpload(h, x, b) => CatIInv'
         /\ RenameUpload(h) => CatIInv'
         /\ InsertUpload(h) => CatIInv'
<1>1. CatTypes /\ Progress /\ Owned /\ LoneInv /\ InstInv /\ SuccessIsInstalled /\ LoneInstallIsServed
  BY CatFacts
<1>2. \A b \in Blob \ moved, x \in App : Claims(x, b) => blob[b] # "none"
  BY <1>1 DEF Owned, Claims
<1>3. ASSUME NEW x \in App, NEW b \in Blob, StartUpload(h, x, b) PROVE CatIInv'
  <2> DEFINE q == [op |-> "rename", app |-> x, loc |-> b, lone |-> FALSE]
  <2>1. /\ req[h].op = "idle" /\ app[x].st = "none" /\ blob[b] = "none"
        /\ \A g \in CatHandler : req[g].app # x
        /\ blob' = [blob EXCEPT ![b] = "partial"] /\ req' = [req EXCEPT ![h] = q]
        /\ UNCHANGED <<app, row, online, inst, installed, moved>>
    BY <1>3 DEF StartUpload, do
  <2>2. q \in ReqRow /\ q.op = "rename" /\ q.app = x /\ q.loc = b /\ ~q.lone
    BY CatDo DEF CatOp, Locator
  <2> HIDE DEF q
  <2>3. ReqMoves(h, q)  BY <2>1, <2>2 DEF ReqMoves
  <2>4. /\ req'[h] = q /\ \A g \in CatHandler \ {h} : req'[g] = req[g]
        /\ req' \in [CatHandler -> ReqRow]
        /\ \A g \in CatHandler : req'[g].op # "idle" => req'[g].app \in App
        /\ \A g \in CatHandler : req'[g].op = "idle" => req'[g].app = Unnamed
    BY <2>3, CatOthers
  <2>5. CatTypes'  BY <1>1, <2>1, <2>4 DEF CatTypes
  <2>6. Progress'  BY <1>1, <2>1, <2>2, <2>4 DEF Progress
  <2>7. blob'[b] = "partial" /\ \A c \in Blob \ {b} : blob'[c] = blob[c]  BY <1>1, <2>1 DEF CatTypes
  <2>8. Owned'
    <3>1. \A c \in Blob, y \in App : AppClaims(y, c)' <=> AppClaims(y, c)  BY <2>1 DEF AppClaims
    <3>2. \A c \in Blob, g \in CatHandler \ {h} : ReqClaims(g, c)' <=> ReqClaims(g, c)  BY <2>1, <2>4 DEF ReqClaims
    <3>3. \A c \in Blob : ReqClaims(h, c)' => c = b  BY <2>2, <2>4 DEF ReqClaims
    <3>4. \A c \in Blob, y \in App : Claims(y, c)' => Claims(y, c) \/ (c = b /\ y = x)
      BY <2>2, <2>4, <3>1, <3>2, <3>3 DEF Claims
    <3>5. b \notin moved => \A y \in App : ~Claims(y, b)  BY <1>2, <2>1
    <3>6. ASSUME NEW c \in Blob \ moved
          PROVE  /\ \A y, z \in App : Claims(y, c)' /\ Claims(z, c)' => y = z
                 /\ \A y \in App : AppClaims(y, c)' => blob'[c] = "file"
                 /\ \A g \in CatHandler : ReqClaims(g, c)' => blob'[c] = IF req'[g].op = "rename" THEN "partial" ELSE "file"
      <4>1. CASE c = b
        <5>1. \A y \in App : ~AppClaims(y, c)'  BY <3>1, <3>5, <4>1 DEF Claims
        <5>2. \A g \in CatHandler \ {h} : ~ReqClaims(g, c)'
          <6> SUFFICES ASSUME NEW g \in CatHandler \ {h}, ReqClaims(g, c) PROVE FALSE
            BY <3>2
          <6>1. req[g].app \in App  BY <1>1 DEF ReqClaims, CatTypes
          <6> QED BY <3>5, <4>1, <6>1 DEF Claims
        <5> QED BY <2>2, <2>4, <2>7, <3>4, <3>5, <4>1, <5>1, <5>2
      <4>2. CASE c # b
        <5>1. ~ReqClaims(h, c)'  BY <3>3, <4>2
        <5> QED BY <1>1, <2>4, <2>7, <3>1, <3>2, <3>4, <4>2, <5>1 DEF Owned
      <4> QED BY <4>1, <4>2
    <3> QED BY <2>1, <3>6 DEF Owned
  <2>9. LoneInv' /\ InstInv' /\ LoneInstallIsServed'
    <3>1. \A g \in CatHandler : req'[g].lone => req'[g] = req[g]  BY <2>2, <2>4
    <3>2. \A g \in CatHandler : req'[g].op \in Assigning => req'[g] = req[g]  BY <2>2, <2>4 DEF Assigning
    <3> QED BY <2>1, <3>1, <3>2, LoneKeeps
  <2>10. SuccessIsInstalled'  BY <1>1, <2>1 DEF SuccessIsInstalled, Entry
  <2> QED BY <2>5, <2>6, <2>8, <2>9, <2>10 DEF CatIInv
<1>4. ASSUME RenameUpload(h) PROVE CatIInv'
  <2> DEFINE b == req[h].loc  x == req[h].app
  <2>1. req[h].op = "rename" /\ UNCHANGED <<app, row, online, inst, installed, moved>>
    BY <1>4 DEF RenameUpload
  <2>2. x \in App /\ req[h] \in ReqRow  BY <2>1, CatFacts
  <2>3. PICK q, f : /\ f \in {"none", "partial", "file"} /\ blob' = [blob EXCEPT ![b] = f] /\ ReqMoves(h, q)
                    /\ q.lone = FALSE \/ q.lone = req[h].lone
                    /\ \/ q.op = "insert" /\ q.app = x /\ q.loc = b /\ f = "file"
                       \/ q = NoReq
    <3>1. CASE blob' = [blob EXCEPT ![b] = "file"] /\ goto(h, "insert")
      <4> DEFINE r == [req[h] EXCEPT !.op = "insert"]
      <4>1. req' = [req EXCEPT ![h] = r]  BY <2>2, <3>1 DEF goto, ReqRow
      <4>2. r \in ReqRow /\ r.op = "insert" /\ r.app = x /\ r.loc = b /\ r.lone = req[h].lone
        BY <2>2 DEF ReqRow, CatOp
      <4> HIDE DEF r
      <4>3. ReqMoves(h, r)  BY <2>2, <4>1, <4>2 DEF ReqMoves
      <4> QED BY <3>1, <4>2, <4>3
    <3>2. CASE \E f \in {"none", "partial"} : blob' = [blob EXCEPT ![b] = f] /\ finish(h)
      <4>1. ReqMoves(h, NoReq)  BY <3>2, CatEmpty DEF finish, ReqMoves
      <4>2. NoReq.lone = FALSE  BY DEF NoReq
      <4> QED BY <3>2, <4>1, <4>2
    <3> QED BY <1>4, <3>1, <3>2 DEF RenameUpload
  <2>4. ~req[h].lone /\ ~q.lone  BY <1>1, <2>1, <2>3 DEF LoneInv
  <2>5. /\ req'[h] = q /\ \A g \in CatHandler \ {h} : req'[g] = req[g]
        /\ req' \in [CatHandler -> ReqRow]
        /\ \A g \in CatHandler : req'[g].op # "idle" => req'[g].app \in App
        /\ \A g \in CatHandler : req'[g].op = "idle" => req'[g].app = Unnamed
    BY <2>3, CatOthers
  <2>6. CatTypes'  BY <1>1, <2>1, <2>3, <2>5 DEF CatTypes
  <2>7. q.op \in {"insert", "idle"} /\ (q.op = "idle" => q.app \notin App)  BY <2>3, CatEmpty
  <2>8. \A g \in CatHandler \ {h} : req[g].op # "idle" => req[g].app \in App  BY <1>1 DEF CatTypes
  <2>9. Progress'
    <3>1. q.op = "insert" => q.app = req[h].app  BY <2>3, CatEmpty
    <3>2. q.op = "insert" => app[q.app].st = "none" /\ \A g \in CatHandler \ {h} : req[g].app # q.app
      BY <1>1, <2>1, <3>1 DEF Progress
    <3>3. app' = app  BY <2>1
    <3>4. \A g \in CatHandler \ {h} : req[g].op \in {"rename", "insert"} => q.app # req[g].app
      BY <1>1, <2>1, <2>7, <2>8, <3>1 DEF Progress
    <3> QED BY <1>1, <2>5, <2>7, <3>2, <3>3, <3>4 DEF Progress
  <2>10. \A c \in Blob \ {b} : blob'[c] = blob[c]  BY <1>1, <2>3 DEF CatTypes
  <2>11. b \in Blob => blob'[b] = f  BY <1>1, <2>3 DEF CatTypes
  <2> HIDE DEF b, x
  <2>12. Owned'
    <3>1. \A c \in Blob, y \in App : AppClaims(y, c)' <=> AppClaims(y, c)  BY <2>1 DEF AppClaims
    <3>2. \A c \in Blob, g \in CatHandler \ {h} : ReqClaims(g, c)' <=> ReqClaims(g, c)  BY <2>1, <2>5 DEF ReqClaims
    <3>3. \A c \in Blob : ReqClaims(h, c)' => c = b /\ q.op = "insert" /\ q.app = x /\ f = "file"
      BY <2>3, <2>5, CatEmpty DEF ReqClaims
    <3>4. \A c \in Blob : ReqClaims(h, c) <=> c = b  BY <2>1 DEF ReqClaims, b
    <3>5. \A c \in Blob, y \in App : Claims(y, c)' => Claims(y, c)
      BY <2>5, <3>1, <3>2, <3>3, <3>4 DEF Claims, x
    <3>6. ASSUME NEW c \in Blob \ moved
          PROVE  /\ \A y \in App : AppClaims(y, c)' => blob'[c] = "file"
                 /\ \A g \in CatHandler : ReqClaims(g, c)' => blob'[c] = IF req'[g].op = "rename" THEN "partial" ELSE "file"
      <4>1. CASE c # b
        BY <1>1, <2>5, <2>10, <3>1, <3>2, <3>3, <4>1 DEF Owned
      <4>2. CASE c = b
        <5>1. Claims(x, c)  BY <3>4, <4>2 DEF Claims, x
        <5>2. app[x].st = "none" /\ \A g \in CatHandler \ {h} : req[g].app # x
          BY <1>1, <2>1 DEF Progress, x
        <5>3. \A y \in App : ~AppClaims(y, c)'
          <6> SUFFICES ASSUME NEW y \in App, AppClaims(y, c) PROVE FALSE
            BY <3>1
          <6>1. y = x  BY <1>1, <2>2, <5>1 DEF Owned, Claims, x
          <6> QED BY <5>2, <6>1 DEF AppClaims
        <5>4. \A g \in CatHandler \ {h} : ~ReqClaims(g, c)'
          <6> SUFFICES ASSUME NEW g \in CatHandler \ {h}, ReqClaims(g, c) PROVE FALSE
            BY <3>2
          <6>1. req[g].app \in App  BY <1>1 DEF ReqClaims, CatTypes
          <6>2. req[g].app = x  BY <1>1, <2>2, <5>1, <6>1 DEF Owned, Claims, x
          <6> QED BY <5>2, <6>2
        <5> QED BY <2>5, <2>11, <3>3, <4>2, <5>3, <5>4
      <4> QED BY <4>1, <4>2
    <3> QED BY <1>1, <2>1, <3>5, <3>6 DEF Owned
  <2>13. LoneInv' /\ InstInv' /\ LoneInstallIsServed'
    <3>1. \A g \in CatHandler : req'[g].lone => req'[g] = req[g]  BY <2>4, <2>5
    <3>2. \A g \in CatHandler : req'[g].op \in Assigning => req'[g] = req[g]  BY <2>5, <2>7 DEF Assigning
    <3> QED BY <2>1, <3>1, <3>2, LoneKeeps
  <2>14. SuccessIsInstalled'  BY <1>1, <2>1 DEF SuccessIsInstalled, Entry
  <2> QED BY <2>6, <2>9, <2>12, <2>13, <2>14 DEF CatIInv
<1>5. ASSUME InsertUpload(h) PROVE CatIInv'
  <2>0. req[h].op = "insert" /\ finish(h) /\ UNCHANGED <<blob, row, online, inst, installed, moved>>
    BY <1>5 DEF InsertUpload
  <2>1. CASE UNCHANGED app  BY <2>0, <2>1, CatFinish
  <2>2. CASE app' = [app EXCEPT ![req[h].app] = [st |-> "on", loc |-> req[h].loc]]
    <3>0. PICK x \in App, b \in Locator : x = req[h].app /\ b = req[h].loc  BY <2>0, CatFacts
    <3>1. app' = [app EXCEPT ![x] = [st |-> "on", loc |-> b]]  BY <2>2, <3>0
    <3>2. app[x].st = "none" /\ \A g \in CatHandler \ {h} : req[g].app # x
      BY <1>1, <2>0, <3>0 DEF Progress
    <3>3. ReqMoves(h, NoReq)  BY <2>0, CatEmpty DEF finish, ReqMoves
    <3>4. /\ req'[h] = NoReq /\ \A g \in CatHandler \ {h} : req'[g] = req[g]
          /\ req' \in [CatHandler -> ReqRow]
          /\ \A g \in CatHandler : req'[g].op # "idle" => req'[g].app \in App
          /\ \A g \in CatHandler : req'[g].op = "idle" => req'[g].app = Unnamed
      BY <3>3, CatOthers
    <3>5. [st |-> "on", loc |-> b] \in AppRow  BY DEF AppRow
    <3>6. app'[x].st = "on" /\ app'[x].loc = b /\ \A y \in App \ {x} : app'[y] = app[y]
      BY <1>1, <3>1 DEF CatTypes
    <3>7. CatTypes'  BY <1>1, <2>0, <3>1, <3>4, <3>5 DEF CatTypes
    <3>8. \A g \in CatHandler \ {h} : req[g].op # "idle" => req[g].app \in App /\ app'[req[g].app] = app[req[g].app]
      BY <1>1, <3>2, <3>6 DEF CatTypes
    <3>9. Progress'
      <4>1. NoReq.op = "idle" /\ NoReq.app \notin App  BY CatEmpty
      <4>2. \A g \in CatHandler \ {h} : req[g].op \in {"rename", "insert"} =>
               app'[req[g].app].st = "none" /\ \A e \in CatHandler \ {g} : req'[e].app # req[g].app
        BY <1>1, <3>4, <3>8, <4>1 DEF Progress
      <4>3. \A g \in CatHandler \ {h} :
              /\ req[g].op \in {"patch", "delete", "unlink", "upsert", "dispatch", "sent", "refused"} =>
                   app'[req[g].app].st # "none"
              /\ req[g].op = "unlink" =>
                   /\ app'[req[g].app].st = "deleted"
                   /\ \A e \in CatHandler \ {g} : ~(req'[e].op = "unlink" /\ req'[e].app = req[g].app)
        BY <1>1, <3>4, <3>8, <4>1 DEF Progress
      <4> QED BY <3>4, <4>1, <4>2, <4>3 DEF Progress
    <3>10. Owned'
      <4>1. \A c \in Blob, g \in CatHandler \ {h} : ReqClaims(g, c)' <=> ReqClaims(g, c)
        BY <3>4, <3>8 DEF ReqClaims
      <4>2. \A c \in Blob : ~ReqClaims(h, c)'  BY <3>4, CatEmpty DEF ReqClaims
      <4>3. \A c \in Blob : ReqClaims(h, c) <=> c = b  BY <2>0, <3>0 DEF ReqClaims
      <4>4. \A c \in Blob, y \in App : AppClaims(y, c)' => AppClaims(y, c) \/ (y = x /\ c = b)
        BY <3>6 DEF AppClaims
      <4>5. \A c \in Blob, y \in App : Claims(y, c)' => Claims(y, c)
        BY <3>0, <3>4, <4>1, <4>2, <4>3, <4>4 DEF Claims
      <4>6. b \in Blob \ moved => blob[b] = "file"  BY <1>1, <2>0, <4>3 DEF Owned
      <4>7. \A c \in Blob \ moved, y \in App : AppClaims(y, c)' => blob[c] = "file"
        BY <1>1, <4>4, <4>6 DEF Owned
      <4>8. \A c \in Blob \ moved, g \in CatHandler : ReqClaims(g, c)' =>
              blob[c] = IF req'[g].op = "rename" THEN "partial" ELSE "file"
        BY <1>1, <3>4, <4>1, <4>2 DEF Owned
      <4> QED BY <1>1, <2>0, <4>5, <4>7, <4>8 DEF Owned
    <3>11. LoneInv' /\ InstInv' /\ LoneInstallIsServed'
      <4>1. \A y \in App : app[y].st # "none" => app'[y] = app[y]  BY <3>2, <3>6
      <4>2. \A g \in CatHandler : req'[g].lone => req'[g] = req[g]  BY <3>4, CatEmpty
      <4>3. \A g \in CatHandler : req'[g].op \in Assigning => req'[g] = req[g]  BY <3>4, CatEmpty DEF Assigning
      <4> QED BY <2>0, <4>1, <4>2, <4>3, LoneKeeps
    <3>12. SuccessIsInstalled'  BY <1>1, <2>0, <3>2, <3>6 DEF SuccessIsInstalled, Entry
    <3> QED BY <3>7, <3>9, <3>10, <3>11, <3>12 DEF CatIInv
  <2> QED BY <1>5, <2>1, <2>2 DEF InsertUpload
<1> QED BY <1>3, <1>4, <1>5

\* The edits of an entry preserve the invariant.
LEMMA CatEdits ==
  ASSUME CatIInv, NEW h \in CatHandler
  PROVE  /\ UpdatePatch(h) => CatIInv'
         /\ DeleteEntry(h) => CatIInv'
         /\ Unlink(h) => CatIInv'
<1>1. CatTypes /\ Progress /\ Owned /\ LoneInv /\ InstInv /\ SuccessIsInstalled /\ LoneInstallIsServed
  BY CatFacts
<1>2. \A g \in CatHandler : req[g].op # "idle" => req[g].app \in App  BY <1>1 DEF CatTypes
<1>3. ASSUME UpdatePatch(h) PROVE CatIInv'
  <2>0. req[h].op = "patch" /\ finish(h) /\ UNCHANGED <<blob, row, online, inst, installed, moved>>
        /\ app' = IF Entry(req[h].app) THEN [app EXCEPT ![req[h].app] = [st |-> "on", loc |-> req[h].loc]] ELSE app
    BY <1>3 DEF UpdatePatch
  <2>1. CASE ~Entry(req[h].app)  BY <2>0, <2>1, CatFinish
  <2>2. CASE Entry(req[h].app)
    <3>0. PICK x \in App, b \in Locator : x = req[h].app /\ b = req[h].loc  BY <2>0, CatFacts
    <3>1. app' = [app EXCEPT ![x] = [st |-> "on", loc |-> b]] /\ app[x].st = "on"  BY <2>0, <2>2, <3>0 DEF Entry
    <3>3. ReqMoves(h, NoReq)  BY <2>0, CatEmpty DEF finish, ReqMoves
    <3>4. /\ req'[h] = NoReq /\ \A g \in CatHandler \ {h} : req'[g] = req[g]
          /\ req' \in [CatHandler -> ReqRow]
          /\ \A g \in CatHandler : req'[g].op # "idle" => req'[g].app \in App
          /\ \A g \in CatHandler : req'[g].op = "idle" => req'[g].app = Unnamed
      BY <3>3, CatOthers
    <3>5. [st |-> "on", loc |-> b] \in AppRow  BY DEF AppRow
    <3>6. app'[x].loc = b /\ (\A y \in App \ {x} : app'[y] = app[y]) /\ \A y \in App : app'[y].st = app[y].st
      BY <1>1, <3>1 DEF CatTypes
    <3>7. CatTypes'  BY <1>1, <2>0, <3>1, <3>4, <3>5 DEF CatTypes
    <3>8. \A g \in CatHandler : req[g].op # "idle" => app'[req[g].app].st = app[req[g].app].st
      BY <1>2, <3>6
    <3>9. Progress'
      <4>1. NoReq.op = "idle" /\ NoReq.app \notin App  BY CatEmpty
      <4>2. \A g \in CatHandler \ {h} : req[g].op \in {"rename", "insert"} =>
               app'[req[g].app].st = "none" /\ \A e \in CatHandler \ {g} : req'[e].app # req[g].app
        BY <1>1, <1>2, <3>4, <3>8, <4>1 DEF Progress
      <4>3. \A g \in CatHandler \ {h} :
              /\ req[g].op \in {"patch", "delete", "unlink", "upsert", "dispatch", "sent", "refused"} =>
                   app'[req[g].app].st # "none"
              /\ req[g].op = "unlink" =>
                   /\ app'[req[g].app].st = "deleted"
                   /\ \A e \in CatHandler \ {g} : ~(req'[e].op = "unlink" /\ req'[e].app = req[g].app)
        BY <1>1, <3>4, <3>8, <4>1 DEF Progress
      <4> QED BY <3>4, <4>1, <4>2, <4>3 DEF Progress
    <3>10. Owned'
      <4>1. \A c \in Blob, g \in CatHandler \ {h} : ReqClaims(g, c)' <=> ReqClaims(g, c)
        BY <3>4, <3>8 DEF ReqClaims
      <4>2. \A c \in Blob : ~ReqClaims(h, c)'  BY <3>4, CatEmpty DEF ReqClaims
      <4>3. \A c \in Blob : ReqClaims(h, c) <=> c = b  BY <2>0, <3>0, <3>1 DEF ReqClaims
      <4>4. \A c \in Blob, y \in App : AppClaims(y, c)' => AppClaims(y, c) \/ (y = x /\ c = b)
        BY <3>6 DEF AppClaims
      <4>5. \A c \in Blob, y \in App : Claims(y, c)' => Claims(y, c)
        BY <3>0, <3>4, <4>1, <4>2, <4>3, <4>4 DEF Claims
      <4>6. b \in Blob \ moved => blob[b] = "file"  BY <1>1, <2>0, <4>3 DEF Owned
      <4>7. \A c \in Blob \ moved, y \in App : AppClaims(y, c)' => blob[c] = "file"
        BY <1>1, <4>4, <4>6 DEF Owned
      <4>8. \A c \in Blob \ moved, g \in CatHandler : ReqClaims(g, c)' =>
              blob[c] = IF req'[g].op = "rename" THEN "partial" ELSE "file"
        BY <1>1, <3>4, <4>1, <4>2 DEF Owned
      <4> QED BY <1>1, <2>0, <4>5, <4>7, <4>8 DEF Owned
    <3>11. LoneInv' /\ InstInv' /\ LoneInstallIsServed'
      <4>1. \A g \in CatHandler : req'[g].lone => req'[g] = req[g]  BY <3>4, CatEmpty
      <4>2. \A g \in CatHandler : req'[g].op \in Assigning => req'[g] = req[g]  BY <3>4, CatEmpty DEF Assigning
      <4> QED BY <2>0, <3>6, <4>1, <4>2, LoneKeeps
    <3>12. SuccessIsInstalled'  BY <1>1, <2>0, <3>6 DEF SuccessIsInstalled, Entry
    <3> QED BY <3>7, <3>9, <3>10, <3>11, <3>12 DEF CatIInv
  <2> QED BY <2>1, <2>2
<1>4. ASSUME DeleteEntry(h) PROVE CatIInv'
  <2>0. req[h].op = "delete" /\ UNCHANGED <<blob, online, inst, installed, moved>>
    BY <1>4 DEF DeleteEntry
  <2>1. CASE ~Entry(req[h].app)
    <3>1. finish(h) /\ UNCHANGED <<app, row>>  BY <1>4, <2>1 DEF DeleteEntry
    <3> QED BY <2>0, <3>1, CatFinish
  <2>2. CASE Entry(req[h].app)
    <3>0. PICK x \in App, b \in Locator : x = req[h].app /\ b = req[h].loc  BY <2>0, CatFacts
    <3>1. app' = [app EXCEPT ![x] = [st |-> "deleted", loc |-> "url"]] /\ row' = [row EXCEPT ![x] = "none"] /\ goto(h, "unlink")
          /\ app[x].st = "on"
      BY <1>4, <2>2, <3>0 DEF DeleteEntry, Entry
    <3> DEFINE q == [req[h] EXCEPT !.op = "unlink"]
    <3>2. req[h] \in ReqRow /\ app[x] \in AppRow /\ ~req[h].lone  BY <1>1, <2>0, CatFacts DEF LoneInv
    <3>a. q \in ReqRow /\ q.op = "unlink" /\ q.app = x /\ q.loc = b /\ ~q.lone
      BY <3>0, <3>2 DEF ReqRow, CatOp
    <3>b. req' = [req EXCEPT ![h] = q]  BY <3>1, <3>2 DEF goto, ReqRow
    <3> HIDE DEF q
    <3>3. ReqMoves(h, q)  BY <3>a, <3>b DEF ReqMoves
    <3>4. /\ req'[h] = q /\ \A g \in CatHandler \ {h} : req'[g] = req[g]
          /\ req' \in [CatHandler -> ReqRow]
          /\ \A g \in CatHandler : req'[g].op # "idle" => req'[g].app \in App
          /\ \A g \in CatHandler : req'[g].op = "idle" => req'[g].app = Unnamed
      BY <3>3, CatOthers
    <3>5. app' \in [App -> AppRow] /\ row' \in [App -> Statuses \cup {"none"}]
      BY <1>1, <3>1, <3>2 DEF CatTypes, AppRow, Locator
    <3>6. app'[x].st = "deleted" /\ row'[x] = "none" /\ \A y \in App \ {x} : app'[y] = app[y] /\ row'[y] = row[y]
      BY <1>1, <3>1, <3>2 DEF CatTypes, AppRow
    <3>7. CatTypes'  BY <1>1, <2>0, <3>4, <3>5 DEF CatTypes
    <3>8. \A g \in CatHandler : req[g].op # "idle" =>
            /\ app'[req[g].app].st = "none" <=> app[req[g].app].st = "none"
            /\ app[req[g].app].st = "deleted" => app'[req[g].app].st = "deleted"
            /\ app'[req[g].app].st = "on" => app[req[g].app].st = "on"
      BY <1>2, <3>1, <3>6
    <3>9. Progress'
      <4>1. q.op = "unlink" /\ q.app = x /\ req[h].app = x /\ req[h].op = "delete"  BY <3>a, <3>0, <2>0
      <4>2. \A g \in CatHandler \ {h} : req[g].op \in {"rename", "insert"} =>
               app'[req[g].app].st = "none" /\ \A e \in CatHandler \ {g} : req'[e].app # req[g].app
        BY <1>1, <1>2, <3>4, <3>8, <4>1 DEF Progress
      <4>3. \A g \in CatHandler \ {h} :
              /\ req[g].op \in {"patch", "delete", "unlink", "upsert", "dispatch", "sent", "refused"} =>
                   app'[req[g].app].st # "none"
              /\ req[g].op = "unlink" => app'[req[g].app].st = "deleted"
              /\ req[g].op = "unlink" => req[g].app # x
        BY <1>1, <3>1, <3>4, <3>8 DEF Progress
      <4>4. \A g \in CatHandler \ {h} : req[g].op = "unlink" =>
              \A e \in CatHandler \ {g} : ~(req'[e].op = "unlink" /\ req'[e].app = req[g].app)
        BY <1>1, <3>4, <4>1, <4>3 DEF Progress
      <4>5. \A e \in CatHandler \ {h} : ~(req'[e].op = "unlink" /\ req'[e].app = x)
        BY <3>4, <4>3
      <4> QED BY <3>4, <3>6, <4>1, <4>2, <4>3, <4>4, <4>5 DEF Progress
    <3>10. Owned'
      <4>1. \A c \in Blob, g \in CatHandler \ {h} : ReqClaims(g, c)' => ReqClaims(g, c)
        BY <3>4, <3>8 DEF ReqClaims
      <4>2. \A c \in Blob : ReqClaims(h, c)' <=> c = b  BY <3>4, <3>a DEF ReqClaims
      <4>3. \A c \in Blob : ReqClaims(h, c) <=> c = b  BY <2>0, <3>0, <3>1 DEF ReqClaims
      <4>4. \A c \in Blob, y \in App : AppClaims(y, c)' => AppClaims(y, c)
        BY <3>6 DEF AppClaims
      <4>5. \A c \in Blob, y \in App : Claims(y, c)' => Claims(y, c)
        BY <3>0, <3>4, <3>a, <4>1, <4>2, <4>3, <4>4 DEF Claims
      <4>6. \A c \in Blob \ moved, y \in App : AppClaims(y, c)' => blob[c] = "file"
        BY <1>1, <4>4 DEF Owned
      <4>7. \A c \in Blob \ moved, g \in CatHandler : ReqClaims(g, c)' =>
              blob[c] = IF req'[g].op = "rename" THEN "partial" ELSE "file"
        BY <1>1, <2>0, <3>4, <3>a, <4>1, <4>2, <4>3 DEF Owned
      <4> QED BY <1>1, <2>0, <4>5, <4>6, <4>7 DEF Owned
    <3>11. LoneInv' /\ InstInv' /\ LoneInstallIsServed'
      <4>1. \A g \in CatHandler : req'[g].lone => req'[g] = req[g]  BY <3>4, <3>a
      <4>2. \A g \in CatHandler : req'[g].op \in Assigning => req'[g] = req[g]  BY <3>4, <3>a DEF Assigning
      <4> QED BY <2>0, <3>6, <4>1, <4>2, LoneKeeps
    <3>12. SuccessIsInstalled'  BY <1>1, <2>0, <3>6 DEF SuccessIsInstalled, Entry
    <3> QED BY <3>7, <3>9, <3>10, <3>11, <3>12 DEF CatIInv
  <2> QED BY <2>1, <2>2
<1>5. ASSUME Unlink(h) PROVE CatIInv'
  <2>0. req[h].op = "unlink" /\ finish(h) /\ UNCHANGED <<app, row, online, inst, installed, moved>>
    BY <1>5 DEF Unlink
  <2>1. CASE blob' = blob  BY <2>0, <2>1, CatFinish
  <2>2. CASE req[h].loc \in Blob /\ blob' = [blob EXCEPT ![req[h].loc] = "none"]
    <3>0. PICK x \in App, b \in Blob : x = req[h].app /\ b = req[h].loc  BY <2>0, <2>2, CatFacts
    <3>3. ReqMoves(h, NoReq)  BY <2>0, CatEmpty DEF finish, ReqMoves
    <3>4. /\ req'[h] = NoReq /\ \A g \in CatHandler \ {h} : req'[g] = req[g]
          /\ req' \in [CatHandler -> ReqRow]
          /\ \A g \in CatHandler : req'[g].op # "idle" => req'[g].app \in App
          /\ \A g \in CatHandler : req'[g].op = "idle" => req'[g].app = Unnamed
      BY <3>3, CatOthers
    <3>5. blob' \in [Blob -> {"none", "partial", "file"}] /\ \A c \in Blob \ {b} : blob'[c] = blob[c]
      BY <1>1, <2>2, <3>0 DEF CatTypes
    <3>6. CatTypes'  BY <1>1, <2>0, <3>4, <3>5 DEF CatTypes
    <3>7. NoReq.op = "idle" /\ NoReq.app \notin App  BY CatEmpty
    <3>8. Progress'  BY <1>1, <1>2, <2>0, <3>4, <3>7 DEF Progress
    <3>9. Owned'
      <4>1. \A c \in Blob, g \in CatHandler \ {h} : ReqClaims(g, c)' <=> ReqClaims(g, c)
        BY <2>0, <3>4 DEF ReqClaims
      <4>2. \A c \in Blob : ~ReqClaims(h, c)'  BY <3>4, CatEmpty DEF ReqClaims
      <4>3. ReqClaims(h, b) /\ Claims(x, b)  BY <2>0, <3>0 DEF ReqClaims, Claims
      <4>4. \A c \in Blob, y \in App : AppClaims(y, c)' <=> AppClaims(y, c)  BY <2>0 DEF AppClaims
      <4>5. \A c \in Blob, y \in App : Claims(y, c)' => Claims(y, c)
        BY <3>4, <4>1, <4>2, <4>4 DEF Claims
      <4>6. app[x].st = "deleted" /\ \A g \in CatHandler \ {h} : ~(req[g].op = "unlink" /\ req[g].app = x)
        BY <1>1, <2>0, <3>0 DEF Progress
      <4>7. ASSUME b \notin moved PROVE (\A y \in App : ~AppClaims(y, b)') /\ \A g \in CatHandler : ~ReqClaims(g, b)'
        <5>1. \A y \in App : Claims(y, b) => y = x  BY <1>1, <4>3, <4>7 DEF Owned
        <5>2. \A y \in App : ~AppClaims(y, b)  BY <5>1, <4>6 DEF Claims, AppClaims
        <5>3. \A g \in CatHandler \ {h} : ~ReqClaims(g, b)
          <6> SUFFICES ASSUME NEW g \in CatHandler \ {h}, ReqClaims(g, b) PROVE FALSE
            OBVIOUS
          <6>1. req[g].app \in App /\ req[g].op # "idle"  BY <1>2 DEF ReqClaims
          <6>2. req[g].app = x  BY <5>1, <6>1 DEF Claims
          <6>3. req[g].op \in {"rename", "insert"}  BY <4>6, <6>2 DEF ReqClaims
          <6> QED BY <1>1, <4>6, <6>2, <6>3 DEF Progress
        <5> QED BY <4>1, <4>2, <4>4, <5>2, <5>3
      <4>8. ASSUME NEW c \in Blob \ moved
            PROVE  /\ \A y \in App : AppClaims(y, c)' => blob'[c] = "file"
                   /\ \A g \in CatHandler : ReqClaims(g, c)' => blob'[c] = IF req'[g].op = "rename" THEN "partial" ELSE "file"
        <5>1. CASE c = b  BY <4>7, <5>1
        <5>2. CASE c # b  BY <1>1, <3>4, <3>5, <4>1, <4>2, <4>4, <5>2 DEF Owned
        <5> QED BY <5>1, <5>2
      <4> QED BY <1>1, <2>0, <4>5, <4>8 DEF Owned
    <3>10. LoneInv' /\ InstInv' /\ LoneInstallIsServed'
      <4>1. \A g \in CatHandler : req'[g].lone => req'[g] = req[g]  BY <3>4, CatEmpty
      <4>2. \A g \in CatHandler : req'[g].op \in Assigning => req'[g] = req[g]  BY <3>4, CatEmpty DEF Assigning
      <4> QED BY <2>0, <4>1, <4>2, LoneKeeps
    <3>11. SuccessIsInstalled'  BY <1>1, <2>0 DEF SuccessIsInstalled, Entry
    <3> QED BY <3>6, <3>8, <3>9, <3>10, <3>11 DEF CatIInv
  <2> QED BY <1>5, <2>1, <2>2 DEF Unlink
<1> QED BY <1>3, <1>4, <1>5

\* Assignments go on, or requests end, while the catalogue and its files stay: what is said of
\* those stays true.
LEMMA DiskKeeps ==
  ASSUME CatIInv, UNCHANGED <<app, blob, moved>>,
         \A g \in CatHandler :
           \/ req'[g].op = req[g].op /\ req'[g].app = req[g].app /\ req'[g].loc = req[g].loc
           \/ req'[g] = NoReq
           \/ /\ req[g].op \in {"upsert", "dispatch"} /\ req'[g].op \in Assigning
              /\ req'[g].app = req[g].app
  PROVE  Progress' /\ Owned'
<1>1. CatTypes /\ Progress /\ Owned  BY CatFacts
<1>2. NoReq.op = "idle" /\ NoReq.app \notin App  BY CatEmpty
<1>3. \A g \in CatHandler : req[g].op # "idle" => req[g].app \in App  BY <1>1 DEF CatTypes
<1>4. \A g \in CatHandler : req'[g].op \notin Assigning \cup {"idle"} =>
        req'[g].op = req[g].op /\ req'[g].app = req[g].app /\ req'[g].loc = req[g].loc
  BY <1>2 DEF Assigning
<1>5. \A g \in CatHandler : req'[g].app = req[g].app \/ req'[g].app \notin App  BY <1>2
<1>6. \A g \in CatHandler : req'[g].op \in Assigning =>
        req'[g].app = req[g].app /\ req[g].op \in {"upsert", "dispatch", "sent", "refused"}
  BY <1>2 DEF Assigning
<1>7. Progress'
  <2>1. \A h \in CatHandler : req'[h].op \in {"rename", "insert"} =>
         app[req'[h].app].st = "none" /\ \A g \in CatHandler \ {h} : req'[g].app # req'[h].app
    BY <1>1, <1>3, <1>4, <1>5 DEF Progress, Assigning
  <2>2. \A h \in CatHandler : req'[h].op \in {"patch", "delete", "unlink", "upsert", "dispatch", "sent", "refused"} =>
         app[req'[h].app].st # "none"
    BY <1>1, <1>4, <1>6 DEF Progress, Assigning
  <2>3. \A h \in CatHandler : req'[h].op = "unlink" =>
         /\ app[req'[h].app].st = "deleted"
         /\ \A g \in CatHandler \ {h} : ~(req'[g].op = "unlink" /\ req'[g].app = req'[h].app)
    BY <1>1, <1>4 DEF Progress, Assigning
  <2> QED BY <2>1, <2>2, <2>3 DEF Progress
<1>8. Owned'
  <2>1. \A c \in Blob, g \in CatHandler : ReqClaims(g, c)' => ReqClaims(g, c) /\ req'[g].app = req[g].app
                                                            /\ req'[g].op = req[g].op
    BY <1>4 DEF ReqClaims, Assigning
  <2>2. \A c \in Blob, y \in App : AppClaims(y, c)' <=> AppClaims(y, c)  BY DEF AppClaims
  <2>3. \A c \in Blob, y \in App : Claims(y, c)' => Claims(y, c)  BY <2>1, <2>2 DEF Claims
  <2>4. \A c \in Blob \ moved, y \in App : AppClaims(y, c)' => blob[c] = "file"
    BY <1>1, <2>2 DEF Owned
  <2>5. \A c \in Blob \ moved, g \in CatHandler : ReqClaims(g, c)' =>
          blob[c] = IF req'[g].op = "rename" THEN "partial" ELSE "file"
    BY <1>1, <2>1 DEF Owned
  <2> QED BY <1>1, <2>3, <2>4, <2>5 DEF Owned
<1> QED BY <1>7, <1>8

\* The steps of an assignment preserve the invariant.
LEMMA CatAssigns ==
  ASSUME CatIInv, NEW h \in CatHandler
  PROVE  /\ UpsertAssign(h) => CatIInv'
         /\ DispatchAssign(h) => CatIInv'
         /\ StoreAssign(h) => CatIInv'
<1>1. CatTypes /\ Progress /\ Owned /\ LoneInv /\ InstInv /\ SuccessIsInstalled /\ LoneInstallIsServed
  BY CatFacts
<1>2. \A g \in CatHandler : req[g].op # "idle" => req[g].app \in App  BY <1>1 DEF CatTypes
<1>3. ASSUME UpsertAssign(h) PROVE CatIInv'
  <2>0. req[h].op = "upsert" /\ UNCHANGED <<app, blob, online, installed, moved>>
    BY <1>3 DEF UpsertAssign
  <2>1. CASE ~Entry(req[h].app)
    <3>1. finish(h) /\ UNCHANGED <<row, inst>>  BY <1>3, <2>1 DEF UpsertAssign
    <3> QED BY <2>0, <3>1, CatFinish
  <2>2. CASE Entry(req[h].app)
    <3> DEFINE x == req[h].app
               others == {g \in CatHandler : req[g].app = x /\ req[g].op \in {"dispatch", "sent", "refused"}}
               running == {k \in Install : inst[k].app = x}
    <3>0. x \in App /\ x = req[h].app  BY <2>0, CatFacts
    <3>1. /\ row' = [row EXCEPT ![x] = "pending"]
          /\ req' = [g \in CatHandler |->
                       IF g = h THEN [req[h] EXCEPT !.op = "dispatch", !.lone = (req[h].loc # "url" /\ others = {} /\ running = {})]
                       ELSE [req[g] EXCEPT !.lone = req[g].lone /\ g \notin others]]
          /\ inst' = [k \in Install |-> [inst[k] EXCEPT !.lone = inst[k].lone /\ k \notin running]]
      BY <1>3, <2>2 DEF UpsertAssign
    <3> USE DEF Assigning
    <3> HIDE DEF x
    <3>2. \A g \in CatHandler : req[g] \in ReqRow  BY CatFacts
    <3>3. \A k \in Install : inst[k] \in InstRow  BY CatFacts
    <3>4. \A g \in CatHandler \ {h} :
            /\ req'[g] \in ReqRow /\ req'[g].op = req[g].op /\ req'[g].app = req[g].app /\ req'[g].loc = req[g].loc
            /\ req'[g].lone <=> (req[g].lone /\ g \notin others)
      BY <3>1, <3>2 DEF ReqRow
    <3>5. /\ req'[h] \in ReqRow /\ req'[h].op = "dispatch" /\ req'[h].app = x
          /\ req'[h].lone => others = {} /\ running = {}
      BY <3>0, <3>1, <3>2 DEF ReqRow, CatOp
    <3>6. \A k \in Install :
            /\ inst'[k] \in InstRow /\ inst'[k].st = inst[k].st /\ inst'[k].app = inst[k].app
            /\ inst'[k].denied = inst[k].denied
            /\ inst'[k].lone <=> (inst[k].lone /\ k \notin running)
      BY <3>1, <3>3 DEF InstRow
    <3>7. row'[x] = "pending" /\ \A y \in App \ {x} : row'[y] = row[y]  BY <1>1, <3>0, <3>1 DEF CatTypes
    <3>8. row' \in [App -> Statuses \cup {"none"}]  BY <1>1, <3>0, <3>1 DEF CatTypes, Statuses
    <3>9. CatTypes'
      <4>1. req' \in [CatHandler -> ReqRow]  BY <3>1, <3>4, <3>5
      <4>2. inst' \in [Install -> InstRow]  BY <3>1, <3>6
      <4>3. \A g \in CatHandler : /\ req'[g].op # "idle" => req'[g].app \in App
                                  /\ req'[g].op = "idle" => req'[g].app = Unnamed
        BY <1>1, <3>0, <3>4, <3>5 DEF CatTypes
      <4>4. \A k \in Install : /\ inst'[k].st # "none" => inst'[k].app \in App
                               /\ inst'[k].st = "none" => inst'[k].app = Unnamed
        BY <1>1, <3>6 DEF CatTypes
      <4> QED BY <1>1, <2>0, <3>8, <4>1, <4>2, <4>3, <4>4 DEF CatTypes
    <3>10. Progress' /\ Owned'
      <4>1. \A g \in CatHandler :
              \/ req'[g].op = req[g].op /\ req'[g].app = req[g].app /\ req'[g].loc = req[g].loc
              \/ req'[g] = NoReq
              \/ /\ req[g].op \in {"upsert", "dispatch"} /\ req'[g].op \in Assigning
                 /\ req'[g].app = req[g].app
        BY <2>0, <3>0, <3>4, <3>5 DEF Assigning
      <4> QED BY <2>0, <4>1, DiskKeeps
    <3>11. LoneInv'
      <4>1. ASSUME NEW g \in CatHandler, req'[g].lone
            PROVE  /\ req'[g].op = "dispatch" /\ Open(app[req'[g].app], row'[req'[g].app])
                   /\ \A e \in CatHandler \ {g} : ~(req'[e].app = req'[g].app /\ req'[e].op \in Assigning)
                   /\ \A k \in Install : inst'[k].app # req'[g].app
        <5>1. CASE g = h
          <6>1. others = {} /\ running = {}  BY <3>5, <4>1, <5>1
          <6>2. Open(app[x], row'[x])  BY <3>7 DEF Open
          <6> QED BY <3>4, <3>5, <3>6, <5>1, <6>1, <6>2
        <5>2. CASE g # h
          <6>1. req[g].lone /\ g \notin others  BY <3>4, <4>1, <5>2
          <6>2. req[g].op = "dispatch" /\ Open(app[req[g].app], row[req[g].app])
                /\ (\A e \in CatHandler \ {g} : ~(req[e].app = req[g].app /\ req[e].op \in Assigning))
                /\ \A k \in Install : inst[k].app # req[g].app
            BY <1>1, <6>1 DEF LoneInv
          <6>3. req[g].app # x /\ req[g].app \in App  BY <1>2, <6>1, <6>2 DEF Assigning
          <6> QED BY <3>4, <3>5, <3>6, <3>7, <5>2, <6>2, <6>3
        <5> QED BY <5>1, <5>2
      <4>2. ASSUME NEW k \in Install, inst'[k].lone
            PROVE  /\ inst'[k].st \in {"wire", "get"} /\ Open(app[inst'[k].app], row'[inst'[k].app])
                   /\ \A g \in CatHandler : req'[g].app = inst'[k].app /\ req'[g].op \in Assigning => req'[g].op = "sent"
                   /\ \A j \in Install \ {k} : inst'[j].app # inst'[k].app
        <5>1. inst[k].lone /\ inst[k].app # x  BY <3>6, <4>2
        <5>2. inst[k].st \in {"wire", "get"} /\ Open(app[inst[k].app], row[inst[k].app])
              /\ (\A g \in CatHandler : req[g].app = inst[k].app /\ req[g].op \in Assigning => req[g].op = "sent")
              /\ \A j \in Install \ {k} : inst[j].app # inst[k].app
          BY <1>1, <5>1 DEF LoneInv
        <5>3. inst[k].app \in App  BY <1>1, <5>2 DEF CatTypes
        <5> QED BY <3>4, <3>5, <3>6, <3>7, <5>1, <5>2, <5>3
      <4> QED BY <2>0, <4>1, <4>2 DEF LoneInv
    <3>12. InstInv' /\ LoneInstallIsServed'
      BY <1>1, <2>0, <3>6 DEF InstInv, LoneInstallIsServed
    <3>13. SuccessIsInstalled'
      BY <1>1, <2>0, <2>2, <3>0, <3>7 DEF SuccessIsInstalled, Entry
    <3> QED BY <3>9, <3>10, <3>11, <3>12, <3>13 DEF CatIInv
  <2> QED BY <2>1, <2>2
<1>4. ASSUME DispatchAssign(h) PROVE CatIInv'
  <2>0. req[h].op = "dispatch" /\ UNCHANGED <<app, blob, row, online, installed, moved>>
    BY <1>4 DEF DispatchAssign
  <2>1. PICK x \in App : x = req[h].app  BY <1>2, <2>0
  <2>2. ASSUME NEW op \in {"sent", "refused"}, do(h, op, x, "url")
        PROVE  /\ req'[h].op = op /\ req'[h].app = x /\ ~req'[h].lone
               /\ \A g \in CatHandler \ {h} : req'[g] = req[g]
               /\ req' \in [CatHandler -> ReqRow]
               /\ \A g \in CatHandler : /\ req'[g].op # "idle" => req'[g].app \in App
                                        /\ req'[g].op = "idle" => req'[g].app = Unnamed
               /\ Progress' /\ Owned'
    <3> DEFINE q == [op |-> op, app |-> x, loc |-> "url", lone |-> FALSE]
    <3>1. q \in ReqRow /\ q.op = op /\ q.app = x /\ ~q.lone  BY CatDo DEF CatOp, Locator
    <3>2. req' = [req EXCEPT ![h] = q]  BY <2>2 DEF do
    <3> HIDE DEF q
    <3>3. ReqMoves(h, q)  BY <3>1, <3>2 DEF ReqMoves
    <3>4. /\ req'[h] = q /\ \A g \in CatHandler \ {h} : req'[g] = req[g]
          /\ req' \in [CatHandler -> ReqRow]
          /\ \A g \in CatHandler : req'[g].op # "idle" => req'[g].app \in App
          /\ \A g \in CatHandler : req'[g].op = "idle" => req'[g].app = Unnamed
      BY <3>3, CatOthers
    <3>5. \A g \in CatHandler :
              \/ req'[g].op = req[g].op /\ req'[g].app = req[g].app /\ req'[g].loc = req[g].loc
              \/ req'[g] = NoReq
              \/ /\ req[g].op \in {"upsert", "dispatch"} /\ req'[g].op \in Assigning
                 /\ req'[g].app = req[g].app
      BY <2>0, <2>1, <3>1, <3>4 DEF Assigning
    <3> QED BY <2>0, <3>1, <3>4, <3>5, DiskKeeps
  <2>a. \A k \in Install : inst[k].lone => inst[k].app # x
    BY <1>1, <2>0, <2>1 DEF LoneInv, Assigning
  <2>3. ASSUME do(h, "refused", x, "url"), inst' = inst PROVE CatIInv'
    <3>1. /\ req'[h].op = "refused" /\ req'[h].app = x /\ ~req'[h].lone
          /\ \A g \in CatHandler \ {h} : req'[g] = req[g]
          /\ req' \in [CatHandler -> ReqRow]
          /\ \A g \in CatHandler : /\ req'[g].op # "idle" => req'[g].app \in App
                                   /\ req'[g].op = "idle" => req'[g].app = Unnamed
          /\ Progress' /\ Owned'
      BY <2>2, <2>3
    <3>2. CatTypes'  BY <1>1, <2>0, <2>3, <3>1 DEF CatTypes
    <3>3. LoneInv'
      <4>1. \A g \in CatHandler : req'[g].lone =>
              /\ req'[g].op = "dispatch" /\ Open(app[req'[g].app], row[req'[g].app])
              /\ \A e \in CatHandler \ {g} : ~(req'[e].app = req'[g].app /\ req'[e].op \in Assigning)
              /\ \A k \in Install : inst[k].app # req'[g].app
        BY <1>1, <2>0, <2>1, <3>1 DEF LoneInv, Assigning
      <4>2. \A k \in Install : inst[k].lone =>
              /\ inst[k].st \in {"wire", "get"} /\ Open(app[inst[k].app], row[inst[k].app])
              /\ \A g \in CatHandler : req'[g].app = inst[k].app /\ req'[g].op \in Assigning => req'[g].op = "sent"
              /\ \A j \in Install \ {k} : inst[j].app # inst[k].app
        BY <1>1, <2>a, <3>1 DEF LoneInv
      <4> QED BY <2>0, <2>3, <4>1, <4>2 DEF LoneInv
    <3>4. InstInv' /\ LoneInstallIsServed' /\ SuccessIsInstalled'
      BY <1>1, <2>0, <2>3 DEF InstInv, LoneInstallIsServed, SuccessIsInstalled, Entry
    <3> QED BY <3>1, <3>2, <3>3, <3>4 DEF CatIInv
  <2>4. ASSUME do(h, "sent", x, "url"), NEW k \in Install, inst[k].st = "none",
               inst' = [inst EXCEPT ![k] = [st |-> "wire", app |-> x, url |-> req[h].loc = "url", own |-> TRUE,
                                             denied |-> FALSE, lone |-> req[h].lone]]
        PROVE  CatIInv'
    <3>1. /\ req'[h].op = "sent" /\ req'[h].app = x /\ ~req'[h].lone
          /\ \A g \in CatHandler \ {h} : req'[g] = req[g]
          /\ req' \in [CatHandler -> ReqRow]
          /\ \A g \in CatHandler : /\ req'[g].op # "idle" => req'[g].app \in App
                                   /\ req'[g].op = "idle" => req'[g].app = Unnamed
          /\ Progress' /\ Owned'
      BY <2>2, <2>4
    <3> DEFINE m == [st |-> "wire", app |-> x, url |-> req[h].loc = "url", own |-> TRUE,
                     denied |-> FALSE, lone |-> req[h].lone]
    <3>2. m \in InstRow /\ m.st = "wire" /\ m.app = x /\ ~m.denied /\ (m.lone <=> req[h].lone)
      <4>1. req[h].lone \in BOOLEAN  BY CatFacts DEF ReqRow
      <4> QED BY <4>1 DEF InstRow
    <3>3. inst' = [inst EXCEPT ![k] = m]  BY <2>4
    <3> HIDE DEF m
    <3>4. inst'[k] = m /\ (\A j \in Install \ {k} : inst'[j] = inst[j]) /\ inst' \in [Install -> InstRow]
      BY <1>1, <3>2, <3>3 DEF CatTypes
    <3>5. CatTypes'  BY <1>1, <2>0, <3>1, <3>2, <3>4 DEF CatTypes
    <3>6. app[x].st # "none" /\ inst[k].app \notin App  BY <1>1, <2>0, <2>1, <2>4 DEF Progress, CatTypes
    <3>7. LoneInv'
      <4>1. \A g \in CatHandler : req'[g].lone =>
              /\ req'[g].op = "dispatch" /\ Open(app[req'[g].app], row[req'[g].app])
              /\ \A e \in CatHandler \ {g} : ~(req'[e].app = req'[g].app /\ req'[e].op \in Assigning)
              /\ \A j \in Install : inst[j].app # req'[g].app
              /\ req'[g].app # x
        BY <1>1, <2>0, <2>1, <3>1 DEF LoneInv, Assigning
      <4>2. \A j \in Install \ {k} : inst[j].lone =>
              /\ inst[j].st \in {"wire", "get"} /\ Open(app[inst[j].app], row[inst[j].app])
              /\ \A g \in CatHandler : req'[g].app = inst[j].app /\ req'[g].op \in Assigning => req'[g].op = "sent"
              /\ \A i \in Install \ {j} : inst[i].app # inst[j].app
              /\ inst[j].app # x
        BY <1>1, <2>a, <3>1 DEF LoneInv
      <4>3. req[h].lone =>
              /\ Open(app[x], row[x])
              /\ \A g \in CatHandler \ {h} : ~(req[g].app = x /\ req[g].op \in Assigning)
              /\ \A j \in Install : inst[j].app # x
        BY <1>1, <2>1 DEF LoneInv
      <4>4. \A g \in CatHandler : req'[g].lone => \A j \in Install : inst'[j].app # req'[g].app
        BY <3>2, <3>4, <4>1
      <4>5. ASSUME NEW j \in Install, inst'[j].lone
            PROVE  /\ inst'[j].st \in {"wire", "get"} /\ Open(app[inst'[j].app], row[inst'[j].app])
                   /\ \A g \in CatHandler : req'[g].app = inst'[j].app /\ req'[g].op \in Assigning => req'[g].op = "sent"
                   /\ \A i \in Install \ {j} : inst'[i].app # inst'[j].app
        <5>1. CASE j = k  BY <3>1, <3>2, <3>4, <4>3, <4>5, <5>1
        <5>2. CASE j # k  BY <3>2, <3>4, <4>2, <4>5, <5>2
        <5> QED BY <5>1, <5>2
      <4> QED BY <2>0, <4>1, <4>4, <4>5 DEF LoneInv
    <3>8. InstInv' /\ LoneInstallIsServed'
      BY <1>1, <2>0, <3>2, <3>4, <3>6 DEF InstInv, LoneInstallIsServed
    <3>9. SuccessIsInstalled'  BY <1>1, <2>0 DEF SuccessIsInstalled, Entry
    <3> QED BY <3>1, <3>5, <3>7, <3>8, <3>9 DEF CatIInv
  <2> QED BY <1>4, <2>1, <2>3, <2>4 DEF DispatchAssign
<1>5. ASSUME StoreAssign(h) PROVE CatIInv'
  <2>0. req[h].op \in {"sent", "refused"} /\ finish(h) /\ UNCHANGED <<app, blob, online, inst, installed, moved>>
    BY <1>5 DEF StoreAssign
  <2>1. CASE row' = row  BY <2>0, <2>1, CatFinish
  <2>2. PICK x \in App : x = req[h].app  BY <1>2, <2>0
  <2>3. CASE row[x] # "none" /\ row' = [row EXCEPT ![x] = IF req[h].op = "sent" THEN "installing" ELSE "failed"]
    <3>1. ReqMoves(h, NoReq)  BY <2>0, CatEmpty DEF finish, ReqMoves
    <3>2. /\ req'[h] = NoReq /\ \A g \in CatHandler \ {h} : req'[g] = req[g]
          /\ req' \in [CatHandler -> ReqRow]
          /\ \A g \in CatHandler : req'[g].op # "idle" => req'[g].app \in App
          /\ \A g \in CatHandler : req'[g].op = "idle" => req'[g].app = Unnamed
      BY <3>1, CatOthers
    <3>3. row' \in [App -> Statuses \cup {"none"}] /\ (\A y \in App \ {x} : row'[y] = row[y])
          /\ row'[x] = IF req[h].op = "sent" THEN "installing" ELSE "failed"
      BY <1>1, <2>3 DEF CatTypes, Statuses
    <3>4. CatTypes'  BY <1>1, <2>0, <3>2, <3>3 DEF CatTypes
    <3>5. Progress' /\ Owned'  BY <2>0, <3>2, DiskKeeps
    <3>6. req[h].op \in Assigning /\ req[h].app = x /\ NoReq.op \notin Assigning /\ ~NoReq.lone
      BY <2>0, <2>2, CatEmpty DEF Assigning
    <3>7. LoneInv'
      <4>1. ASSUME NEW g \in CatHandler, req'[g].lone
            PROVE  /\ req'[g].op = "dispatch" /\ Open(app[req'[g].app], row'[req'[g].app])
                   /\ \A e \in CatHandler \ {g} : ~(req'[e].app = req'[g].app /\ req'[e].op \in Assigning)
                   /\ \A k \in Install : inst[k].app # req'[g].app
        <5>1. g # h /\ req'[g] = req[g] /\ req[g].lone  BY <3>2, <3>6, <4>1
        <5>2. req[g].op = "dispatch" /\ Open(app[req[g].app], row[req[g].app])
              /\ (\A e \in CatHandler \ {g} : ~(req[e].app = req[g].app /\ req[e].op \in Assigning))
              /\ \A k \in Install : inst[k].app # req[g].app
          BY <1>1, <5>1 DEF LoneInv
        <5>3. req[g].app # x /\ req[g].app \in App  BY <1>2, <3>6, <5>1, <5>2
        <5> QED BY <3>2, <3>3, <3>6, <5>1, <5>2, <5>3
      <4>2. ASSUME NEW k \in Install, inst[k].lone
            PROVE  /\ inst[k].st \in {"wire", "get"} /\ Open(app[inst[k].app], row'[inst[k].app])
                   /\ \A g \in CatHandler : req'[g].app = inst[k].app /\ req'[g].op \in Assigning => req'[g].op = "sent"
                   /\ \A j \in Install \ {k} : inst[j].app # inst[k].app
        <5>1. inst[k].st \in {"wire", "get"} /\ Open(app[inst[k].app], row[inst[k].app])
              /\ (\A g \in CatHandler : req[g].app = inst[k].app /\ req[g].op \in Assigning => req[g].op = "sent")
              /\ \A j \in Install \ {k} : inst[j].app # inst[k].app
          BY <1>1, <4>2 DEF LoneInv
        <5>2. inst[k].app \in App  BY <1>1, <5>1 DEF CatTypes
        <5>3. Open(app[inst[k].app], row'[inst[k].app])
          <6>1. CASE inst[k].app = x  BY <3>3, <3>6, <5>1, <6>1 DEF Open
          <6>2. CASE inst[k].app # x  BY <3>3, <5>1, <5>2, <6>2
          <6> QED BY <6>1, <6>2
        <5> QED BY <3>2, <3>6, <5>1, <5>3
      <4> QED BY <2>0, <4>1, <4>2 DEF LoneInv
    <3>8. InstInv' /\ LoneInstallIsServed'  BY <1>1, <2>0 DEF InstInv, LoneInstallIsServed
    <3>9. SuccessIsInstalled'  BY <1>1, <2>0, <2>3, <3>3 DEF SuccessIsInstalled, Entry
    <3> QED BY <3>4, <3>5, <3>7, <3>8, <3>9 DEF CatIInv
  <2> QED BY <1>5, <2>1, <2>2, <2>3 DEF StoreAssign
<1> QED BY <1>3, <1>4, <1>5

\* What a step of the device, or the end of the server process, may do: commands go on or are
\* gone, results reach their rows, requests are cut off.
Outcomes(x) ==
  \/ row'[x] = row[x]
  \/ /\ row[x] # "none" /\ row'[x] \in {"success", "failed"}
     /\ row'[x] = "success" => x \in installed
     /\ \E k \in Install : inst[k].app = x /\ inst[k].st \in {"ok", "err"}
Commands(k) ==
  /\ \/ inst'[k].st = "none" /\ inst'[k].app = Unnamed /\ ~inst'[k].lone
     \/ /\ inst[k].st # "none" /\ inst'[k].st # "none" /\ inst'[k].app = inst[k].app
        /\ inst'[k].lone => inst[k].lone /\ inst'[k].st \in {"wire", "get"}
        /\ inst'[k].st = "ok" => inst[k].app \in installed'
  /\ ~inst'[k].denied
Installs ==
  /\ app' = app /\ blob' = blob /\ moved' = moved /\ installed \subseteq installed'
  /\ online' \in {"off", "on", "other"} /\ inst' \in [Install -> InstRow] /\ row' \in [App -> Statuses \cup {"none"}]
  /\ req' \in [CatHandler -> ReqRow]
  /\ \A g \in CatHandler : req'[g] = req[g] \/ req'[g] = NoReq
  /\ \A k \in Install : Commands(k)
  /\ \A x \in App : Outcomes(x)

\* Such a step preserves the invariant.
LEMMA CatInstalls == ASSUME CatIInv, Installs PROVE CatIInv'
<1>1. CatTypes /\ Progress /\ Owned /\ LoneInv /\ InstInv /\ SuccessIsInstalled /\ LoneInstallIsServed
  BY CatFacts
<1>2. \A k \in Install : Commands(k)  BY DEF Installs
<1>3. NoReq.op = "idle" /\ NoReq.app = Unnamed /\ ~NoReq.lone /\ NoReq.app \notin App  BY CatEmpty
<1>4. \A g \in CatHandler : req'[g] = req[g] \/ req'[g] = NoReq  BY DEF Installs
<1>5. CatTypes'
  <2>1. \A g \in CatHandler : /\ req'[g].op # "idle" => req'[g].app \in App
                              /\ req'[g].op = "idle" => req'[g].app = Unnamed
    BY <1>1, <1>3, <1>4 DEF CatTypes
  <2>2. \A k \in Install : /\ inst'[k].st # "none" => inst'[k].app \in App
                           /\ inst'[k].st = "none" => inst'[k].app = Unnamed
    BY <1>1, <1>2 DEF CatTypes, Commands
  <2> QED BY <1>1, <2>1, <2>2 DEF CatTypes, Installs
<1>6. Progress' /\ Owned'  BY <1>4, DiskKeeps DEF Installs
<1>7. \A k \in Install : inst'[k].app = inst[k].app \/ inst'[k].app \notin App  BY <1>2 DEF Commands
<1>8. \A k \in Install : inst'[k].lone => /\ inst[k].lone /\ inst'[k].st \in {"wire", "get"}
                                          /\ inst'[k].app = inst[k].app
  BY <1>2 DEF Commands
<1>9. \A x \in App : (\A k \in Install : inst[k].app = x => inst[k].st \notin {"ok", "err"}) => row'[x] = row[x]
  BY DEF Installs, Outcomes
<1>10. LoneInv'
  <2>1. ASSUME NEW g \in CatHandler, req'[g].lone
        PROVE  /\ req'[g].op = "dispatch" /\ Open(app[req'[g].app], row'[req'[g].app])
               /\ \A e \in CatHandler \ {g} : ~(req'[e].app = req'[g].app /\ req'[e].op \in Assigning)
               /\ \A k \in Install : inst'[k].app # req'[g].app
    <3>1. req'[g] = req[g] /\ req[g].lone  BY <1>3, <1>4, <2>1
    <3>2. req[g].op = "dispatch" /\ Open(app[req[g].app], row[req[g].app])
          /\ (\A e \in CatHandler \ {g} : ~(req[e].app = req[g].app /\ req[e].op \in Assigning))
          /\ \A k \in Install : inst[k].app # req[g].app
      BY <1>1, <3>1 DEF LoneInv
    <3>3. req[g].app \in App  BY <1>1, <3>2 DEF CatTypes
    <3>4. row'[req[g].app] = row[req[g].app]  BY <1>9, <3>2, <3>3
    <3>5. \A k \in Install : inst'[k].app # req[g].app  BY <1>7, <3>2, <3>3
    <3>6. \A e \in CatHandler \ {g} : ~(req'[e].app = req[g].app /\ req'[e].op \in Assigning)
      BY <1>3, <1>4, <3>2, <3>3
    <3> QED BY <3>1, <3>2, <3>4, <3>5, <3>6
  <2>2. ASSUME NEW k \in Install, inst'[k].lone
        PROVE  /\ inst'[k].st \in {"wire", "get"} /\ Open(app[inst'[k].app], row'[inst'[k].app])
               /\ \A g \in CatHandler : req'[g].app = inst'[k].app /\ req'[g].op \in Assigning => req'[g].op = "sent"
               /\ \A j \in Install \ {k} : inst'[j].app # inst'[k].app
    <3>1. inst[k].lone /\ inst'[k].st \in {"wire", "get"} /\ inst'[k].app = inst[k].app  BY <1>8, <2>2
    <3>2. inst[k].st \in {"wire", "get"} /\ Open(app[inst[k].app], row[inst[k].app])
          /\ (\A g \in CatHandler : req[g].app = inst[k].app /\ req[g].op \in Assigning => req[g].op = "sent")
          /\ \A j \in Install \ {k} : inst[j].app # inst[k].app
      BY <1>1, <3>1 DEF LoneInv
    <3>3. inst[k].app \in App  BY <1>1, <3>2 DEF CatTypes
    <3>4. row'[inst[k].app] = row[inst[k].app]  BY <1>9, <3>2, <3>3
    <3>5. \A j \in Install \ {k} : inst'[j].app # inst[k].app  BY <1>7, <3>2, <3>3
    <3>6. \A g \in CatHandler : req'[g].app = inst[k].app /\ req'[g].op \in Assigning => req'[g].op = "sent"
      BY <1>3, <1>4, <3>2, <3>3
    <3> QED BY <3>1, <3>2, <3>4, <3>5, <3>6
  <2>3. app' = app  BY DEF Installs
  <2> QED BY <2>1, <2>2, <2>3 DEF LoneInv
<1>11. InstInv' /\ LoneInstallIsServed'
  BY <1>1, <1>2 DEF InstInv, LoneInstallIsServed, Commands, Installs
<1>12. SuccessIsInstalled'
  <2> SUFFICES ASSUME NEW x \in App
               PROVE  (row'[x] = "success" => x \in installed') /\ (row'[x] # "none" => app'[x].st = "on")
    BY DEF SuccessIsInstalled, Entry
  <2>1. Outcomes(x) /\ app' = app /\ installed \subseteq installed'  BY DEF Installs
  <2> QED BY <1>1, <2>1 DEF SuccessIsInstalled, Entry, Outcomes
<1> QED BY <1>5, <1>6, <1>10, <1>11, <1>12 DEF CatIInv

\* An install goes on: the row is the caller's.
LEMMA CatDevice ==
  ASSUME CatIInv
  PROVE  /\ \A k \in Install : BeginInstall(k) \/ Download(k) \/ RunInstaller(k) \/ ReportInstall(k) => CatIInv'
         /\ DeviceConnects \/ DeviceDrops \/ SerialMoves \/ ServerStops => CatIInv'
<1>1. CatTypes /\ Progress /\ Owned /\ LoneInv /\ InstInv /\ SuccessIsInstalled /\ LoneInstallIsServed
  BY CatFacts
<1>2. \A k \in Install : inst[k] \in InstRow  BY CatFacts
<1>3. req \in [CatHandler -> ReqRow] /\ inst \in [Install -> InstRow] /\ row \in [App -> Statuses \cup {"none"}]
      /\ online \in {"off", "on", "other"}
  BY <1>1 DEF CatTypes
<1>4. ASSUME NEW k \in Install, inst'[k] = inst[k], installed \subseteq installed' PROVE Commands(k)
  BY <1>1, <1>4 DEF Commands, CatTypes, LoneInv, InstInv, LoneInstallIsServed
\* One command moves to m.
<1>5. ASSUME NEW k \in Install, NEW m \in InstRow, inst' = [inst EXCEPT ![k] = m], installed \subseteq installed',
             UNCHANGED <<app, blob, online, req, moved>>, row' \in [App -> Statuses \cup {"none"}],
             \A x \in App : Outcomes(x),
             \/ m.st = "none" /\ m.app = Unnamed /\ ~m.lone
             \/ /\ inst[k].st # "none" /\ m.st # "none" /\ m.app = inst[k].app
                /\ m.lone => inst[k].lone /\ m.st \in {"wire", "get"}
                /\ m.st = "ok" => inst[k].app \in installed',
             ~m.denied
      PROVE  CatIInv'
  <2>1. inst'[k] = m /\ (\A j \in Install \ {k} : inst'[j] = inst[j]) /\ inst' \in [Install -> InstRow]
    BY <1>3, <1>5
  <2>2. Commands(k)  BY <1>5, <2>1 DEF Commands
  <2>3. \A j \in Install : Commands(j)  BY <1>4, <1>5, <2>1, <2>2
  <2>4. Installs  BY <1>3, <1>5, <2>1, <2>3 DEF Installs
  <2> QED BY <2>4, CatInstalls
<1>6. ASSUME NEW k \in Install, BeginInstall(k) PROVE CatIInv'
  <2> DEFINE m == [inst[k] EXCEPT !.st = "get"]
  <2>1. inst[k].st = "wire" /\ inst' = [inst EXCEPT ![k] = m] /\ UNCHANGED <<app, blob, row, online, req, installed, moved>>
    BY <1>2, <1>6 DEF BeginInstall, step, InstRow
  <2>2. m \in InstRow /\ m.st = "get" /\ m.app = inst[k].app /\ m.denied = inst[k].denied /\ m.lone = inst[k].lone
    BY <1>2 DEF InstRow
  <2> HIDE DEF m
  <2>3. ~m.denied  BY <1>1, <2>2 DEF LoneInstallIsServed
  <2>4. \A x \in App : Outcomes(x)  BY <2>1 DEF Outcomes
  <2> QED BY <1>3, <1>5, <2>1, <2>2, <2>3, <2>4
<1>7. ASSUME NEW k \in Install, Download(k) PROVE CatIInv'
  <2>1. inst[k].st = "get" /\ UNCHANGED <<app, blob, row, online, req, installed, moved>>
    BY <1>7 DEF Download
  <2>2. \A x \in App : Outcomes(x)  BY <2>1 DEF Outcomes
  <2>3. PICK st \in {"have", "err"}, d \in BOOLEAN :
          /\ inst' = [inst EXCEPT ![k] = [inst[k] EXCEPT !.st = st, !.url = FALSE, !.lone = FALSE, !.denied = d]]
          /\ d => inst[k].denied \/ (inst[k].lone /\ Entry(inst[k].app) /\ ~Authorized(inst[k].app, TRUE))
    <3>1. CASE inst' = [inst EXCEPT ![k] = [inst[k] EXCEPT !.st = "have", !.url = FALSE, !.lone = FALSE]]
      <4>1. [inst[k] EXCEPT !.st = "have", !.url = FALSE, !.lone = FALSE]
              = [inst[k] EXCEPT !.st = "have", !.url = FALSE, !.lone = FALSE, !.denied = inst[k].denied]
        BY <1>2 DEF InstRow
      <4>2. inst[k].denied \in BOOLEAN  BY <1>2 DEF InstRow
      <4> QED BY <3>1, <4>1, <4>2
    <3>2. ASSUME NEW known \in BOOLEAN,
                 inst' = [inst EXCEPT ![k] = [inst[k] EXCEPT !.st = "err", !.url = FALSE, !.lone = FALSE,
                   !.denied = inst[k].lone /\ Entry(inst[k].app) /\ known /\ ~Authorized(inst[k].app, known)]]
          PROVE  \E d \in BOOLEAN :
                   /\ inst' = [inst EXCEPT ![k] = [inst[k] EXCEPT !.st = "err", !.url = FALSE, !.lone = FALSE, !.denied = d]]
                   /\ d => inst[k].lone /\ Entry(inst[k].app) /\ ~Authorized(inst[k].app, TRUE)
      <4> DEFINE d == inst[k].lone /\ Entry(inst[k].app) /\ known /\ ~Authorized(inst[k].app, known)
      <4>1. d \in BOOLEAN  OBVIOUS
      <4>2. d => inst[k].lone /\ Entry(inst[k].app) /\ ~Authorized(inst[k].app, TRUE)  BY DEF Authorized
      <4> QED BY <3>2, <4>1, <4>2
    <3> QED BY <1>7, <3>1, <3>2 DEF Download
  <2> DEFINE m == [inst[k] EXCEPT !.st = st, !.url = FALSE, !.lone = FALSE, !.denied = d]
  <2>4. m \in InstRow /\ m.st = st /\ m.app = inst[k].app /\ m.denied = d /\ ~m.lone  BY <1>2 DEF InstRow
  <2>5. inst' = [inst EXCEPT ![k] = m]  BY <2>3
  <2> HIDE DEF m
  <2>6. ~d
    <3>1. ~inst[k].denied  BY <1>1 DEF LoneInstallIsServed
    <3>2. inst[k].lone => Open(app[inst[k].app], row[inst[k].app])  BY <1>1 DEF LoneInv
    <3> QED BY <2>3, <3>1, <3>2 DEF Open, Authorized, Entry
  <2> QED BY <1>3, <1>5, <2>1, <2>2, <2>4, <2>5, <2>6
<1>8. ASSUME NEW k \in Install, RunInstaller(k) PROVE CatIInv'
  <2>1. inst[k].st = "have" /\ UNCHANGED <<app, blob, row, online, req, moved>>
    BY <1>8 DEF RunInstaller
  <2>2. \A x \in App : Outcomes(x)  BY <2>1 DEF Outcomes
  <2>3. PICK st \in {"ok", "err"} : /\ inst' = [inst EXCEPT ![k].st = st] /\ installed \subseteq installed'
                                    /\ st = "ok" => inst[k].app \in installed'
    BY <1>8 DEF RunInstaller, step
  <2> DEFINE m == [inst[k] EXCEPT !.st = st]
  <2>4. inst' = [inst EXCEPT ![k] = m]  BY <1>2, <2>3 DEF InstRow
  <2>5. m \in InstRow /\ m.st = st /\ m.app = inst[k].app /\ m.denied = inst[k].denied /\ m.lone = inst[k].lone
    BY <1>2 DEF InstRow
  <2> HIDE DEF m
  <2>6. ~m.denied /\ ~m.lone  BY <1>1, <2>1, <2>5 DEF LoneInstallIsServed, LoneInv
  <2> QED BY <1>3, <1>5, <2>1, <2>2, <2>3, <2>4, <2>5, <2>6
<1>9. ASSUME NEW k \in Install, ReportInstall(k) PROVE CatIInv'
  <2>1. inst[k].st \in {"ok", "err"} /\ inst' = [inst EXCEPT ![k] = NoInst] /\ UNCHANGED <<app, blob, online, req, installed, moved>>
    BY <1>9 DEF ReportInstall
  <2>2. PICK x \in App : x = inst[k].app  BY <1>1, <2>1 DEF CatTypes
  <2>3. (\A y \in App : Outcomes(y)) /\ row' \in [App -> Statuses \cup {"none"}]
    <3>1. CASE row' = row  BY <1>3, <3>1 DEF Outcomes
    <3>2. CASE row[x] # "none" /\ row' = [row EXCEPT ![x] = IF inst[k].st = "ok" THEN "success" ELSE "failed"]
      <4>1. row' \in [App -> Statuses \cup {"none"}] /\ (\A y \in App \ {x} : row'[y] = row[y])
            /\ row'[x] = IF inst[k].st = "ok" THEN "success" ELSE "failed"
        BY <1>3, <3>2 DEF Statuses
      <4>2. inst[k].st = "ok" => x \in installed  BY <1>1, <2>2 DEF InstInv
      <4>3. Outcomes(x)  BY <2>1, <2>2, <3>2, <4>1, <4>2 DEF Outcomes
      <4> QED BY <4>1, <4>3 DEF Outcomes
    <3> QED BY <1>9, <2>2, <3>1, <3>2 DEF ReportInstall
  <2> QED BY <1>5, <2>1, <2>3, CatEmpty
\* The commands of a connection: what was not delivered may be lost, the others lose their session.
<1>10. ASSUME \A k \in Install : inst'[k] \in {NoInst, inst[k], [inst[k] EXCEPT !.own = FALSE]},
              DOMAIN inst' = Install, inst' = [k \in Install |-> inst'[k]],
              UNCHANGED <<app, blob, row, installed, moved>>,
              \A g \in CatHandler : req'[g] = req[g] \/ req'[g] = NoReq, req' \in [CatHandler -> ReqRow],
              online' \in {"off", "on", "other"}
       PROVE  CatIInv'
  <2>1. ASSUME NEW k \in Install PROVE inst'[k] \in InstRow /\ Commands(k)
    <3>1. CASE inst'[k] = NoInst  BY <3>1, CatEmpty DEF Commands
    <3>2. CASE inst'[k] = inst[k]  BY <1>2, <1>4, <1>10, <3>2
    <3>3. CASE inst'[k] = [inst[k] EXCEPT !.own = FALSE]
      <4>1. /\ inst'[k] \in InstRow /\ inst'[k].st = inst[k].st /\ inst'[k].app = inst[k].app
            /\ inst'[k].lone = inst[k].lone /\ inst'[k].denied = inst[k].denied
        BY <1>2, <3>3 DEF InstRow
      <4> QED BY <1>1, <1>10, <4>1 DEF Commands, CatTypes, LoneInv, InstInv, LoneInstallIsServed
    <3> QED BY <1>10, <3>1, <3>2, <3>3
  <2>2. inst' \in [Install -> InstRow]  BY <1>10, <2>1
  <2>3. \A x \in App : Outcomes(x)  BY <1>10 DEF Outcomes
  <2>4. Installs  BY <1>3, <1>10, <2>1, <2>2, <2>3 DEF Installs
  <2> QED BY <2>4, CatInstalls
<1>11. ASSUME DeviceConnects \/ DeviceDrops \/ SerialMoves \/ ServerStops PROVE CatIInv'
  <2>1. DeviceConnects => CatIInv'
    <3> SUFFICES ASSUME DeviceConnects PROVE CatIInv'
      OBVIOUS
    <3>1. inst' = inst /\ req' = req /\ online' \in {"on", "other"} /\ UNCHANGED <<app, blob, row, installed, moved>>
      BY DEF DeviceConnects
    <3> QED BY <1>3, <1>10, <3>1
  <2>2. DeviceDrops => CatIInv'
    <3> SUFFICES ASSUME DeviceDrops PROVE CatIInv'
      OBVIOUS
    <3>1. /\ inst' = [k \in Install |-> IF inst[k].st = "wire" THEN NoInst ELSE [inst[k] EXCEPT !.own = FALSE]]
          /\ req' = req /\ online' = "off" /\ UNCHANGED <<app, blob, row, installed, moved>>
      BY DEF DeviceDrops, cut
    <3> QED BY <1>3, <1>10, <3>1
  <2>3. SerialMoves => CatIInv'
    <3> SUFFICES ASSUME SerialMoves PROVE CatIInv'
      OBVIOUS
    <3>1. /\ inst' = inst
          /\ req' = req /\ online' \in {"on", "other"} /\ UNCHANGED <<app, blob, row, installed, moved>>
      BY DEF SerialMoves
    <3> QED BY <1>3, <1>10, <3>1
  <2>4. ServerStops => CatIInv'
    <3> SUFFICES ASSUME ServerStops PROVE CatIInv'
      OBVIOUS
    <3>1. /\ inst' = [k \in Install |-> IF inst[k].st = "wire" THEN NoInst ELSE [inst[k] EXCEPT !.own = FALSE]]
          /\ req' = [h \in CatHandler |-> NoReq] /\ online' = "off" /\ UNCHANGED <<app, blob, row, installed, moved>>
      BY DEF ServerStops, cut
    <3> QED BY <1>3, <1>10, <3>1, CatEmpty
  <2> QED BY <1>11, <2>1, <2>2, <2>3, <2>4
<1> QED BY <1>6, <1>7, <1>8, <1>9, <1>11

\* The invariant holds at the start.
LEMMA CatInitInv == CatInit => CatIInv
<1> SUFFICES ASSUME CatInit PROVE CatIInv
  OBVIOUS
<1>1. /\ \A x \in App : app[x] = NoApp /\ row[x] = "none"
      /\ \A h \in CatHandler : req[h] = NoReq
      /\ \A k \in Install : inst[k] = NoInst
  BY DEF CatInit
<1>2. CatTypes  BY <1>1, CatEmpty DEF CatInit, CatTypes
<1>3. Progress /\ Owned
  <2>1. \A h \in CatHandler : req[h].op = "idle"  BY <1>1, CatEmpty
  <2>2. \A x \in App : app[x].st = "none"  BY <1>1, CatEmpty
  <2>3. \A b \in Blob : (\A x \in App : ~AppClaims(x, b)) /\ \A h \in CatHandler : ~ReqClaims(h, b)
    BY <2>1, <2>2 DEF AppClaims, ReqClaims
  <2> QED BY <2>1, <2>3 DEF Progress, Owned, Claims
<1>4. LoneInv /\ InstInv /\ LoneInstallIsServed
  BY <1>1, CatEmpty DEF LoneInv, InstInv, LoneInstallIsServed
<1>5. SuccessIsInstalled  BY <1>1 DEF SuccessIsInstalled
<1> QED BY <1>2, <1>3, <1>4, <1>5 DEF CatIInv

\* Every step of the catalogue preserves it,
LEMMA CatStep == CatIInv /\ [CatNext]_catVars => CatIInv'
<1>1. ASSUME CatIInv, NEW x \in App, CreateEntry(x) PROVE CatIInv'  BY <1>1, CatCreate
<1>2. ASSUME CatIInv, NEW h \in CatHandler,
             \/ \E x \in App : \/ \E b \in Blob : StartUpload(h, x, b)
                               \/ ReadPatch(h, x) \/ ReadDelete(h, x) \/ StartAssign(h, x)
             \/ RenameUpload(h) \/ InsertUpload(h) \/ UpdatePatch(h) \/ DeleteEntry(h) \/ Unlink(h)
             \/ UpsertAssign(h) \/ DispatchAssign(h) \/ StoreAssign(h) \/ FailRequest(h)
      PROVE  CatIInv'
  <2>1. FailRequest(h) => CatIInv'  BY <1>2, CatFinish DEF FailRequest
  <2> QED BY <1>2, <2>1, CatReads, CatUploads, CatEdits, CatAssigns
<1>3. ASSUME CatIInv, NEW k \in Install, BeginInstall(k) \/ Download(k) \/ RunInstaller(k) \/ ReportInstall(k)
      PROVE  CatIInv'
  BY <1>3, CatDevice
<1>4. ASSUME CatIInv, DeviceConnects \/ DeviceDrops \/ SerialMoves \/ ServerStops PROVE CatIInv'
  BY <1>4, CatDevice
<1>5. ASSUME CatIInv, UNCHANGED catVars PROVE CatIInv'
  BY <1>5 DEF CatIInv, CatTypes, Progress, Owned, Claims, AppClaims, ReqClaims, LoneInv, InstInv,
              SuccessIsInstalled, LoneInstallIsServed, Entry, catVars
<1> QED BY <1>1, <1>2, <1>3, <1>4, <1>5 DEF CatNext

\* and it gives what the catalogue keeps.
LEMMA CatInvHolds == CatIInv => CatInv
<1> SUFFICES ASSUME CatIInv PROVE CatInv
  OBVIOUS
<1>1. CatTypes /\ Owned /\ SuccessIsInstalled /\ LoneInstallIsServed  BY CatFacts
<1>2. CatTypeOK  BY <1>1 DEF CatTypes, CatTypeOK, AppRow, Locator
<1>3. UploadsAreServed  BY <1>1 DEF Owned, AppClaims, UploadsAreServed, Entry
<1> QED BY <1>1, <1>2, <1>3 DEF CatInv

HIDE CatAssumption

-----------------------------------------------------------------------------
(* Packages, deployments and automations                                    *)

Origin == {NoOrigin} \cup (Automation \X Nat)
IssRow == [pc : {"idle", "fetch", "resolve", "read", "insert", "dispatch", "reach", "sent", "refused",
                "shutdown"},
           first : {"read", "shutdown"}, asset : Asset \cup {Unset}, pkg : Pkg \cup {Unset}, can : BOOLEAN,
           trig : BOOLEAN, dep : Nat, ser : Nat, todo : SUBSET Asset, origin : Origin]
DepRow == [row : DepRows \cup {"deleted"}, by : {Unset, "dispatch", "agent"}, asset : Asset, pkg : Pkg,
           can : BOOLEAN, origin : Origin, cmd : {"no", "wire", "run", "cut", "ok", "err", "end"},
           ser : Nat, ran : {"no", "ok", "err"}]
AutoRow == [st : {"none", "on", "off"}, act : {"deploy", "shutdown", Unset}, tgt : Asset \cup {"os", Unset},
            pkg : Pkg \cup {Unset}, op : {"install", "missing", Unset}]

DepTypes ==
  /\ pkg \in [Pkg -> {"none", "ok", "nocmd", "deleted"}]
  /\ cert \in [Asset -> 0 .. MaxCert] /\ sess \in [Asset -> 0 .. MaxCert]
  /\ dep \in Seq(DepRow) /\ Len(dep) <= MaxDep /\ iss \in [Issuer -> IssRow]

\* A deployment's row, its command and what the agent did, together: a row that tells an outcome
\* stands only where the command is over, or never left.
DepOK(r) ==
  /\ r.cmd \in {"no", "wire", "run", "cut"} => r.ran = "no"
  /\ r.cmd = "ok" => r.ran = "ok" /\ r.can
  /\ r.cmd = "err" => r.ran = "err"
  /\ r.cmd # "no" => r.ser # 0
  /\ r.row = "succeeded" => r.cmd = "end" /\ r.ran = "ok" /\ r.can
  /\ r.row = "failed" => IF r.by = "agent" THEN r.cmd = "end" /\ r.ran = "err" ELSE r.cmd = "no"
  /\ r.row = "dispatched" => r.cmd # "no"

\* A request or job and the deployments D: the one it has inserted is untouched until it is
\* dispatched.
Unsent(r) == r.cmd = "no" /\ r.row \in {"pending", "deleted"}
IssOK(q, D) ==
  /\ q.pc \in {"dispatch", "reach", "sent", "refused"} => q.dep \in 1 .. Len(D)
  /\ q.pc \notin {"dispatch", "reach", "sent", "refused"} => q.dep = 0
  /\ q.pc \in {"dispatch", "reach", "refused"} => Unsent(D[q.dep])
  /\ q.pc = "reach" => q.ser # 0
  /\ q.pc = "sent" => D[q.dep].cmd # "no"
  /\ q.pc \notin {"idle", "fetch", "resolve"} => q.asset \in Asset

\* A job has deployed to no target it still has before it.
JobOK(q, D) ==
  /\ q.pc = "idle" => q.origin = NoOrigin
  /\ q.pc \in {"fetch", "resolve"} => /\ q.origin # NoOrigin /\ q.todo = {} /\ q.asset = Unset
                                      /\ \A d \in 1 .. Len(D) : D[d].origin # q.origin
  /\ q.asset \notin q.todo
  /\ \A d \in 1 .. Len(D) : q.origin # NoOrigin /\ D[d].origin = q.origin =>
       D[d].asset \notin q.todo /\ (q.pc \in {"read", "insert", "shutdown"} => D[d].asset # q.asset)

IssInv ==
  /\ \A d \in 1 .. Len(dep) : DepOK(dep[d])
  /\ \A i \in Issuer : IssOK(iss[i], dep) /\ JobOK(iss[i], dep)
  /\ \A i, j \in Issuer : i # j /\ iss[i].dep # 0 => iss[i].dep # iss[j].dep
  /\ \A i, j \in Issuer : i # j /\ iss[i].origin # NoOrigin => iss[i].origin # iss[j].origin

\* A device has one deployment of an activation.
ExactInv ==
  \A d, e \in 1 .. Len(dep) :
    d # e /\ dep[d].origin # NoOrigin /\ dep[d].origin = dep[e].origin => dep[d].asset # dep[e].asset

\* An activation that has been used is past, and before the next one of its automation, which is
\* in the cron once.
Used(o) == (\E i \in Issuer : iss[i].origin = o) \/ \E d \in 1 .. Len(dep) : dep[d].origin = o
CronTypes ==
  /\ auto \in [Automation -> AutoRow] /\ cron \subseteq [auto : Automation, next : Nat] /\ clock \in Nat
  /\ sched \in [pc : {"idle", "loaded", "stopped"}, rows : SUBSET Automation] /\ stale \subseteq Job
CronInv ==
  /\ \A x \in Automation, t \in Nat : Used(<<x, t>>) => t <= clock /\ \A e \in cron : e.auto = x => t < e.next
  /\ \A e, f \in cron : e.auto = f.auto => e = f
  /\ sched.pc = "stopped" => cron = {}

\* A job that fired for an automation that is off finds it off.
StaleOK(i, q) == i \in stale => q.pc = "idle" \/ (q.pc = "fetch" /\ auto[q.origin[1]].st = "off")
StaleInv == \A i \in Issuer : StaleOK(i, iss[i])

DeployIInv == DepTypes /\ IssInv /\ ExactInv /\ CronTypes /\ CronInv /\ StaleInv

USE DepAssumption

\* A request or job that rests is of its type and claims nothing.
LEMMA IdleFacts ==
  /\ Idle \in IssRow /\ Idle.pc = "idle" /\ Idle.dep = 0 /\ Idle.origin = NoOrigin
  /\ \A D : IssOK(Idle, D) /\ JobOK(Idle, D)
<1>1. Idle \in IssRow /\ Idle.pc = "idle" /\ Idle.dep = 0 /\ Idle.origin = NoOrigin /\ Idle.todo = {}
  BY DEF Idle, IssRow, Origin
<1> QED BY <1>1 DEF IssOK, JobOK

\* The invariant's parts
LEMMA DepFacts ==
  ASSUME DeployIInv
  PROVE  /\ DepTypes /\ IssInv /\ ExactInv /\ CronTypes /\ CronInv /\ StaleInv
         /\ \A i \in Issuer : iss[i] \in IssRow
         /\ \A d \in DOMAIN dep : dep[d] \in DepRow
         /\ DOMAIN dep = 1 .. Len(dep) /\ Len(dep) \in Nat
BY DEF DeployIInv, DepTypes

\* Deployments change in place: what they are of stays, and but for the one at m an untouched one
\* stays untouched and a dispatched one stays so.
DepMoves(m) ==
  /\ dep' \in Seq(DepRow) /\ Len(dep') = Len(dep)
  /\ \A d \in 1 .. Len(dep) :
       /\ DepOK(dep'[d]) /\ dep'[d].asset = dep[d].asset /\ dep'[d].origin = dep[d].origin
       /\ d # m => /\ dep'[d].cmd = "no" <=> dep[d].cmd = "no"
                   /\ Unsent(dep[d]) => Unsent(dep'[d])

\* Others are not concerned.
LEMMA DepOthers ==
  ASSUME DeployIInv, NEW m, DepMoves(m), NEW q, IssOK(q, dep), JobOK(q, dep), q.dep = 0 \/ q.dep # m
  PROVE  IssOK(q, dep') /\ JobOK(q, dep')
<1>1. Len(dep') = Len(dep) /\ \A d \in 1 .. Len(dep) :
       /\ dep'[d].asset = dep[d].asset /\ dep'[d].origin = dep[d].origin
       /\ d # m => /\ dep'[d].cmd = "no" <=> dep[d].cmd = "no"
                   /\ Unsent(dep[d]) => Unsent(dep'[d])
  BY DEF DepMoves
<1>2. Len(dep) \in Nat  BY DepFacts
<1>3. IssOK(q, dep')  BY <1>1, <1>2 DEF IssOK
<1>4. JobOK(q, dep')  BY <1>1, <1>2 DEF JobOK
<1> QED BY <1>3, <1>4

\* A request or job goes to q, by way of the deployment it is at.
IssMoves(i, q) ==
  /\ q \in IssRow /\ iss' = [iss EXCEPT ![i] = q]
  /\ q.origin \in {iss[i].origin, NoOrigin} /\ q.dep \in {iss[i].dep, 0}
  /\ IssOK(q, dep') /\ JobOK(q, dep') /\ StaleOK(i, q)
  /\ UNCHANGED <<pkg, cert, sess, cronVars>>

\* Such a step preserves the invariant.
LEMMA IssStep ==
  ASSUME DeployIInv, NEW i \in Issuer, NEW q, IssMoves(i, q), DepMoves(iss[i].dep)
  PROVE  DeployIInv'
<1>1. DepTypes /\ IssInv /\ ExactInv /\ CronTypes /\ CronInv /\ StaleInv /\ Len(dep) \in Nat
  BY DepFacts
<1>2. iss'[i] = q /\ \A j \in Issuer \ {i} : iss'[j] = iss[j]  BY <1>1 DEF IssMoves, DepTypes
<1>3. DepTypes'  BY <1>1 DEF IssMoves, DepMoves, DepTypes
<1>4. IssInv'
  <2>1. \A d \in 1 .. Len(dep') : DepOK(dep'[d])  BY DEF DepMoves
  <2>2. \A j \in Issuer \ {i} : IssOK(iss'[j], dep') /\ JobOK(iss'[j], dep')
    <3> SUFFICES ASSUME NEW j \in Issuer \ {i} PROVE IssOK(iss[j], dep') /\ JobOK(iss[j], dep')
      BY <1>2
    <3>1. IssOK(iss[j], dep) /\ JobOK(iss[j], dep) /\ (iss[j].dep = 0 \/ iss[j].dep # iss[i].dep)
      BY <1>1 DEF IssInv
    <3> QED BY <3>1, DepOthers
  <2>3. \A j \in Issuer : IssOK(iss'[j], dep') /\ JobOK(iss'[j], dep')  BY <1>2, <2>2 DEF IssMoves
  <2>4. q.dep \in {iss[i].dep, 0} /\ q.origin \in {iss[i].origin, NoOrigin}  BY DEF IssMoves
  <2>5. \A j, k \in Issuer : j # k /\ iss'[j].dep # 0 => iss'[j].dep # iss'[k].dep
    BY <1>1, <1>2, <2>4 DEF IssInv
  <2>6. \A j, k \in Issuer : j # k /\ iss'[j].origin # NoOrigin => iss'[j].origin # iss'[k].origin
    BY <1>1, <1>2, <2>4 DEF IssInv
  <2> QED BY <2>1, <2>3, <2>5, <2>6 DEF IssInv
<1>5. ExactInv'  BY <1>1 DEF ExactInv, DepMoves
<1>6. CronTypes'  BY <1>1 DEF CronTypes, IssMoves, cronVars
<1>7. CronInv'
  <2>1. \A x \in Automation, t \in Nat : <<x, t>> # NoOrigin  BY DEF NoOrigin
  <2>a. \A j \in Issuer : iss'[j].origin \in {iss[j].origin, NoOrigin}  BY <1>2 DEF IssMoves
  <2>b. \A d \in 1 .. Len(dep') : d \in 1 .. Len(dep) /\ dep'[d].origin = dep[d].origin  BY DEF DepMoves
  <2>c. \A o : o # NoOrigin /\ Used(o)' => Used(o)  BY <2>a, <2>b DEF Used
  <2>2. \A x \in Automation, t \in Nat : Used(<<x, t>>)' => Used(<<x, t>>)  BY <2>1, <2>c
  <2>3. UNCHANGED <<clock, cron, sched>>  BY DEF IssMoves, cronVars
  <2> QED BY <1>1, <2>2, <2>3 DEF CronInv
<1>8. StaleInv'
  <2>1. UNCHANGED <<stale, auto>>  BY DEF IssMoves, cronVars
  <2> QED BY <1>1, <1>2, <2>1 DEF StaleInv, StaleOK, IssMoves
<1> QED BY <1>3, <1>4, <1>5, <1>6, <1>7, <1>8 DEF DeployIInv

\* No request or job moves.
LEMMA DepStep ==
  ASSUME DeployIInv, DepMoves(0), DepTypes', UNCHANGED <<iss, cronVars>>
  PROVE  DeployIInv'
<1>1. DepTypes /\ IssInv /\ ExactInv /\ CronTypes /\ CronInv /\ StaleInv /\ Len(dep) \in Nat
  BY DepFacts
<1>2. UNCHANGED <<iss, auto, cron, sched, clock, stale, stops>>  BY DEF cronVars
<1>3. \A j \in Issuer : IssOK(iss[j], dep') /\ JobOK(iss[j], dep')
  <2> SUFFICES ASSUME NEW j \in Issuer PROVE IssOK(iss[j], dep') /\ JobOK(iss[j], dep')
    OBVIOUS
  <2>1. IssOK(iss[j], dep) /\ JobOK(iss[j], dep)  BY <1>1 DEF IssInv
  <2> QED BY <2>1, DepOthers
<1>4. IssInv'  BY <1>1, <1>2, <1>3 DEF IssInv, DepMoves
<1>5. ExactInv'  BY <1>1 DEF ExactInv, DepMoves
<1>6. CronTypes'  BY <1>1, <1>2 DEF CronTypes
<1>7. CronInv'
  <2>1. \A x \in Automation, t \in Nat : Used(<<x, t>>)' => Used(<<x, t>>)
    BY <1>2 DEF Used, DepMoves
  <2> QED BY <1>1, <1>2, <2>1 DEF CronInv
<1>8. StaleInv'  BY <1>1, <1>2 DEF StaleInv, StaleOK
<1> QED BY <1>4, <1>5, <1>6, <1>7, <1>8 DEF DeployIInv

\* Deployments that change in place are as many as before.
LEMMA DepSeq ==
  ASSUME DeployIInv, NEW D, DOMAIN D = DOMAIN dep, D = [d \in DOMAIN dep |-> D[d]], \A d \in DOMAIN dep : D[d] \in DepRow
  PROVE  D \in Seq(DepRow) /\ Len(D) = Len(dep)
<1>1. DOMAIN dep = 1 .. Len(dep) /\ Len(dep) \in Nat  BY DepFacts
<1>2. D \in [1 .. Len(dep) -> DepRow]  BY <1>1
<1> QED BY <1>1, <1>2, SeqDef, LenProperties

\* One deployment changes to r.
LEMMA DepOne ==
  ASSUME DeployIInv, NEW m, NEW d \in DOMAIN dep, NEW r \in DepRow, dep' = [dep EXCEPT ![d] = r],
         DepOK(r), r.asset = dep[d].asset, r.origin = dep[d].origin,
         d # m => (r.cmd = "no" <=> dep[d].cmd = "no") /\ (Unsent(dep[d]) => Unsent(r))
  PROVE  DepMoves(m) /\ dep'[d] = r
<1>1. DOMAIN dep = 1 .. Len(dep) /\ Len(dep) \in Nat /\ dep \in Seq(DepRow) /\ IssInv
      /\ \A e \in DOMAIN dep : dep[e] \in DepRow
  BY DepFacts DEF DepTypes
<1>2. dep'[d] = r /\ DOMAIN dep' = DOMAIN dep /\ dep' = [e \in DOMAIN dep |-> dep'[e]]
      /\ \A e \in DOMAIN dep \ {d} : dep'[e] = dep[e]
  OBVIOUS
<1>3. dep' \in Seq(DepRow) /\ Len(dep') = Len(dep)  BY <1>1, <1>2, DepSeq
<1>4. \A e \in 1 .. Len(dep) : DepOK(dep[e])  BY <1>1 DEF IssInv
<1> QED BY <1>1, <1>2, <1>3, <1>4 DEF DepMoves

\* Nothing of the deployments changes.
LEMMA DepSame == ASSUME DeployIInv, dep' = dep, NEW m PROVE DepMoves(m)
BY DepFacts DEF DepMoves, DepTypes, IssInv

\* A command that is cut off stays what it was or is over.
LEMMA CutOff ==
  ASSUME DeployIInv, NEW d \in DOMAIN dep, NEW r, r = [dep[d] EXCEPT !.cmd = cutOff(dep[d].cmd)]
  PROVE  /\ r \in DepRow /\ DepOK(r) /\ r.asset = dep[d].asset /\ r.origin = dep[d].origin
         /\ r.row = dep[d].row
         /\ r.cmd = "no" <=> dep[d].cmd = "no"
         /\ Unsent(dep[d]) => Unsent(r)
<1>1. dep[d] \in DepRow /\ DepOK(dep[d])  BY DepFacts DEF IssInv
<1>2. PICK c : c = cutOff(dep[d].cmd)  OBVIOUS
<1>3. /\ c \in {"no", "wire", "run", "cut", "ok", "err", "end"}
      /\ c = "no" <=> dep[d].cmd = "no"
      /\ c = "wire" \/ c = "run" \/ c = "ok" \/ c = "err" => FALSE
      /\ c = "cut" => dep[d].cmd \in {"run", "cut"}
      /\ dep[d].cmd = "end" => c = "end"
  BY <1>1, <1>2 DEF cutOff, DepRow
<1>4. r = [dep[d] EXCEPT !.cmd = c]  BY <1>2
<1>5. /\ r \in DepRow /\ r.cmd = c /\ r.row = dep[d].row /\ r.by = dep[d].by /\ r.asset = dep[d].asset
      /\ r.origin = dep[d].origin /\ r.can = dep[d].can /\ r.ser = dep[d].ser /\ r.ran = dep[d].ran
  BY <1>1, <1>3, <1>4 DEF DepRow
<1> QED BY <1>1, <1>3, <1>5 DEF DepOK, Unsent

\* The steps on packages, and those of agents, preserve the invariant.
LEMMA PackageSteps ==
  ASSUME DeployIInv, UNCHANGED cronVars
  PROVE  /\ \A p \in Pkg : CreatePackage(p) \/ PatchPackage(p) \/ DeletePackage(p) => DeployIInv'
         /\ \A a \in Asset : ConnectAgent(a) \/ DropAgent(a) \/ EnrolAgain(a) => DeployIInv'
         /\ \A d \in DOMAIN dep : StartPackage(d) \/ FinishPackage(d) \/ ApplyPackageOutcome(d) => DeployIInv'
<1>1. DepTypes /\ IssInv /\ Len(dep) \in Nat /\ DOMAIN dep = 1 .. Len(dep)
      /\ (\A d \in DOMAIN dep : dep[d] \in DepRow) /\ \A d \in DOMAIN dep : DepOK(dep[d])
  BY DepFacts DEF IssInv
<1>2. ASSUME dep' = dep, iss' = iss, pkg' \in [Pkg -> {"none", "ok", "nocmd", "deleted"}],
             cert' \in [Asset -> 0 .. MaxCert], sess' \in [Asset -> 0 .. MaxCert]
      PROVE  DeployIInv'
  <2>1. DepTypes'  BY <1>1, <1>2 DEF DepTypes
  <2> QED BY <1>2, <2>1, DepSame, DepStep
\* Deployments change in place.
<1>3. ASSUME UNCHANGED <<cert, iss>>, pkg' \in [Pkg -> {"none", "ok", "nocmd", "deleted"}],
             sess' \in [Asset -> 0 .. MaxCert], DepMoves(0)
      PROVE  DeployIInv'
  <2>1. DepTypes'  BY <1>1, <1>3 DEF DepTypes, DepMoves
  <2> QED BY <1>3, <2>1, DepStep
<1>4. ASSUME NEW p \in Pkg, CreatePackage(p) \/ PatchPackage(p) PROVE DeployIInv'
  <2>1. dep' = dep /\ iss' = iss /\ cert' = cert /\ sess' = sess  BY <1>4 DEF CreatePackage, PatchPackage
  <2>2. pkg' \in [Pkg -> {"none", "ok", "nocmd", "deleted"}]  BY <1>1, <1>4 DEF CreatePackage, PatchPackage, DepTypes
  <2> QED BY <1>1, <1>2, <2>1, <2>2 DEF DepTypes
<1>5. ASSUME NEW p \in Pkg, DeletePackage(p) PROVE DeployIInv'
  <2>1. /\ pkg' = [pkg EXCEPT ![p] = "deleted"] /\ UNCHANGED <<cert, sess, iss>>
        /\ dep' = [d \in DOMAIN dep |-> IF dep[d].pkg = p THEN [dep[d] EXCEPT !.row = "deleted"] ELSE dep[d]]
    BY <1>5 DEF DeletePackage
  <2>2. ASSUME NEW d \in DOMAIN dep
        PROVE  /\ dep'[d] \in DepRow /\ DepOK(dep'[d])
               /\ dep'[d].asset = dep[d].asset /\ dep'[d].origin = dep[d].origin /\ dep'[d].cmd = dep[d].cmd
               /\ Unsent(dep[d]) => Unsent(dep'[d])
    <3>1. dep[d] \in DepRow /\ DepOK(dep[d])  BY <1>1
    <3>2. CASE dep[d].pkg = p
      <4>1. dep'[d] = [dep[d] EXCEPT !.row = "deleted"]  BY <2>1, <3>2
      <4>2. /\ dep'[d] \in DepRow /\ dep'[d].row = "deleted" /\ dep'[d].by = dep[d].by
            /\ dep'[d].asset = dep[d].asset /\ dep'[d].origin = dep[d].origin /\ dep'[d].cmd = dep[d].cmd
            /\ dep'[d].can = dep[d].can /\ dep'[d].ser = dep[d].ser /\ dep'[d].ran = dep[d].ran
        BY <3>1, <4>1 DEF DepRow
      <4> QED BY <3>1, <4>2 DEF DepOK, Unsent
    <3>3. CASE dep[d].pkg # p  BY <2>1, <3>1, <3>3
    <3> QED BY <3>2, <3>3
  <2>3. dep' \in Seq(DepRow) /\ Len(dep') = Len(dep)
    <3>1. DOMAIN dep' = DOMAIN dep /\ dep' = [d \in DOMAIN dep |-> dep'[d]]  BY <2>1
    <3> QED BY <2>2, <3>1, DepSeq
  <2>4. DepMoves(0)  BY <1>1, <2>2, <2>3 DEF DepMoves
  <2> QED BY <1>1, <1>3, <2>1, <2>4 DEF DepTypes
<1>6. ASSUME NEW a \in Asset, ConnectAgent(a) \/ EnrolAgain(a) PROVE DeployIInv'
  <2>1. dep' = dep /\ iss' = iss /\ pkg' = pkg  BY <1>6 DEF ConnectAgent, EnrolAgain
  <2>2. cert' \in [Asset -> 0 .. MaxCert] /\ sess' \in [Asset -> 0 .. MaxCert]
    <3>1. CASE ConnectAgent(a)
      <4>1. cert' = cert /\ sess' = [sess EXCEPT ![a] = cert[a]]  BY <3>1 DEF ConnectAgent
      <4> QED BY <1>1, <4>1 DEF DepTypes
    <3>2. CASE EnrolAgain(a)
      <4>1. cert[a] < MaxCert /\ cert' = [cert EXCEPT ![a] = cert[a] + 1] /\ sess' = sess  BY <3>2 DEF EnrolAgain
      <4> QED BY <1>1, <4>1 DEF DepTypes
    <3> QED BY <1>6, <3>1, <3>2
  <2> QED BY <1>1, <1>2, <2>1, <2>2 DEF DepTypes
<1>8. ASSUME NEW a \in Asset, DropAgent(a) PROVE DeployIInv'
  <2>1. /\ sess' = [sess EXCEPT ![a] = 0] /\ UNCHANGED <<pkg, cert, iss>>
    BY <1>8 DEF DropAgent
  <2>0. PICK kept : dep' = [d \in DOMAIN dep |-> IF d \in Of(a) \ kept THEN [dep[d] EXCEPT !.cmd = cutOff(dep[d].cmd)]
                                               ELSE dep[d]]
    BY <1>8 DEF DropAgent
  <2>2. ASSUME NEW d \in DOMAIN dep
        PROVE  /\ dep'[d] \in DepRow /\ DepOK(dep'[d]) /\ dep'[d].asset = dep[d].asset /\ dep'[d].origin = dep[d].origin
               /\ dep'[d].cmd = "no" <=> dep[d].cmd = "no"
               /\ Unsent(dep[d]) => Unsent(dep'[d])
    <3>1. CASE d \in Of(a) \ kept
      <4>1. dep'[d] = [dep[d] EXCEPT !.cmd = cutOff(dep[d].cmd)]  BY <2>0, <3>1
      <4> QED BY <4>1, CutOff
    <3>2. CASE d \notin Of(a) \ kept  BY <1>1, <2>0, <3>2
    <3> QED BY <3>1, <3>2
  <2>3. dep' \in Seq(DepRow) /\ Len(dep') = Len(dep)
    <3>1. DOMAIN dep' = DOMAIN dep /\ dep' = [d \in DOMAIN dep |-> dep'[d]]  BY <2>0
    <3> QED BY <2>2, <3>1, DepSeq
  <2>4. DepMoves(0)  BY <1>1, <2>2, <2>3 DEF DepMoves
  <2>5. sess' \in [Asset -> 0 .. MaxCert]  BY <1>1, <2>1 DEF DepTypes
  <2> QED BY <1>1, <1>3, <2>1, <2>4, <2>5 DEF DepTypes
<1>9. ASSUME NEW d \in DOMAIN dep, StartPackage(d) \/ FinishPackage(d) \/ ApplyPackageOutcome(d) PROVE DeployIInv'
  <2>0. dep[d] \in DepRow /\ DepOK(dep[d])  BY <1>1
  <2>1. UNCHANGED <<pkg, cert, sess, iss>>  BY <1>9 DEF StartPackage, FinishPackage, ApplyPackageOutcome
  <2>2. ASSUME NEW r \in DepRow, dep' = [dep EXCEPT ![d] = r], DepOK(r), r.asset = dep[d].asset,
               r.origin = dep[d].origin, r.cmd # "no", dep[d].cmd # "no"
        PROVE  DeployIInv'
    <3>1. DepMoves(0)  BY <2>2, DepOne DEF Unsent
    <3> QED BY <1>1, <1>3, <2>1, <3>1 DEF DepTypes
  <2>3. CASE StartPackage(d)
    <3> DEFINE r == [dep[d] EXCEPT !.cmd = "run"]
    <3>1. dep[d].cmd = "wire" /\ dep' = [dep EXCEPT ![d] = r]  BY <2>0, <2>3 DEF StartPackage, DepRow
    <3>2. /\ r \in DepRow /\ r.cmd = "run" /\ r.row = dep[d].row /\ r.by = dep[d].by /\ r.asset = dep[d].asset
          /\ r.origin = dep[d].origin /\ r.can = dep[d].can /\ r.ser = dep[d].ser /\ r.ran = dep[d].ran
      BY <2>0 DEF DepRow
    <3> HIDE DEF r
    <3>3. DepOK(r)  BY <2>0, <3>1, <3>2 DEF DepOK
    <3> QED BY <2>2, <3>1, <3>2, <3>3
  <2>4. CASE FinishPackage(d)
    <3>1. PICK v \in {"ok", "err"} :
            /\ v = "ok" => dep[d].can
            /\ dep' = [dep EXCEPT ![d].ran = v, ![d].cmd = IF dep[d].cmd = "run" THEN v ELSE "end"]
      BY <2>4 DEF FinishPackage
    <3>2. PICK c : c = IF dep[d].cmd = "run" THEN v ELSE "end"  OBVIOUS
    <3> DEFINE r == [dep[d] EXCEPT !.ran = v, !.cmd = c]
    <3>3. dep[d].cmd \in {"run", "cut"} /\ dep' = [dep EXCEPT ![d] = r]
      BY <2>0, <2>4, <3>1, <3>2 DEF FinishPackage, DepRow
    <3>4. /\ r \in DepRow /\ r.cmd = c /\ r.row = dep[d].row /\ r.by = dep[d].by /\ r.asset = dep[d].asset
          /\ r.origin = dep[d].origin /\ r.can = dep[d].can /\ r.ser = dep[d].ser /\ r.ran = v
      BY <2>0, <3>2 DEF DepRow
    <3> HIDE DEF r
    <3>5. DepOK(r)  BY <2>0, <3>1, <3>2, <3>3, <3>4 DEF DepOK
    <3>6. r.cmd # "no" /\ dep[d].cmd # "no"  BY <3>2, <3>3, <3>4
    <3> QED BY <2>2, <3>3, <3>4, <3>5, <3>6
  <2>5. CASE ApplyPackageOutcome(d)
    <3>1. dep[d].cmd \in {"ok", "err"}  BY <2>5 DEF ApplyPackageOutcome
    <3>2. ASSUME dep' = [dep EXCEPT ![d].cmd = "end"] PROVE DeployIInv'
      <4> DEFINE r == [dep[d] EXCEPT !.cmd = "end"]
      <4>1. dep' = [dep EXCEPT ![d] = r]  BY <2>0, <3>2 DEF DepRow
      <4>2. /\ r \in DepRow /\ r.cmd = "end" /\ r.row = dep[d].row /\ r.by = dep[d].by /\ r.asset = dep[d].asset
            /\ r.origin = dep[d].origin /\ r.can = dep[d].can /\ r.ser = dep[d].ser /\ r.ran = dep[d].ran
        BY <2>0 DEF DepRow
      <4> HIDE DEF r
      <4>3. DepOK(r)  BY <2>0, <3>1, <4>2 DEF DepOK
      <4> QED BY <2>2, <3>1, <4>1, <4>2, <4>3
    <3>3. ASSUME dep' = [dep EXCEPT ![d].cmd = "end", ![d].by = "agent",
                                   ![d].row = IF dep[d].cmd = "ok" THEN "succeeded" ELSE "failed"]
          PROVE DeployIInv'
      <4>1. PICK w : w = IF dep[d].cmd = "ok" THEN "succeeded" ELSE "failed"  OBVIOUS
      <4> DEFINE r == [dep[d] EXCEPT !.cmd = "end", !.by = "agent", !.row = w]
      <4>2. dep' = [dep EXCEPT ![d] = r]  BY <2>0, <3>3, <4>1 DEF DepRow
      <4>3. /\ r \in DepRow /\ r.cmd = "end" /\ r.row = w /\ r.by = "agent" /\ r.asset = dep[d].asset
            /\ r.origin = dep[d].origin /\ r.can = dep[d].can /\ r.ser = dep[d].ser /\ r.ran = dep[d].ran
        BY <2>0, <4>1 DEF DepRow, DepRows
      <4> HIDE DEF r
      <4>4. DepOK(r)  BY <2>0, <3>1, <4>1, <4>3 DEF DepOK
      <4> QED BY <2>2, <3>1, <4>2, <4>3, <4>4
    <3> QED BY <2>5, <3>2, <3>3 DEF ApplyPackageOutcome
  <2> QED BY <1>9, <2>3, <2>4, <2>5
<1> QED BY <1>4, <1>5, <1>6, <1>8, <1>9

\* A set that is not empty has the element that is chosen from it.
LEMMA Chosen == ASSUME NEW S, S # {} PROVE (CHOOSE x \in S : TRUE) \in S
OBVIOUS

\* Done with one target, a job goes on to one it has not deployed to, and a request ends.
LEMMA EndTarget ==
  ASSUME DeployIInv, NEW i \in Issuer, NEW D, Len(D) \in Nat, endTarget(i),
         iss[i].pc \notin {"idle", "fetch", "resolve"},
         \A d \in 1 .. Len(D) : iss[i].origin # NoOrigin /\ D[d].origin = iss[i].origin => D[d].asset \notin iss[i].todo
  PROVE  \E q \in IssRow : /\ iss' = [iss EXCEPT ![i] = q] /\ q.origin \in {iss[i].origin, NoOrigin}
                           /\ q.dep = 0 /\ IssOK(q, D) /\ JobOK(q, D) /\ StaleOK(i, q)
<1>1. iss[i] \in IssRow /\ StaleInv  BY DepFacts
<1>2. i \notin stale  BY <1>1 DEF StaleInv, StaleOK
<1>3. CASE iss[i].todo = {}
  <2>1. iss' = [iss EXCEPT ![i] = Idle]  BY <1>3 DEF endTarget
  <2> QED BY <1>2, <2>1, IdleFacts DEF StaleOK
<1>4. CASE iss[i].todo # {}
  <2>1. PICK a : a = CHOOSE x \in iss[i].todo : TRUE  OBVIOUS
  <2>2. a \in iss[i].todo  BY <1>4, <2>1, Chosen
  <2> DEFINE q == [iss[i] EXCEPT !.pc = iss[i].first, !.asset = a, !.todo = iss[i].todo \ {a}, !.dep = 0, !.ser = 0]
  <2>3. iss' = [iss EXCEPT ![i] = q]  BY <1>4, <2>1 DEF endTarget
  <2>4. /\ q \in IssRow /\ q.pc = iss[i].first /\ q.asset = a /\ q.todo = iss[i].todo \ {a} /\ q.dep = 0
        /\ q.origin = iss[i].origin /\ a \in Asset /\ q.pc \in {"read", "shutdown"}
    BY <1>1, <2>2 DEF IssRow
  <2> HIDE DEF q
  <2>5. IssOK(q, D)  BY <2>4 DEF IssOK
  <2>6. JobOK(q, D)  BY <2>2, <2>4 DEF JobOK
  <2>7. StaleOK(i, q)  BY <1>2 DEF StaleOK
  <2> QED BY <2>3, <2>4, <2>5, <2>6, <2>7
<1> QED BY <1>3, <1>4

\* A request or job moves while no deployment changes.
LEMMA IssAlone ==
  ASSUME DeployIInv, NEW i \in Issuer, NEW q \in IssRow, iss' = [iss EXCEPT ![i] = q],
         q.origin \in {iss[i].origin, NoOrigin}, q.dep \in {iss[i].dep, 0}, IssOK(q, dep), JobOK(q, dep),
         StaleOK(i, q), UNCHANGED <<pkg, cert, sess, dep, cronVars>>
  PROVE  DeployIInv'
<1>1. IssMoves(i, q)  BY DEF IssMoves
<1>2. DepMoves(iss[i].dep)  BY DepSame
<1> QED BY <1>1, <1>2, IssStep

\* What the invariant says of a job's targets
LEMMA Undeployed ==
  ASSUME DeployIInv, NEW i \in Issuer
  PROVE  /\ \A d \in 1 .. Len(dep) : iss[i].origin # NoOrigin /\ dep[d].origin = iss[i].origin =>
              dep[d].asset \notin iss[i].todo
         /\ IssOK(iss[i], dep) /\ JobOK(iss[i], dep) /\ iss[i] \in IssRow /\ Len(dep) \in Nat
         /\ iss[i].pc \notin {"idle", "fetch"} => i \notin stale
<1>1. IssOK(iss[i], dep) /\ JobOK(iss[i], dep)  BY DepFacts DEF IssInv
<1>2. StaleInv  BY DepFacts
<1> QED BY <1>1, <1>2, DepFacts DEF JobOK, StaleInv, StaleOK

\* An issuer ends with its target, and nothing else changes.
LEMMA EndAlone ==
  ASSUME DeployIInv, NEW i \in Issuer, endTarget(i), iss[i].pc \notin {"idle", "fetch", "resolve"},
         UNCHANGED <<pkg, cert, sess, dep, cronVars>>
  PROVE  DeployIInv'
<1>1. PICK q \in IssRow : /\ iss' = [iss EXCEPT ![i] = q] /\ q.origin \in {iss[i].origin, NoOrigin}
                          /\ q.dep = 0 /\ IssOK(q, dep) /\ JobOK(q, dep) /\ StaleOK(i, q)
  BY EndTarget, Undeployed
<1> QED BY <1>1, IssAlone

\* The requests and jobs that issue deployments preserve the invariant.
LEMMA IssueSteps ==
  ASSUME DeployIInv, NEW i \in Issuer, UNCHANGED cronVars
  PROVE  /\ ReadPackage(i) => DeployIInv'
         /\ LookupSerial(i) => DeployIInv'
         /\ DispatchDeployment(i) => DeployIInv'
         /\ StoreDispatch(i) => DeployIInv'
         /\ FailIssuer(i) => DeployIInv'
         /\ i \in Handler /\ RequestDeployment(i) => DeployIInv'
<1>0. iss[i] \in IssRow /\ IssOK(iss[i], dep) /\ JobOK(iss[i], dep) /\ Len(dep) \in Nat /\ DOMAIN dep = 1 .. Len(dep)
      /\ (iss[i].pc \notin {"idle", "fetch"} => i \notin stale)
  BY Undeployed, DepFacts
<1>1. ASSUME FailIssuer(i) PROVE DeployIInv'
  BY <1>1, EndAlone DEF FailIssuer
<1>2. ASSUME ReadPackage(i) PROVE DeployIInv'
  <2>1. iss[i].pc = "read" /\ UNCHANGED <<pkg, cert, sess, dep>>  BY <1>2 DEF ReadPackage
  <2>2. CASE endTarget(i)  BY <2>1, <2>2, EndAlone
  <2>3. CASE iss' = [iss EXCEPT ![i].pc = "insert", ![i].can = (pkg[iss[i].pkg] = "ok")]
    <3>1. PICK c \in BOOLEAN : c = (pkg[iss[i].pkg] = "ok")  OBVIOUS
    <3> DEFINE q == [iss[i] EXCEPT !.pc = "insert", !.can = c]
    <3>2. iss' = [iss EXCEPT ![i] = q]  BY <1>0, <2>3, <3>1 DEF IssRow
    <3>3. /\ q \in IssRow /\ q.pc = "insert" /\ q.dep = iss[i].dep /\ q.origin = iss[i].origin
          /\ q.todo = iss[i].todo /\ q.asset = iss[i].asset
      BY <1>0 DEF IssRow
    <3> HIDE DEF q
    <3>4. IssOK(q, dep)  BY <1>0, <2>1, <3>3 DEF IssOK
    <3>5. JobOK(q, dep)  BY <1>0, <2>1, <3>3 DEF JobOK
    <3>6. StaleOK(i, q)  BY <1>0, <2>1 DEF StaleOK
    <3> QED BY <2>1, <3>2, <3>3, <3>4, <3>5, <3>6, IssAlone
  <2> QED BY <1>2, <2>2, <2>3 DEF ReadPackage
<1>3. ASSUME i \in Handler, RequestDeployment(i) PROVE DeployIInv'
  <2>1. iss[i].pc = "idle" /\ UNCHANGED <<pkg, cert, sess, dep>>  BY <1>3 DEF RequestDeployment
  <2>2. PICK a \in Asset, p \in Pkg, t \in BOOLEAN :
          iss' = [iss EXCEPT ![i] = [Idle EXCEPT !.pc = "read", !.asset = a, !.pkg = p, !.trig = t]]
    BY <1>3 DEF RequestDeployment
  <2> DEFINE q == [Idle EXCEPT !.pc = "read", !.asset = a, !.pkg = p, !.trig = t]
  <2>3. /\ q \in IssRow /\ q.pc = "read" /\ q.dep = 0 /\ q.origin = NoOrigin /\ q.todo = {} /\ q.asset = a
    BY IdleFacts DEF IssRow, Idle
  <2>4. iss' = [iss EXCEPT ![i] = q]  BY <2>2
  <2> HIDE DEF q
  <2>5. IssOK(q, dep) /\ JobOK(q, dep)  BY <2>3 DEF IssOK, JobOK
  <2>6. StaleOK(i, q)
    <3>1. i \notin stale  BY <1>3, DepFacts DEF CronTypes
    <3> QED BY <3>1 DEF StaleOK
  <2> QED BY <2>1, <2>3, <2>4, <2>5, <2>6, IssAlone
<1>6. ASSUME LookupSerial(i) PROVE DeployIInv'
  <2>1. iss[i].pc = "dispatch" /\ UNCHANGED <<pkg, cert, sess, dep>> /\ iss[i].asset \in Asset
    BY <1>0, <1>6 DEF LookupSerial, IssOK
  <2>2. ASSUME NEW q \in IssRow, iss' = [iss EXCEPT ![i] = q], q.pc \in {"reach", "refused"}, q.pc = "reach" => q.ser # 0,
               q.dep = iss[i].dep, q.origin = iss[i].origin, q.todo = iss[i].todo, q.asset = iss[i].asset
        PROVE  DeployIInv'
    <3>1. IssOK(q, dep)  BY <1>0, <2>1, <2>2 DEF IssOK
    <3>2. JobOK(q, dep)  BY <1>0, <2>1, <2>2 DEF JobOK
    <3>3. StaleOK(i, q)  BY <1>0, <2>1 DEF StaleOK
    <3> QED BY <2>1, <2>2, <3>1, <3>2, <3>3, IssAlone
  <2>3. CASE advance(i, "refused")
    <3> DEFINE q == [iss[i] EXCEPT !.pc = "refused"]
    <3>1. iss' = [iss EXCEPT ![i] = q]  BY <1>0, <2>3 DEF advance, IssRow
    <3>2. /\ q \in IssRow /\ q.pc = "refused" /\ q.dep = iss[i].dep /\ q.origin = iss[i].origin
          /\ q.todo = iss[i].todo /\ q.asset = iss[i].asset
      BY <1>0 DEF IssRow
    <3> HIDE DEF q
    <3> QED BY <2>2, <3>1, <3>2
  <2>4. ASSUME cert[iss[i].asset] # 0, iss' = [iss EXCEPT ![i].pc = "reach", ![i].ser = cert[iss[i].asset]]
        PROVE  DeployIInv'
    <3>1. PICK n : n = cert[iss[i].asset]  OBVIOUS
    <3>2. n \in Nat /\ n # 0  BY <2>1, <2>4, <3>1, DepFacts DEF DepTypes
    <3> DEFINE q == [iss[i] EXCEPT !.pc = "reach", !.ser = n]
    <3>3. iss' = [iss EXCEPT ![i] = q]  BY <1>0, <2>4, <3>1 DEF IssRow
    <3>4. /\ q \in IssRow /\ q.pc = "reach" /\ q.ser = n /\ q.dep = iss[i].dep /\ q.origin = iss[i].origin
          /\ q.todo = iss[i].todo /\ q.asset = iss[i].asset
      BY <1>0, <3>2 DEF IssRow
    <3> HIDE DEF q
    <3> QED BY <2>2, <3>2, <3>3, <3>4
  <2> QED BY <1>6, <2>3, <2>4 DEF LookupSerial
<1>4. ASSUME DispatchDeployment(i) PROVE DeployIInv'
  <2>1. iss[i].pc = "reach" /\ UNCHANGED <<pkg, cert, sess>>  BY <1>4 DEF DispatchDeployment
  <2>2. PICK d \in DOMAIN dep : d = iss[i].dep  BY <1>0, <2>1 DEF IssOK
  <2>3. Unsent(dep[d]) /\ iss[i].asset \in Asset  BY <1>0, <2>1, <2>2 DEF IssOK
  <2>4. ASSUME NEW st \in {"sent", "refused"}, advance(i, st),
               DepMoves(iss[i].dep), st = "refused" => Unsent(dep'[d]), st = "sent" => dep'[d].cmd # "no"
        PROVE  DeployIInv'
    <3> DEFINE q == [iss[i] EXCEPT !.pc = st]
    <3>1. iss' = [iss EXCEPT ![i] = q]  BY <1>0, <2>4 DEF advance, IssRow
    <3>2. /\ q \in IssRow /\ q.pc = st /\ q.dep = iss[i].dep /\ q.origin = iss[i].origin
          /\ q.todo = iss[i].todo /\ q.asset = iss[i].asset
      BY <1>0 DEF IssRow
    <3> HIDE DEF q
    <3>3. Len(dep') = Len(dep) /\ \A e \in 1 .. Len(dep) : dep'[e].asset = dep[e].asset /\ dep'[e].origin = dep[e].origin
      BY <2>4 DEF DepMoves
    <3>4. IssOK(q, dep')  BY <1>0, <2>1, <2>2, <2>3, <2>4, <3>2, <3>3 DEF IssOK
    <3>5. JobOK(q, dep')  BY <1>0, <2>1, <2>4, <3>2, <3>3 DEF JobOK
    <3>6. StaleOK(i, q)  BY <1>0, <2>1 DEF StaleOK
    <3>7. IssMoves(i, q)  BY <2>1, <3>1, <3>2, <3>4, <3>5, <3>6 DEF IssMoves
    <3> QED BY <2>4, <3>7, IssStep
  <2>5. ASSUME advance(i, "refused"), dep' = dep PROVE DeployIInv'
    <3>1. DepMoves(iss[i].dep)  BY <2>5, DepSame
    <3> QED BY <2>3, <2>4, <2>5, <3>1
  <2>6. ASSUME advance(i, "sent"), dep' = [dep EXCEPT ![d].cmd = "wire", ![d].ser = iss[i].ser]
        PROVE  DeployIInv'
    <3>1. PICK n : n = iss[i].ser  OBVIOUS
    <3>2. n \in Nat /\ n # 0  BY <1>0, <2>1, <3>1 DEF IssOK, IssRow
    <3>3. dep[d] \in DepRow /\ DepOK(dep[d])  BY DepFacts DEF IssInv
    <3> DEFINE r == [dep[d] EXCEPT !.cmd = "wire", !.ser = n]
    <3>4. dep' = [dep EXCEPT ![d] = r]  BY <2>6, <3>1, <3>3 DEF DepRow
    <3>5. /\ r \in DepRow /\ r.cmd = "wire" /\ r.row = dep[d].row /\ r.by = dep[d].by /\ r.asset = dep[d].asset
          /\ r.origin = dep[d].origin /\ r.can = dep[d].can /\ r.ser = n /\ r.ran = dep[d].ran
      BY <3>2, <3>3 DEF DepRow
    <3> HIDE DEF r
    <3>6. DepOK(r)  BY <2>3, <3>2, <3>3, <3>5 DEF DepOK, Unsent
    <3>7. DepMoves(iss[i].dep) /\ dep'[d] = r  BY <2>2, <3>4, <3>5, <3>6, DepOne
    <3> QED BY <2>4, <2>6, <3>5, <3>7
  <2> QED BY <1>4, <2>2, <2>5, <2>6 DEF DispatchDeployment
<1>5. ASSUME StoreDispatch(i) PROVE DeployIInv'
  <2>1. iss[i].pc \in {"sent", "refused"} /\ endTarget(i) /\ UNCHANGED <<pkg, cert, sess>>  BY <1>5 DEF StoreDispatch
  <2>2. PICK d \in DOMAIN dep : d = iss[i].dep  BY <1>0, <2>1 DEF IssOK
  <2>3. dep[d] \in DepRow /\ DepOK(dep[d])  BY DepFacts DEF IssInv
  <2>4. ASSUME DepMoves(iss[i].dep) PROVE DeployIInv'
    <3>1. Len(dep') = Len(dep) /\ \A e \in 1 .. Len(dep) : dep'[e].asset = dep[e].asset /\ dep'[e].origin = dep[e].origin
      BY <2>4 DEF DepMoves
    <3>2. \A e \in 1 .. Len(dep') : iss[i].origin # NoOrigin /\ dep'[e].origin = iss[i].origin =>
            dep'[e].asset \notin iss[i].todo
      BY <3>1, Undeployed
    <3>3. PICK q \in IssRow : /\ iss' = [iss EXCEPT ![i] = q] /\ q.origin \in {iss[i].origin, NoOrigin}
                              /\ q.dep = 0 /\ IssOK(q, dep') /\ JobOK(q, dep') /\ StaleOK(i, q)
      BY <1>0, <2>1, <3>1, <3>2, EndTarget
    <3>4. IssMoves(i, q)  BY <2>1, <3>3 DEF IssMoves
    <3> QED BY <2>4, <3>4, IssStep
  <2>5. CASE dep' = dep  BY <2>4, <2>5, DepSame
  <2>6. ASSUME iss[i].pc = "sent", dep' = [dep EXCEPT ![d].row = "dispatched"] PROVE DeployIInv'
    <3> DEFINE r == [dep[d] EXCEPT !.row = "dispatched"]
    <3>1. dep' = [dep EXCEPT ![d] = r]  BY <2>3, <2>6 DEF DepRow
    <3>2. /\ r \in DepRow /\ r.cmd = dep[d].cmd /\ r.row = "dispatched" /\ r.by = dep[d].by /\ r.asset = dep[d].asset
          /\ r.origin = dep[d].origin /\ r.can = dep[d].can /\ r.ser = dep[d].ser /\ r.ran = dep[d].ran
      BY <2>3 DEF DepRow, DepRows
    <3> HIDE DEF r
    <3>3. dep[d].cmd # "no"  BY <1>0, <2>2, <2>6 DEF IssOK
    <3>4. DepOK(r)  BY <2>3, <3>2, <3>3 DEF DepOK
    <3>5. DepMoves(iss[i].dep)  BY <2>2, <3>1, <3>2, <3>4, DepOne
    <3> QED BY <2>4, <3>5
  <2>7. ASSUME iss[i].pc # "sent", dep' = [dep EXCEPT ![d].row = "failed", ![d].by = "dispatch"] PROVE DeployIInv'
    <3> DEFINE r == [dep[d] EXCEPT !.row = "failed", !.by = "dispatch"]
    <3>1. dep' = [dep EXCEPT ![d] = r]  BY <2>3, <2>7 DEF DepRow
    <3>2. /\ r \in DepRow /\ r.cmd = dep[d].cmd /\ r.row = "failed" /\ r.by = "dispatch" /\ r.asset = dep[d].asset
          /\ r.origin = dep[d].origin /\ r.can = dep[d].can /\ r.ser = dep[d].ser /\ r.ran = dep[d].ran
      BY <2>3 DEF DepRow, DepRows
    <3> HIDE DEF r
    <3>3. dep[d].cmd = "no"  BY <1>0, <2>1, <2>2, <2>7 DEF IssOK, Unsent
    <3>4. DepOK(r)  BY <2>3, <3>2, <3>3 DEF DepOK
    <3>5. DepMoves(iss[i].dep)  BY <2>2, <3>1, <3>2, <3>4, DepOne
    <3> QED BY <2>4, <3>5
  <2> QED BY <1>5, <2>2, <2>5, <2>6, <2>7 DEF StoreDispatch
<1> QED BY <1>1, <1>2, <1>3, <1>4, <1>5, <1>6

\* The insertion of a deployment preserves the invariant.
LEMMA InsertStep == ASSUME DeployIInv, NEW i \in Issuer, UNCHANGED cronVars, InsertDeployment(i) PROVE DeployIInv'
<1>0. iss[i] \in IssRow /\ IssOK(iss[i], dep) /\ JobOK(iss[i], dep) /\ Len(dep) \in Nat /\ DOMAIN dep = 1 .. Len(dep)
      /\ (iss[i].pc \notin {"idle", "fetch"} => i \notin stale)
  BY Undeployed, DepFacts
<1>1. iss[i].pc = "insert" /\ Len(dep) < MaxDep /\ UNCHANGED <<pkg, cert, sess>>  BY DEF InsertDeployment
<1>2. CASE endTarget(i) /\ dep' = dep  BY <1>1, <1>2, EndAlone
<1>3. CASE iss[i].pkg \in Present /\ dep' = Append(dep, NewDep(i))
  <2>0. PICK n \in Nat : n = Len(dep) + 1  BY <1>0
  <2>1. DepTypes /\ IssInv /\ ExactInv /\ CronTypes /\ CronInv /\ StaleInv  BY DepFacts
  <2>2. iss[i].asset \in Asset /\ iss[i].pkg \in Pkg /\ i \notin stale  BY <1>0, <1>1, <1>3 DEF IssOK, Present
  <2>3. PICK r \in DepRow : /\ r = NewDep(i) /\ r.row = "pending" /\ r.cmd = "no" /\ r.ran = "no"
                            /\ r.asset = iss[i].asset /\ r.origin = iss[i].origin
    <3>1. iss[i].can \in BOOLEAN /\ iss[i].origin \in Origin  BY <1>0 DEF IssRow
    <3>2. NewDep(i) \in DepRow  BY <2>2, <3>1 DEF NewDep, DepRow, DepRows
    <3> QED BY <3>2 DEF NewDep
  <2>4. dep' = Append(dep, r)  BY <1>3, <2>3
  <2>5. /\ dep' \in Seq(DepRow) /\ Len(dep') = n /\ dep'[n] = r
        /\ \A d \in 1 .. Len(dep) : dep'[d] = dep[d]
    BY <2>0, <2>1, <2>4 DEF DepTypes
  <2>6. DepOK(r) /\ Unsent(r)  BY <2>3 DEF DepOK, Unsent
  <2>7. \A d \in 1 .. n : d = n \/ d \in 1 .. Len(dep)  BY <1>0, <2>0
  <2>8. \A d \in 1 .. Len(dep') : iss[i].origin # NoOrigin /\ dep'[d].origin = iss[i].origin =>
          dep'[d].asset \notin iss[i].todo
    BY <1>0, <2>3, <2>5, <2>7 DEF JobOK
  <2>9. PICK q \in IssRow : /\ iss' = [iss EXCEPT ![i] = q] /\ q.origin \in {iss[i].origin, NoOrigin}
                            /\ q.dep \in {0, n} /\ IssOK(q, dep') /\ JobOK(q, dep') /\ StaleOK(i, q)
    <3>1. CASE endTarget(i)  BY <1>0, <1>1, <2>5, <2>8, <3>1, EndTarget
    <3>2. CASE iss' = [iss EXCEPT ![i].pc = "dispatch", ![i].dep = Len(dep) + 1]
      <4> DEFINE q == [iss[i] EXCEPT !.pc = "dispatch", !.dep = n]
      <4>1. iss' = [iss EXCEPT ![i] = q]  BY <1>0, <2>0, <3>2 DEF IssRow
      <4>2. /\ q \in IssRow /\ q.pc = "dispatch" /\ q.dep = n /\ q.origin = iss[i].origin
            /\ q.todo = iss[i].todo /\ q.asset = iss[i].asset
        BY <1>0 DEF IssRow
      <4> HIDE DEF q
      <4>3. IssOK(q, dep')  BY <1>0, <2>0, <2>2, <2>5, <2>6, <4>2 DEF IssOK
      <4>4. JobOK(q, dep')  BY <1>0, <1>1, <2>8, <4>2 DEF JobOK
      <4>5. StaleOK(i, q)  BY <2>2 DEF StaleOK
      <4> QED BY <4>1, <4>2, <4>3, <4>4, <4>5
    <3> QED BY <1>3, <3>1, <3>2 DEF InsertDeployment
  <2>10. iss'[i] = q /\ \A j \in Issuer \ {i} : iss'[j] = iss[j]  BY <2>1, <2>9 DEF DepTypes
  <2>11. DepTypes'  BY <1>0, <1>1, <2>0, <2>1, <2>5, <2>9 DEF DepTypes
  <2>12. \A j \in Issuer : iss[j].dep \in 0 .. Len(dep)  BY <1>0, <2>1 DEF IssInv, IssOK
  <2>13. ASSUME NEW j \in Issuer \ {i} PROVE IssOK(iss[j], dep') /\ JobOK(iss[j], dep')
    <3>1. IssOK(iss[j], dep) /\ JobOK(iss[j], dep)  BY <2>1 DEF IssInv
    <3>2. iss[j].origin # NoOrigin => r.origin # iss[j].origin  BY <2>1, <2>3 DEF IssInv
    <3>3. IssOK(iss[j], dep')  BY <1>0, <2>0, <2>5, <3>1 DEF IssOK
    <3>4. JobOK(iss[j], dep')  BY <1>0, <2>5, <2>7, <3>1, <3>2 DEF JobOK
    <3> QED BY <3>3, <3>4
  <2>14. IssInv'
    <3>1. \A d \in 1 .. Len(dep') : DepOK(dep'[d])  BY <2>1, <2>5, <2>6, <2>7 DEF IssInv
    <3>2. \A j \in Issuer : IssOK(iss'[j], dep') /\ JobOK(iss'[j], dep')  BY <2>9, <2>10, <2>13
    <3>3. \A j, k \in Issuer : j # k /\ iss'[j].dep # 0 => iss'[j].dep # iss'[k].dep
      BY <1>0, <2>0, <2>1, <2>9, <2>10, <2>12 DEF IssInv
    <3>4. \A j, k \in Issuer : j # k /\ iss'[j].origin # NoOrigin => iss'[j].origin # iss'[k].origin
      BY <2>1, <2>9, <2>10 DEF IssInv
    <3> QED BY <3>1, <3>2, <3>3, <3>4 DEF IssInv
  <2>15. ExactInv'
    <3>1. \A d \in 1 .. Len(dep) : dep[d].origin # NoOrigin /\ dep[d].origin = r.origin => dep[d].asset # r.asset
      BY <1>0, <1>1, <2>3 DEF JobOK
    <3> QED BY <2>1, <2>5, <2>7, <3>1 DEF ExactInv
  <2>16. UNCHANGED <<auto, cron, sched, clock, stale>>  BY DEF cronVars
  <2>17. CronTypes'  BY <2>1, <2>16 DEF CronTypes
  <2>18. CronInv'
    <3>1. \A x \in Automation, t \in Nat : <<x, t>> # NoOrigin  BY DEF NoOrigin
    <3>2. \A j \in Issuer : iss'[j].origin \in {iss[j].origin, NoOrigin}  BY <2>9, <2>10
    <3>3. \A d \in 1 .. Len(dep') : dep'[d].origin = iss[i].origin \/ (d \in 1 .. Len(dep) /\ dep'[d].origin = dep[d].origin)
      BY <2>3, <2>5, <2>7
    <3>4. \A o : o # NoOrigin /\ Used(o)' => Used(o)  BY <3>2, <3>3 DEF Used
    <3>5. \A x \in Automation, t \in Nat : Used(<<x, t>>)' => Used(<<x, t>>)  BY <3>1, <3>4
    <3> QED BY <2>1, <2>16, <3>5 DEF CronInv
  <2>19. StaleInv'  BY <2>1, <2>9, <2>10, <2>16 DEF StaleInv, StaleOK
  <2> QED BY <2>11, <2>14, <2>15, <2>17, <2>18, <2>19 DEF DeployIInv
<1> QED BY <1>2, <1>3 DEF InsertDeployment

\* The steps of a job before and beside its deployments preserve the invariant.
LEMMA JobSteps ==
  ASSUME DeployIInv, NEW i \in Job, FetchAutomation(i) \/ ResolveTargets(i) \/ DispatchShutdown(i)
  PROVE  DeployIInv'
<1>0. i \in Issuer  BY DEF Issuer
<1>1. iss[i] \in IssRow /\ IssOK(iss[i], dep) /\ JobOK(iss[i], dep) /\ Len(dep) \in Nat
      /\ (iss[i].pc \notin {"idle", "fetch"} => i \notin stale)
  BY <1>0, Undeployed
<1>2. UNCHANGED <<pkg, cert, sess, dep, cronVars>>  BY DEF FetchAutomation, ResolveTargets, DispatchShutdown
<1>3. ASSUME iss' = [iss EXCEPT ![i] = Idle] PROVE DeployIInv'
  <2>1. StaleOK(i, Idle)  BY IdleFacts DEF StaleOK
  <2> QED BY <1>0, <1>2, <1>3, <2>1, IdleFacts, IssAlone
<1>4. CASE DispatchShutdown(i)  BY <1>0, <1>2, <1>4, EndAlone DEF DispatchShutdown
<1>5. CASE FetchAutomation(i)
  <2>1. CASE auto[iss[i].origin[1]].st = "on" /\ advance(i, "resolve")
    <3>1. iss[i].pc = "fetch"  BY <1>5 DEF FetchAutomation
    <3> DEFINE q == [iss[i] EXCEPT !.pc = "resolve"]
    <3>2. iss' = [iss EXCEPT ![i] = q]  BY <1>1, <2>1 DEF advance, IssRow
    <3>3. /\ q \in IssRow /\ q.pc = "resolve" /\ q.dep = iss[i].dep /\ q.origin = iss[i].origin
          /\ q.todo = iss[i].todo /\ q.asset = iss[i].asset
      BY <1>1 DEF IssRow
    <3> HIDE DEF q
    <3>4. IssOK(q, dep) /\ JobOK(q, dep)  BY <1>1, <3>1, <3>3 DEF IssOK, JobOK
    <3>5. i \notin stale  BY <1>0, <2>1, <3>1, DepFacts DEF StaleInv, StaleOK
    <3>6. StaleOK(i, q)  BY <3>5 DEF StaleOK
    <3> QED BY <1>0, <1>2, <3>2, <3>3, <3>4, <3>6, IssAlone
  <2>2. CASE iss' = [iss EXCEPT ![i] = Idle]  BY <1>3, <2>2
  <2> QED BY <1>5, <2>1, <2>2 DEF FetchAutomation
<1>6. CASE ResolveTargets(i)
  <2>1. PICK x : x = iss[i].origin[1]  OBVIOUS
  <2>2. iss[i].pc = "resolve"  BY <1>6 DEF ResolveTargets
  <2>3. x \in Automation
    <3>1. iss[i].origin \in Automation \X Nat  BY <1>1, <2>2 DEF JobOK, IssRow, Origin
    <3> QED BY <2>1, <3>1
  <2>4. PICK s, a :
          \/ iss' = [iss EXCEPT ![i] = Idle]
          \/ /\ s \in {"read", "shutdown"} /\ a \in targets(x)
             /\ iss' = [iss EXCEPT ![i].pc = s, ![i].first = s, ![i].asset = a, ![i].todo = targets(x) \ {a},
                                   ![i].pkg = auto[x].pkg]
    <3>1. CASE iss' = [iss EXCEPT ![i] = Idle]  BY <3>1
    <3>2. CASE iss' # [iss EXCEPT ![i] = Idle]
      <4>1. PICK a : a = CHOOSE t \in targets(x) : TRUE  OBVIOUS
      <4>2. PICK s : s = IF auto[x].act = "deploy" THEN "read" ELSE "shutdown"  OBVIOUS
      <4>3. targets(x) # {} /\ iss' = [iss EXCEPT ![i].pc = s, ![i].first = s, ![i].asset = a,
                                      ![i].todo = targets(x) \ {a}, ![i].pkg = auto[x].pkg]
        BY <1>6, <2>1, <3>2, <4>1, <4>2 DEF ResolveTargets
      <4>4. a \in targets(x)  BY <4>1, <4>3, Chosen
      <4>5. s \in {"read", "shutdown"}  BY <4>2
      <4> QED BY <4>3, <4>4, <4>5
    <3> QED BY <3>1, <3>2
  <2>5. CASE iss' = [iss EXCEPT ![i] = Idle]  BY <1>3, <2>5
  <2>6. CASE iss' # [iss EXCEPT ![i] = Idle]
    <3>1. PICK T : T = targets(x) \ {a}  OBVIOUS
    <3>2. a \in Asset /\ T \subseteq Asset /\ a \notin T  BY <2>4, <2>6, <3>1 DEF targets
    <3>3. PICK p \in Pkg \cup {Unset} : p = auto[x].pkg  BY <2>3, DepFacts DEF CronTypes, AutoRow
    <3> DEFINE q == [iss[i] EXCEPT !.pc = s, !.first = s, !.asset = a, !.todo = T, !.pkg = p]
    <3>4. iss' = [iss EXCEPT ![i] = q]  BY <1>1, <2>4, <2>6, <3>1, <3>3 DEF IssRow
    <3>5. /\ q \in IssRow /\ q.pc = s /\ q.dep = iss[i].dep /\ q.origin = iss[i].origin
          /\ q.todo = T /\ q.asset = a
      BY <1>1, <2>4, <2>6, <3>2 DEF IssRow
    <3> HIDE DEF q
    <3>6. IssOK(q, dep) /\ JobOK(q, dep)  BY <1>1, <2>2, <2>4, <2>6, <3>2, <3>5 DEF IssOK, JobOK
    <3>7. StaleOK(i, q)  BY <1>1, <2>2 DEF StaleOK
    <3> QED BY <1>0, <1>2, <3>4, <3>5, <3>6, <3>7, IssAlone
  <2> QED BY <2>5, <2>6
<1> QED BY <1>4, <1>5, <1>6

\* Steps of the scheduler alone
LEMMA CronAlone ==
  ASSUME DeployIInv, UNCHANGED depVars, CronTypes', CronInv', StaleInv'
  PROVE  DeployIInv'
<1>1. DepTypes /\ IssInv /\ ExactInv  BY DepFacts
<1>2. UNCHANGED <<pkg, cert, sess, dep, iss>>  BY DEF depVars
<1> QED BY <1>1, <1>2 DEF DeployIInv, DepTypes, IssInv, ExactInv

\* Editing automations, reloading the cron and the passing of time preserve the invariant.
LEMMA CronSteps ==
  ASSUME DeployIInv
  PROVE  /\ \A x \in Automation : CreateAutomation(x) \/ SwitchAutomation(x) => DeployIInv'
         /\ LoadActive \/ StopCron \/ StartCron \/ ClockTick => DeployIInv'
<1>1. CronTypes /\ CronInv /\ StaleInv /\ IssInv /\ \A i \in Issuer : iss[i] \in IssRow  BY DepFacts
<1>2. ASSUME UNCHANGED depVars PROVE \A o : Used(o)' <=> Used(o)
  BY <1>2 DEF depVars, Used
<1>3. \A i \in Issuer : iss[i].pc = "fetch" => iss[i].origin[1] \in Automation
  <2> SUFFICES ASSUME NEW i \in Issuer, iss[i].pc = "fetch" PROVE iss[i].origin[1] \in Automation
    OBVIOUS
  <2>1. iss[i].origin # NoOrigin  BY <1>1 DEF IssInv, JobOK
  <2>2. iss[i].origin \in Automation \X Nat  BY <1>1, <2>1 DEF IssRow, Origin
  <2> QED BY <2>2
<1>4. ASSUME NEW x \in Automation, CreateAutomation(x) PROVE DeployIInv'
  <2>1. auto[x].st = "none" /\ UNCHANGED <<depVars, cron, sched, clock, stale, stops>>  BY <1>4 DEF CreateAutomation
  <2>2. PICK r \in AutoRow : auto' = [auto EXCEPT ![x] = r]
    <3>1. PICK st \in {"on", "off"}, t \in Asset \cup {"os"} :
            \/ \E p \in Pkg, op \in {"install", "missing"} :
                 auto' = [auto EXCEPT ![x] = [st |-> st, act |-> "deploy", tgt |-> t, pkg |-> p, op |-> op]]
            \/ auto' = [auto EXCEPT ![x] = [NoAuto EXCEPT !.st = st, !.act = "shutdown", !.tgt = t]]
      BY <1>4 DEF CreateAutomation
    <3>2. \A p \in Pkg, op \in {"install", "missing"} :
            [st |-> st, act |-> "deploy", tgt |-> t, pkg |-> p, op |-> op] \in AutoRow
      BY DEF AutoRow
    <3>3. [NoAuto EXCEPT !.st = st, !.act = "shutdown", !.tgt = t] \in AutoRow
      BY DEF NoAuto, AutoRow
    <3> QED BY <3>1, <3>2, <3>3
  <2>3. auto' \in [Automation -> AutoRow] /\ \A y \in Automation \ {x} : auto'[y] = auto[y]
    BY <1>1, <2>2 DEF CronTypes
  <2>4. CronTypes'  BY <1>1, <2>1, <2>3 DEF CronTypes
  <2>5. CronInv'  BY <1>1, <1>2, <2>1 DEF CronInv
  <2>6. StaleInv'
    <3>1. iss' = iss /\ stale' = stale  BY <2>1 DEF depVars
    <3> QED BY <1>1, <1>3, <2>1, <2>3, <3>1 DEF StaleInv, StaleOK
  <2> QED BY <2>1, <2>4, <2>5, <2>6, CronAlone
<1>5. ASSUME NEW x \in Automation, SwitchAutomation(x) PROVE DeployIInv'
  <2>1. UNCHANGED <<depVars, cron, sched, clock, stops>>  BY <1>5 DEF SwitchAutomation
  <2>2. PICK st \in {"on", "off"} :
          /\ auto' = [auto EXCEPT ![x].st = st]
          /\ stale' = IF st = "on" THEN {i \in stale : iss[i].pc # "idle" /\ iss[i].origin[1] # x} ELSE stale
    BY <1>5 DEF SwitchAutomation
  <2>3. auto' \in [Automation -> AutoRow] /\ auto'[x].st = st /\ \A y \in Automation \ {x} : auto'[y] = auto[y]
    BY <1>1, <2>2 DEF CronTypes, AutoRow
  <2>4. CronTypes'  BY <1>1, <2>1, <2>2, <2>3 DEF CronTypes
  <2>5. CronInv'  BY <1>1, <1>2, <2>1 DEF CronInv
  <2>6. StaleInv'
    <3>1. iss' = iss  BY <2>1 DEF depVars
    <3>2. ASSUME NEW i \in Issuer, i \in stale', iss[i].pc # "idle"
          PROVE  iss[i].pc = "fetch" /\ auto'[iss[i].origin[1]].st = "off"
      <4>1. i \in stale  BY <2>2, <3>2
      <4>2. iss[i].pc = "fetch" /\ auto[iss[i].origin[1]].st = "off"  BY <1>1, <3>2, <4>1 DEF StaleInv, StaleOK
      <4>3. CASE iss[i].origin[1] = x  BY <2>2, <2>3, <3>2, <4>2, <4>3
      <4>4. CASE iss[i].origin[1] # x  BY <1>3, <2>3, <4>2, <4>4
      <4> QED BY <4>2, <4>3, <4>4
    <3> QED BY <3>1, <3>2 DEF StaleInv, StaleOK
  <2> QED BY <2>1, <2>4, <2>5, <2>6, CronAlone
<1>6. ASSUME UNCHANGED <<depVars, auto, stale>> PROVE StaleInv'
  <2>1. iss' = iss  BY <1>6 DEF depVars
  <2> QED BY <1>1, <1>6, <2>1 DEF StaleInv, StaleOK
<1>7. ASSUME LoadActive PROVE DeployIInv'
  <2>1. sched.pc = "idle" /\ sched' = [sched EXCEPT !.pc = "loaded", !.rows = ActiveAutomations]
        /\ UNCHANGED <<depVars, auto, cron, clock, stale, stops>>
    BY <1>7 DEF LoadActive
  <2>2. CronTypes' /\ sched'.pc = "loaded"  BY <1>1, <2>1 DEF CronTypes, ActiveAutomations
  <2>3. CronInv'  BY <1>1, <1>2, <2>1, <2>2 DEF CronInv
  <2> QED BY <1>6, <2>1, <2>2, <2>3, CronAlone
<1>8. ASSUME StopCron PROVE DeployIInv'
  <2>1. sched' = [sched EXCEPT !.pc = "stopped"] /\ cron' = {} /\ UNCHANGED <<depVars, auto, clock, stale, stops>>
    BY <1>8 DEF StopCron
  <2>2. CronTypes'  BY <1>1, <2>1 DEF CronTypes
  <2>3. CronInv'  BY <1>1, <1>2, <2>1 DEF CronInv
  <2> QED BY <1>6, <2>1, <2>2, <2>3, CronAlone
<1>9. ASSUME StartCron PROVE DeployIInv'
  <2>1. /\ sched.pc = "stopped" /\ sched' = [pc |-> "idle", rows |-> {}]
        /\ cron' = cron \cup {[auto |-> x, next |-> clock + 1] : x \in sched.rows}
        /\ UNCHANGED <<depVars, auto, clock, stale, stops>>
    BY <1>9 DEF StartCron
  <2>2. cron' = {[auto |-> x, next |-> clock + 1] : x \in sched.rows}  BY <1>1, <2>1 DEF CronInv
  <2>3. clock \in Nat /\ sched.rows \subseteq Automation  BY <1>1 DEF CronTypes
  <2>4. \A e \in cron' : e \in [auto : Automation, next : Nat] /\ e.next = clock + 1
    BY <2>2, <2>3
  <2>5. \A e, f \in cron' : e.auto = f.auto => e = f  BY <2>2
  <2>6. CronTypes' /\ sched'.pc = "idle"  BY <1>1, <2>1, <2>4 DEF CronTypes
  <2>7. \A x \in Automation, t \in Nat : Used(<<x, t>>)' => t <= clock  BY <1>1, <1>2, <2>1 DEF CronInv
  <2>8. \A x \in Automation, t \in Nat : Used(<<x, t>>)' => t <= clock' /\ \A e \in cron' : e.auto = x => t < e.next
    BY <2>1, <2>3, <2>4, <2>7
  <2>9. CronInv'  BY <2>5, <2>6, <2>8 DEF CronInv
  <2> QED BY <1>6, <2>1, <2>6, <2>9, CronAlone
<1>10. ASSUME ClockTick PROVE DeployIInv'
  <2>1. clock' = clock + 1 /\ UNCHANGED <<depVars, auto, cron, sched, stale, stops>>  BY <1>10 DEF ClockTick
  <2>2. CronTypes'  BY <1>1, <2>1 DEF CronTypes
  <2>3. clock \in Nat  BY <1>1 DEF CronTypes
  <2>4. \A x \in Automation, t \in Nat : Used(<<x, t>>)' => t <= clock' /\ \A e \in cron' : e.auto = x => t < e.next
    BY <1>1, <1>2, <2>1, <2>3 DEF CronInv
  <2>5. CronInv'  BY <1>1, <2>1, <2>4 DEF CronInv
  <2> QED BY <1>6, <2>1, <2>2, <2>5, CronAlone
<1> QED BY <1>4, <1>5, <1>7, <1>8, <1>9, <1>10

\* An activation starts a job that no deployment and no other job stands for.
LEMMA FireStep == ASSUME DeployIInv, NEW i \in Job, NEW e \in cron, Fire(e, i) PROVE DeployIInv'
<1>0. i \in Issuer  BY DEF Issuer
<1>1. DepTypes /\ IssInv /\ ExactInv /\ CronTypes /\ CronInv /\ StaleInv  BY DepFacts
<1>2. /\ e.next <= clock /\ iss[i].pc = "idle"
      /\ cron' = (cron \ {e}) \cup {[e EXCEPT !.next = clock + 1]}
      /\ iss' = [iss EXCEPT ![i] = [Idle EXCEPT !.pc = "fetch", !.origin = <<e.auto, clock>>, !.trig = TRUE]]
      /\ stale' = IF auto[e.auto].st = "off" THEN stale \cup {i} ELSE stale \ {i}
      /\ UNCHANGED <<pkg, cert, sess, dep, auto, sched, clock, stops>>
  BY DEF Fire
<1>3. e.auto \in Automation /\ e.next \in Nat /\ clock \in Nat  BY <1>1 DEF CronTypes
<1>4. PICK o \in Automation \X Nat : o = <<e.auto, clock>> /\ o[1] = e.auto /\ o # NoOrigin
  <2>1. <<e.auto, clock>> \in Automation \X Nat  BY <1>3
  <2>2. <<e.auto, clock>>[1] = e.auto  OBVIOUS
  <2>3. \A x \in Automation, t \in Nat : <<x, t>> # NoOrigin  BY DEF NoOrigin
  <2> QED BY <1>3, <2>1, <2>2, <2>3
<1>5. ~Used(o)  BY <1>1, <1>2, <1>3, <1>4 DEF CronInv
<1> DEFINE q == [Idle EXCEPT !.pc = "fetch", !.origin = o, !.trig = TRUE]
<1>6. /\ q \in IssRow /\ q.pc = "fetch" /\ q.origin = o /\ q.dep = 0 /\ q.todo = {} /\ q.asset = Unset
  BY IdleFacts DEF Idle, IssRow, Origin
<1>7. iss' = [iss EXCEPT ![i] = q]  BY <1>2, <1>4
<1> HIDE DEF q
<1>8. iss'[i] = q /\ \A j \in Issuer \ {i} : iss'[j] = iss[j]  BY <1>0, <1>1, <1>7 DEF DepTypes
<1>9. DepTypes'  BY <1>0, <1>1, <1>2, <1>6, <1>7 DEF DepTypes
<1>10. IssOK(q, dep) /\ JobOK(q, dep)
  <2>1. \A d \in 1 .. Len(dep) : dep[d].origin # o  BY <1>5 DEF Used
  <2> QED BY <1>4, <1>6, <2>1 DEF IssOK, JobOK
<1>11. IssInv'
  <2>1. \A j \in Issuer : iss[j].origin # o  BY <1>5 DEF Used
  <2>2. \A j \in Issuer : IssOK(iss'[j], dep) /\ JobOK(iss'[j], dep)  BY <1>1, <1>8, <1>10 DEF IssInv
  <2>3. \A j, k \in Issuer : j # k /\ iss'[j].dep # 0 => iss'[j].dep # iss'[k].dep
    BY <1>1, <1>6, <1>8 DEF IssInv
  <2>4. \A j, k \in Issuer : j # k /\ iss'[j].origin # NoOrigin => iss'[j].origin # iss'[k].origin
    BY <1>1, <1>6, <1>8, <2>1 DEF IssInv
  <2> QED BY <1>1, <1>2, <2>2, <2>3, <2>4 DEF IssInv
<1>12. ExactInv'  BY <1>1, <1>2 DEF ExactInv
<1> DEFINE f == [e EXCEPT !.next = clock + 1]
<1>13. f \in [auto : Automation, next : Nat] /\ f.auto = e.auto /\ f.next = clock + 1  BY <1>1, <1>3 DEF CronTypes
<1>14. cron' = (cron \ {e}) \cup {f}  BY <1>2
<1> HIDE DEF f
<1>15. CronTypes'  BY <1>1, <1>2, <1>13, <1>14 DEF CronTypes
<1>16. CronInv'
  <2>1. \A p : Used(p)' => Used(p) \/ p = o  BY <1>2, <1>6, <1>8 DEF Used
  <2>2. ASSUME NEW x \in Automation, NEW t \in Nat, Used(<<x, t>>)'
        PROVE  t <= clock /\ \A g \in cron' : g.auto = x => t < g.next
    <3>1. CASE <<x, t>> = o
      <4>1. x = e.auto /\ t = clock  BY <1>4, <3>1
      <4>2. \A g \in cron \ {e} : g.auto # x  BY <1>1, <4>1 DEF CronInv
      <4> QED BY <1>3, <1>13, <1>14, <4>1, <4>2
    <3>2. CASE <<x, t>> # o
      <4>1. Used(<<x, t>>)  BY <2>1, <2>2, <3>2
      <4>2. t <= clock /\ \A g \in cron : g.auto = x => t < g.next  BY <1>1, <4>1 DEF CronInv
      <4> QED BY <1>3, <1>13, <1>14, <4>2
    <3> QED BY <3>1, <3>2
  <2>3. \A g, h \in cron' : g.auto = h.auto => g = h  BY <1>1, <1>13, <1>14 DEF CronInv
  <2>4. sched.pc # "stopped"  BY <1>1 DEF CronInv
  <2> QED BY <1>2, <2>2, <2>3, <2>4 DEF CronInv
<1>17. StaleInv'
  <2>1. ASSUME NEW j \in Issuer, j \in stale', iss'[j].pc # "idle"
        PROVE  iss'[j].pc = "fetch" /\ auto[iss'[j].origin[1]].st = "off"
    <3>1. CASE j = i  BY <1>2, <1>4, <1>6, <1>8, <2>1, <3>1
    <3>2. CASE j # i  BY <1>1, <1>2, <1>8, <2>1, <3>2 DEF StaleInv, StaleOK
    <3> QED BY <3>1, <3>2
  <2> QED BY <1>2, <2>1 DEF StaleInv, StaleOK
<1> QED BY <1>9, <1>11, <1>12, <1>15, <1>16, <1>17 DEF DeployIInv

\* The end of the server process preserves the invariant, whether the scheduler ran or not.
LEMMA StopStep ==
  ASSUME DeployIInv, StopIssuers,
         \/ UNCHANGED cronVars
         \/ cron' = {} /\ sched' = [pc |-> "idle", rows |-> {}] /\ stale' = {} /\ UNCHANGED <<auto, clock>>
  PROVE  DeployIInv'
<1>1. DepTypes /\ IssInv /\ ExactInv /\ CronTypes /\ CronInv /\ StaleInv /\ Len(dep) \in Nat
      /\ DOMAIN dep = 1 .. Len(dep)
  BY DepFacts
<1>2. /\ iss' = [i \in Issuer |-> Idle] /\ sess' = [a \in Asset |-> 0] /\ UNCHANGED <<pkg, cert>>
      /\ dep' = [d \in DOMAIN dep |-> [dep[d] EXCEPT !.cmd = cutOff(dep[d].cmd)]]
  BY DEF StopIssuers
<1>3. ASSUME NEW d \in DOMAIN dep
      PROVE  dep'[d] \in DepRow /\ DepOK(dep'[d]) /\ dep'[d].asset = dep[d].asset /\ dep'[d].origin = dep[d].origin
  <2>1. dep'[d] = [dep[d] EXCEPT !.cmd = cutOff(dep[d].cmd)]  BY <1>2
  <2> QED BY <2>1, CutOff
<1>4. dep' \in Seq(DepRow) /\ Len(dep') = Len(dep)
  <2>1. DOMAIN dep' = DOMAIN dep /\ dep' = [d \in DOMAIN dep |-> dep'[d]]  BY <1>2
  <2> QED BY <1>3, <2>1, DepSeq
<1>5. \A i \in Issuer : iss'[i] = Idle  BY <1>2
<1>6. DepTypes'  BY <1>1, <1>2, <1>4, IdleFacts DEF DepTypes
<1>7. IssInv'  BY <1>1, <1>3, <1>4, <1>5, IdleFacts DEF IssInv
<1>8. ExactInv'  BY <1>1, <1>3, <1>4 DEF ExactInv
<1>9. \A x \in Automation, t \in Nat : Used(<<x, t>>)' => Used(<<x, t>>)
  <2>1. \A x \in Automation, t \in Nat : <<x, t>> # NoOrigin  BY DEF NoOrigin
  <2>2. \A o : o # NoOrigin /\ Used(o)' => Used(o)  BY <1>1, <1>3, <1>4, <1>5, IdleFacts DEF Used
  <2> QED BY <2>1, <2>2
<1>10. CronTypes' /\ CronInv' /\ StaleInv'
  <2>1. StaleInv'  BY <1>5, IdleFacts DEF StaleInv, StaleOK
  <2>2. CASE UNCHANGED cronVars
    <3>1. UNCHANGED <<auto, cron, sched, clock, stale>>  BY <2>2 DEF cronVars
    <3> QED BY <1>1, <1>9, <2>1, <3>1 DEF CronTypes, CronInv
  <2>3. CASE cron' = {} /\ sched' = [pc |-> "idle", rows |-> {}] /\ stale' = {} /\ UNCHANGED <<auto, clock>>
    <3>1. CronTypes'  BY <1>1, <2>3 DEF CronTypes
    <3>2. CronInv'  BY <1>1, <1>9, <2>3 DEF CronInv
    <3> QED BY <2>1, <3>1, <3>2
  <2> QED BY <2>2, <2>3
<1> QED BY <1>6, <1>7, <1>8, <1>10 DEF DeployIInv

\* The first state satisfies the invariant.
LEMMA DeployInitInv == AutoInit => DeployIInv
<1> SUFFICES ASSUME AutoInit PROVE DeployIInv
  OBVIOUS
<1>1. /\ pkg = [p \in Pkg |-> "none"] /\ cert \in [Asset -> {0, 1}] /\ sess = [a \in Asset |-> 0]
      /\ dep = <<>> /\ iss = [i \in Issuer |-> Idle]
      /\ auto = [x \in Automation |-> NoAuto] /\ cron = {} /\ sched = [pc |-> "idle", rows |-> {}]
      /\ clock = 0 /\ stale = {}
  BY DEF AutoInit, DepInit
<1>2. \A i \in Issuer : iss[i] = Idle  BY <1>1
<1>3. dep \in Seq(DepRow) /\ Len(dep) = 0 /\ 1 .. Len(dep) = {}  BY <1>1
<1>4. DepTypes  BY <1>1, <1>3, IdleFacts DEF DepTypes
<1>5. IssInv  BY <1>2, <1>3, IdleFacts DEF IssInv
<1>6. ExactInv  BY <1>3 DEF ExactInv
<1>7. CronTypes
  <2>1. NoAuto \in AutoRow  BY DEF NoAuto, AutoRow
  <2> QED BY <1>1, <2>1 DEF CronTypes
<1>8. CronInv
  <2>1. \A x \in Automation, t \in Nat : <<x, t>> # NoOrigin  BY DEF NoOrigin
  <2>2. \A o : o # NoOrigin => ~Used(o)  BY <1>2, <1>3, IdleFacts DEF Used
  <2>3. \A x \in Automation, t \in Nat : ~Used(<<x, t>>)  BY <2>1, <2>2
  <2> QED BY <1>1, <2>3 DEF CronInv
<1>9. StaleInv  BY <1>1 DEF StaleInv, StaleOK
<1> QED BY <1>4, <1>5, <1>6, <1>7, <1>8, <1>9 DEF DeployIInv

\* What happens to deployments and automations: operators, agents, the end of the process, the
\* scheduler, or nothing
DeployMoves ==
  \/ (DepNext \/ StopIssuers) /\ UNCHANGED cronVars
  \/ AutoNext
  \/ UNCHANGED autoVars

\* Every such step preserves the invariant.
LEMMA DeployStep == ASSUME DeployIInv, DeployMoves PROVE DeployIInv'
<1>1. ASSUME NEW i \in Issuer, Issue(i), UNCHANGED cronVars PROVE DeployIInv'
  BY <1>1, IssueSteps, InsertStep DEF Issue
<1>2. ASSUME DepNext, UNCHANGED cronVars PROVE DeployIInv'
  <2>1. CASE \E p \in Pkg : CreatePackage(p) \/ PatchPackage(p) \/ DeletePackage(p)
    BY <1>2, <2>1, PackageSteps
  <2>2. CASE \E i \in Handler : RequestDeployment(i) \/ Issue(i)
    BY <1>1, <1>2, <2>2, IssueSteps DEF Issuer
  <2>3. CASE \E a \in Asset : ConnectAgent(a) \/ DropAgent(a) \/ EnrolAgain(a)
    BY <1>2, <2>3, PackageSteps
  <2>4. CASE \E d \in DOMAIN dep : StartPackage(d) \/ FinishPackage(d) \/ ApplyPackageOutcome(d)
    BY <1>2, <2>4, PackageSteps
  <2> QED BY <1>2, <2>1, <2>2, <2>3, <2>4 DEF DepNext
<1>3. ASSUME AutoNext PROVE DeployIInv'
  <2>1. CASE DepNext /\ UNCHANGED cronVars  BY <1>2, <2>1
  <2>2. CASE \E x \in Automation : CreateAutomation(x) \/ SwitchAutomation(x)
    BY <2>2, CronSteps
  <2>3. CASE LoadActive \/ StopCron \/ StartCron \/ ClockTick  BY <2>3, CronSteps
  <2>4. CASE RestartScheduler  BY <2>4, StopStep DEF RestartScheduler
  <2>5. ASSUME NEW i \in Job,
               \/ \E e \in cron : Fire(e, i)
               \/ FetchAutomation(i) \/ ResolveTargets(i) \/ DispatchDeploy(i) \/ DispatchShutdown(i)
        PROVE  DeployIInv'
    <3>1. CASE \E e \in cron : Fire(e, i)  BY <3>1, FireStep
    <3>2. CASE FetchAutomation(i) \/ ResolveTargets(i) \/ DispatchShutdown(i)  BY <3>2, JobSteps
    <3>3. CASE DispatchDeploy(i)  BY <1>1, <3>3 DEF DispatchDeploy, Issuer
    <3> QED BY <2>5, <3>1, <3>2, <3>3
  <2> QED BY <1>3, <2>1, <2>2, <2>3, <2>4, <2>5 DEF AutoNext
<1>4. ASSUME UNCHANGED autoVars PROVE DeployIInv'
  <2>1. UNCHANGED <<iss, cronVars, pkg, cert, sess, dep>>  BY <1>4 DEF autoVars, depVars
  <2>2. DepTypes'  BY <2>1, DepFacts DEF DepTypes
  <2> QED BY <2>1, <2>2, DepSame, DepStep
<1> QED BY <1>2, <1>3, <1>4, StopStep DEF DeployMoves

\* The invariant says what deployments and jobs keep.
LEMMA DeployInvHolds == DeployIInv => DeployInv /\ JobsAreExact
<1> SUFFICES ASSUME DeployIInv PROVE DeployInv /\ JobsAreExact
  OBVIOUS
<1>1. /\ DepTypes /\ IssInv /\ ExactInv /\ CronTypes /\ CronInv /\ StaleInv
      /\ \A i \in Issuer : iss[i] \in IssRow
      /\ \A d \in DOMAIN dep : dep[d] \in DepRow
      /\ DOMAIN dep = 1 .. Len(dep) /\ Len(dep) \in Nat
  BY DepFacts
<1>2. \A i \in Issuer : iss[i].dep \in 0 .. Len(dep)  BY <1>1 DEF IssInv, IssOK
<1>3. \A d \in DOMAIN dep : dep[d].row \in DepRows \cup {"deleted"}  BY <1>1 DEF DepRow
<1>4. DepTypeOK  BY <1>1, <1>2, <1>3 DEF DepTypeOK, DepTypes
<1>5. HonestDeployments
  <2> SUFFICES ASSUME NEW d \in DOMAIN dep
               PROVE  /\ dep[d].row = "succeeded" => dep[d].ran = "ok" /\ dep[d].can
                      /\ dep[d].row = "failed" => IF dep[d].by = "agent" THEN dep[d].ran = "err"
                                                 ELSE dep[d].cmd = "no" /\ dep[d].ran = "no"
                      /\ dep[d].row = "dispatched" => dep[d].ser # 0
    BY DEF HonestDeployments
  <2>1. DepOK(dep[d])  BY <1>1 DEF IssInv
  <2> QED BY <2>1 DEF DepOK
<1>6. JobsAreExact
  <2>1. \A i \in stale : iss[i].pc \in {"idle", "fetch"}  BY <1>1 DEF CronTypes, StaleInv, StaleOK, Issuer
  <2> QED BY <1>1, <2>1 DEF ExactInv, JobsAreExact
<1> QED BY <1>4, <1>5, <1>6 DEF DeployInv

\* A stored outcome whose dispatching call is over is touched by nothing but its package's removal:
\* its command has ended, so no report is to come.
LEMMA RowStays ==
  ASSUME DeployIInv, DeployMoves, NEW d \in DOMAIN dep, dep[d].row \in {"succeeded", "failed"},
         \A i \in Issuer : iss[i].dep # d
  PROVE  dep'[d].row \in {dep[d].row, "deleted"}
<1>1. dep[d] \in DepRow /\ DepOK(dep[d]) /\ dep \in Seq(DepRow) /\ DOMAIN dep = 1 .. Len(dep) /\ Len(dep) \in Nat
  BY DepFacts DEF IssInv, DepTypes
<1>2. dep[d].cmd \in {"end", "no"}  BY <1>1 DEF DepOK
<1>3. \A e \in DOMAIN dep : dep[e] \in DepRow  BY DepFacts
<1>4. ASSUME dep' = dep PROVE dep'[d].row \in {dep[d].row, "deleted"}
  BY <1>4
<1>5. ASSUME NEW e, NEW r, e # d, dep' = [dep EXCEPT ![e] = r] PROVE dep'[d].row \in {dep[d].row, "deleted"}
  BY <1>5
<1>6. ASSUME NEW i \in Issuer, Issue(i) PROVE dep'[d].row \in {dep[d].row, "deleted"}
  <2>1. CASE ReadPackage(i) \/ FailIssuer(i) \/ LookupSerial(i)
    BY <1>4, <2>1 DEF ReadPackage, FailIssuer, LookupSerial
  <2>2. CASE InsertDeployment(i)
    <3>1. dep' = dep \/ dep' = Append(dep, NewDep(i))  BY <2>2 DEF InsertDeployment
    <3>2. ASSUME dep' = Append(dep, NewDep(i)) PROVE dep'[d] = dep[d]
      <4>1. PICK n : n = NewDep(i)  OBVIOUS
      <4> QED BY <1>1, <3>2, <4>1
    <3> QED BY <1>4, <3>1, <3>2
  <2>3. CASE DispatchDeployment(i)
    <3>1. PICK e : e = iss[i].dep  OBVIOUS
    <3>2. dep' = dep \/ dep' = [dep EXCEPT ![e].cmd = "wire", ![e].ser = iss[i].ser]
      BY <2>3, <3>1 DEF DispatchDeployment
    <3> QED BY <1>4, <3>1, <3>2
  <2>4. CASE StoreDispatch(i)
    <3>1. PICK e : e = iss[i].dep  OBVIOUS
    <3>2. \/ dep' = dep \/ dep' = [dep EXCEPT ![e].row = "dispatched"]
          \/ dep' = [dep EXCEPT ![e].row = "failed", ![e].by = "dispatch"]
      BY <2>4, <3>1 DEF StoreDispatch
    <3> QED BY <1>4, <3>1, <3>2
  <2> QED BY <1>6, <2>1, <2>2, <2>3, <2>4 DEF Issue
<1>7. ASSUME DepNext PROVE dep'[d].row \in {dep[d].row, "deleted"}
  <2>1. ASSUME NEW p \in Pkg, CreatePackage(p) \/ PatchPackage(p) \/ DeletePackage(p)
        PROVE  dep'[d].row \in {dep[d].row, "deleted"}
    <3>1. CASE CreatePackage(p) \/ PatchPackage(p)  BY <1>4, <3>1 DEF CreatePackage, PatchPackage
    <3>2. CASE DeletePackage(p)
      <4>1. dep'[d] = IF dep[d].pkg = p THEN [dep[d] EXCEPT !.row = "deleted"] ELSE dep[d]
        BY <3>2 DEF DeletePackage
      <4>2. [dep[d] EXCEPT !.row = "deleted"].row = "deleted"  BY <1>1 DEF DepRow
      <4> QED BY <4>1, <4>2
    <3> QED BY <2>1, <3>1, <3>2
  <2>2. ASSUME NEW i \in Handler, RequestDeployment(i) \/ Issue(i) PROVE dep'[d].row \in {dep[d].row, "deleted"}
    BY <1>4, <1>6, <2>2 DEF RequestDeployment, Issuer
  <2>3. ASSUME NEW a \in Asset, ConnectAgent(a) \/ DropAgent(a) \/ EnrolAgain(a)
        PROVE  dep'[d].row \in {dep[d].row, "deleted"}
    <3>1. CASE ConnectAgent(a) \/ EnrolAgain(a)  BY <1>4, <3>1 DEF ConnectAgent, EnrolAgain
    <3>2. CASE DropAgent(a)
      <4>1. dep'[d] \in {[dep[d] EXCEPT !.cmd = cutOff(dep[d].cmd)], dep[d]}
        BY <3>2 DEF DropAgent
      <4> QED BY <4>1, CutOff
    <3> QED BY <2>3, <3>1, <3>2
  <2>4. ASSUME NEW e \in DOMAIN dep, StartPackage(e) \/ FinishPackage(e) \/ ApplyPackageOutcome(e)
        PROVE  dep'[d].row \in {dep[d].row, "deleted"}
    <3>1. CASE e # d
      BY <2>4, <3>1 DEF StartPackage, FinishPackage, ApplyPackageOutcome
    <3>2. CASE e = d
      BY <1>2, <2>4, <3>2 DEF StartPackage, FinishPackage, ApplyPackageOutcome
    <3> QED BY <3>1, <3>2
  <2> QED BY <1>7, <2>1, <2>2, <2>3, <2>4 DEF DepNext
<1>8. ASSUME StopIssuers PROVE dep'[d].row \in {dep[d].row, "deleted"}
  <2>1. dep'[d] = [dep[d] EXCEPT !.cmd = cutOff(dep[d].cmd)]  BY <1>8 DEF StopIssuers
  <2> QED BY <2>1, CutOff
<1>9. ASSUME AutoNext PROVE dep'[d].row \in {dep[d].row, "deleted"}
  <2>1. CASE DepNext  BY <1>7, <2>1
  <2>2. CASE RestartScheduler  BY <1>8, <2>2 DEF RestartScheduler
  <2>3. ASSUME NEW i \in Job, DispatchDeploy(i) PROVE dep'[d].row \in {dep[d].row, "deleted"}
    BY <1>6, <2>3 DEF DispatchDeploy, Issuer
  <2>4. CASE dep' = dep  BY <1>4, <2>4
  <2>5. \/ DepNext \/ RestartScheduler \/ (\E i \in Job : DispatchDeploy(i)) \/ dep' = dep
    BY <1>9 DEF AutoNext, depVars, CreateAutomation, SwitchAutomation, LoadActive, StopCron, StartCron, ClockTick,
         Fire, FetchAutomation, ResolveTargets, DispatchShutdown
  <2> QED BY <2>1, <2>2, <2>3, <2>4, <2>5
<1>10. ASSUME UNCHANGED autoVars PROVE dep'[d].row \in {dep[d].row, "deleted"}
  BY <1>4, <1>10 DEF autoVars, depVars
<1> QED BY <1>7, <1>8, <1>9, <1>10 DEF DeployMoves

HIDE DepAssumption

-----------------------------------------------------------------------------
(* The policy merge and the profiles                                       *)

\* A set of numbers that is not empty has a least one: what stands for induction here.
LEMMA Least ==
  ASSUME NEW T \in SUBSET Nat, T # {}
  PROVE  \E x \in T : \A y \in T : x <= y
<1>1. PICK x \in T : \A y \in T : <<y, x>> \notin OpToRel(<, Nat)
  <2>1. T \subseteq Nat  OBVIOUS
  <2> QED BY <2>1, NatLessThanWellFounded, WFMin
<1>2. \A y \in T : ~(y < x)  BY <1>1 DEF OpToRel
<1>3. x \in Nat /\ \A y \in T : y \in Nat  OBVIOUS
<1> QED BY <1>2, <1>3

\* A sequence that is not empty has a first element, and its elements are of its set.
LEMMA NonEmpty ==
  ASSUME NEW R, NEW q \in Seq(R), q # << >>
  PROVE  Len(q) \in Nat \ {0} /\ DOMAIN q = 1 .. Len(q) /\ 1 \in DOMAIN q /\ \A i \in DOMAIN q : q[i] \in R
<1>1. Len(q) \in Nat \ {0} /\ DOMAIN q = 1 .. Len(q)  OBVIOUS
<1>2. \A i \in 1 .. Len(q) : q[i] \in R  OBVIOUS
<1> QED BY <1>1, <1>2

(* Arrays in the order of their JSON                                        *)

\* s comes before t because of what they have at place i.
Before(s, t, i) ==
  /\ i \in 1..Len(s)
  /\ \A j \in 1..(i - 1) : j <= Len(t) /\ s[j] = t[j]
  /\ i > Len(t) \/ s[i] < t[i]

\* Of two arrays of numbers one is first.
LEMMA ArraysCompare ==
  ASSUME NEW s \in Seq(Nat), NEW t \in Seq(Nat)
  PROVE  arrayLeq(s, t) \/ arrayLeq(t, s)
<1> SUFFICES ASSUME s # t PROVE (\E i \in 1..Len(s) : Before(s, t, i)) \/ (\E i \in 1..Len(t) : Before(t, s, i))
  BY DEF arrayLeq, Before
<1>1. /\ Len(s) \in Nat /\ Len(t) \in Nat /\ s = [i \in 1..Len(s) |-> s[i]] /\ t = [i \in 1..Len(t) |-> t[i]]
      /\ \A i \in 1..Len(s) : s[i] \in Nat
      /\ \A i \in 1..Len(t) : t[i] \in Nat
  OBVIOUS
<1> DEFINE D == {i \in Nat \ {0} : i > Len(s) \/ i > Len(t) \/ s[i] # t[i]}
<1>2. \E i \in D : i <= Len(s) \/ i <= Len(t)
  <2>1. CASE Len(s) = Len(t)
    <3>1. \E i \in 1..Len(s) : s[i] # t[i]  BY <1>1, <2>1
    <3> QED BY <1>1, <3>1
  <2>2. CASE Len(s) < Len(t)
    <3>1. Len(t) \in D  BY <1>1, <2>2
    <3> QED BY <1>1, <3>1
  <2>3. CASE Len(t) < Len(s)
    <3>1. Len(s) \in D  BY <1>1, <2>3
    <3> QED BY <1>1, <3>1
  <2>4. Len(s) \in Nat /\ Len(t) \in Nat  OBVIOUS
  <2>5. Len(s) = Len(t) \/ Len(s) < Len(t) \/ Len(t) < Len(s)  BY <2>4
  <2> QED BY <2>1, <2>2, <2>3, <2>5
<1>3. D \in SUBSET Nat /\ D # {}  BY <1>2
<1>4. PICK d \in D : \A y \in D : d <= y
  <2> HIDE DEF D
  <2> QED BY <1>3, Least
<1>5. d \in Nat \ {0} /\ (d <= Len(s) \/ d <= Len(t))  BY <1>1, <1>2, <1>4
<1>6. \A j \in 1..(d - 1) : j <= Len(s) /\ j <= Len(t) /\ s[j] = t[j]
  <2> SUFFICES ASSUME NEW j \in 1..(d - 1) PROVE j <= Len(s) /\ j <= Len(t) /\ s[j] = t[j]  OBVIOUS
  <2>1. j \in Nat \ {0} /\ j < d  BY <1>5
  <2>2. j \notin D
    <3> HIDE DEF D
    <3> QED BY <1>4, <1>5, <2>1
  <2> QED BY <1>1, <2>1, <2>2
<1>7. d > Len(s) \/ d > Len(t) \/ s[d] # t[d]  BY <1>4
<1> HIDE DEF D
<1>8. CASE d <= Len(s) /\ (d > Len(t) \/ s[d] < t[d])
  <2>1. d \in 1..Len(s)  BY <1>1, <1>5, <1>8
  <2>2. Before(s, t, d)  BY <1>6, <1>8, <2>1 DEF Before
  <2> QED BY <2>1, <2>2
<1>9. CASE d <= Len(t) /\ (d > Len(s) \/ t[d] < s[d])
  <2>1. d \in 1..Len(t)  BY <1>1, <1>5, <1>9
  <2>2. Before(t, s, d)  BY <1>6, <1>9, <2>1 DEF Before
  <2> QED BY <2>1, <2>2
<1>10. CASE d <= Len(s) /\ d <= Len(t) /\ s[d] # t[d]
  <2>1. s[d] \in Nat /\ t[d] \in Nat  BY <1>1, <1>5, <1>10
  <2>2. s[d] < t[d] \/ t[d] < s[d]  BY <1>10, <2>1
  <2> QED BY <1>8, <1>9, <1>10, <2>2
<1> QED BY <1>1, <1>5, <1>7, <1>8, <1>9, <1>10

\* Two arrays that each come first are one.
LEMMA ArraysDiffer ==
  ASSUME NEW s \in Seq(Nat), NEW t \in Seq(Nat), arrayLeq(s, t), arrayLeq(t, s)
  PROVE  s = t
<1> SUFFICES ASSUME s # t PROVE FALSE  OBVIOUS
<1>1. PICK i \in 1..Len(s) : Before(s, t, i)  BY DEF arrayLeq, Before
<1>2. PICK j \in 1..Len(t) : Before(t, s, j)  BY DEF arrayLeq, Before
<1>3. Len(s) \in Nat /\ Len(t) \in Nat /\ i \in Nat /\ j \in Nat  OBVIOUS
<1>4. (\A h \in 1..Len(s) : s[h] \in Nat) /\ (\A h \in 1..Len(t) : t[h] \in Nat)  OBVIOUS
<1>5. CASE i < j
  <2>1. i \in 1..(j - 1)  BY <1>3, <1>5
  <2>2. t[i] = s[i] /\ i <= Len(t)  BY <1>2, <1>3, <1>5, <2>1 DEF Before
  <2>3. s[i] < t[i]  BY <1>1, <1>3, <2>2 DEF Before
  <2> QED BY <1>4, <2>2, <2>3
<1>6. CASE j < i
  <2>1. j \in 1..(i - 1)  BY <1>3, <1>6
  <2>2. t[j] = s[j] /\ j <= Len(s)  BY <1>1, <1>3, <1>6, <2>1 DEF Before
  <2>3. t[j] < s[j]  BY <1>2, <1>3, <2>2 DEF Before
  <2> QED BY <1>4, <2>2, <2>3
<1>7. CASE i = j
  <2>1. s[i] < t[i] /\ t[i] < s[i]  BY <1>1, <1>2, <1>3, <1>7 DEF Before
  <2>2. s[i] \in Nat /\ t[i] \in Nat  BY <1>4, <1>7
  <2> QED BY <2>1, <2>2
<1> QED BY <1>3, <1>5, <1>6, <1>7

\* The order of arrays is transitive.
LEMMA ArraysChain ==
  ASSUME NEW s \in Seq(Nat), NEW t \in Seq(Nat), NEW u \in Seq(Nat), arrayLeq(s, t), arrayLeq(t, u)
  PROVE  arrayLeq(s, u)
<1>1. CASE s = t \/ t = u  BY <1>1
<1>2. CASE s # t /\ t # u
  <2>1. PICK i \in 1..Len(s) : Before(s, t, i)  BY <1>2 DEF arrayLeq, Before
  <2>2. PICK j \in 1..Len(t) : Before(t, u, j)  BY <1>2 DEF arrayLeq, Before
  <2>3. Len(s) \in Nat /\ Len(t) \in Nat /\ Len(u) \in Nat /\ i \in Nat /\ j \in Nat  OBVIOUS
  <2>4. /\ \A h \in 1..Len(s) : s[h] \in Nat
        /\ \A h \in 1..Len(t) : t[h] \in Nat
        /\ \A h \in 1..Len(u) : u[h] \in Nat
    OBVIOUS
  <2>5. ASSUME NEW h \in 1..Len(s), Before(s, u, h) PROVE arrayLeq(s, u)  BY <2>5 DEF arrayLeq, Before
  <2>6. CASE i <= j
    <3>1. \A h \in 1..(i - 1) : h <= Len(u) /\ s[h] = u[h]
      <4> SUFFICES ASSUME NEW h \in 1..(i - 1) PROVE h <= Len(u) /\ s[h] = u[h]  OBVIOUS
      <4>1. h \in 1..(j - 1)  BY <2>3, <2>6
      <4> QED BY <2>1, <2>2, <4>1 DEF Before
    <3>2. i \in 1..Len(t)  BY <2>2, <2>3, <2>6
    <3>3. s[i] < t[i]  BY <2>1, <2>3, <3>2 DEF Before
    <3>4. CASE i = j
      <4>1. i > Len(u) \/ t[i] < u[i]  BY <2>2, <3>4 DEF Before
      <4>2. CASE i > Len(u)  BY <2>1, <2>5, <3>1, <4>2 DEF Before
      <4>3. CASE i <= Len(u) /\ t[i] < u[i]
        <5>1. s[i] \in Nat /\ t[i] \in Nat /\ u[i] \in Nat  BY <2>3, <2>4, <3>2, <4>3
        <5>2. \A x, y, z \in Nat : x < y /\ y < z => x < z  OBVIOUS
        <5>3. s[i] < u[i]  BY <3>3, <4>3, <5>1, <5>2
        <5> QED BY <2>1, <2>5, <3>1, <5>3 DEF Before
      <4> QED BY <2>3, <4>1, <4>2, <4>3
    <3>5. CASE i < j
      <4>1. i \in 1..(j - 1)  BY <2>3, <3>5
      <4>2. t[i] = u[i]  BY <2>2, <4>1 DEF Before
      <4> QED BY <2>1, <2>5, <3>1, <3>3, <4>2 DEF Before
    <3> QED BY <2>3, <2>6, <3>4, <3>5
  <2>7. CASE j < i
    <3>1. \A h \in 1..(j - 1) : h <= Len(u) /\ s[h] = u[h]
      <4> SUFFICES ASSUME NEW h \in 1..(j - 1) PROVE h <= Len(u) /\ s[h] = u[h]  OBVIOUS
      <4>1. h \in 1..(i - 1)  BY <2>3, <2>7
      <4> QED BY <2>1, <2>2, <4>1 DEF Before
    <3>2. j \in 1..(i - 1) /\ j \in 1..Len(s)  BY <2>1, <2>3, <2>7
    <3>3. s[j] = t[j]  BY <2>1, <3>2 DEF Before
    <3>4. j > Len(u) \/ s[j] < u[j]  BY <2>2, <3>3 DEF Before
    <3> QED BY <2>5, <3>1, <3>2, <3>4 DEF Before
  <2> QED BY <2>3, <2>6, <2>7
<1> QED BY <1>1, <1>2

(* Values in the order of strictness                                        *)

\* Values of JSON, with arrays of any length.
Json == [k : {"bool"}, v : {0, 1}] \cup [k : {"num", "str"}, v : Nat] \cup [k : {"null", "obj"}, v : {0}]
        \cup [k : {"arr"}, v : Seq(Nat)]

\* A merge that sees null sees no Boolean.
NoClash(V) == ~({"null", "bool"} \subseteq {x.k : x \in V})

\* What a value of a kind looks like
LEMMA JsonShape ==
  ASSUME NEW x \in Json
  PROVE  /\ x = [k |-> x.k, v |-> x.v]
         /\ x.k \in {"bool", "num", "str", "null", "obj", "arr"}
         /\ x.k = "bool" => x.v \in {0, 1}
         /\ x.k \in {"null", "obj"} => x.v = 0
         /\ x.k = "arr" => x.v \in Seq(Nat)
         /\ x.k # "arr" => x.v \in Nat
BY DEF Json

\* Values of different kinds compare by the kinds.
LEMMA KindsCompare ==
  ASSUME NEW a \in Json, NEW b \in Json, a.k # b.k, ~({"null", "bool"} \subseteq {a.k, b.k})
  PROVE  /\ Weight(a.k) \in Nat /\ Weight(b.k) \in Nat /\ Weight(a.k) # Weight(b.k)
         /\ jsonLeq(a, b) <=> Weight(a.k) < Weight(b.k)
<1>1. /\ a.k \in {"bool", "num", "str", "null", "obj", "arr"}
      /\ b.k \in {"bool", "num", "str", "null", "obj", "arr"}
  BY JsonShape
<1>2. Weight(a.k) \in Nat /\ Weight(b.k) \in Nat /\ Weight(a.k) # Weight(b.k)  BY <1>1 DEF Weight
<1>3. /\ first(a) = Weight(a.k) \/ (a.k = "bool" /\ first(a) \in {3, 5}) \/ (a.k = "null" /\ first(a) = 4)
      /\ first(b) = Weight(b.k) \/ (b.k = "bool" /\ first(b) \in {3, 5}) \/ (b.k = "null" /\ first(b) = 4)
  BY <1>1 DEF first, Weight
<1>4. first(a) # first(b) /\ (first(a) < first(b) <=> Weight(a.k) < Weight(b.k))
  BY <1>1, <1>3 DEF Weight
<1> QED BY <1>2, <1>4 DEF jsonLeq

\* Strictness is an order.
LEMMA StrictnessIsOrder ==
  ASSUME NEW l
  PROVE  /\ \A a \in Json : Stricter(l, a, a)
         /\ \A a, b \in Json : Stricter(l, a, b) /\ Stricter(l, b, a) => a = b
         /\ \A a, b, c \in Json : Stricter(l, a, b) /\ Stricter(l, b, c) => Stricter(l, a, c)
<1>1. \A a \in Json : Stricter(l, a, a)
  <2> SUFFICES ASSUME NEW a \in Json PROVE Stricter(l, a, a)  OBVIOUS
  <2>1. a.k # "arr" => a.v \in Nat  BY JsonShape
  <2> QED BY <2>1 DEF Stricter, arrayLeq
<1>2. ASSUME NEW a \in Json PROVE Weight(a.k) \in Nat
  <2>1. a.k \in {"bool", "num", "str", "null", "obj", "arr"}  BY JsonShape
  <2> QED BY <2>1 DEF Weight
<1>3. \A a, b \in Json : Stricter(l, a, b) /\ Stricter(l, b, a) => a = b
  <2> SUFFICES ASSUME NEW a \in Json, NEW b \in Json, Stricter(l, a, b), Stricter(l, b, a) PROVE a = b
    OBVIOUS
  <2>1. Weight(a.k) \in Nat /\ Weight(b.k) \in Nat  BY <1>2
  <2>2. a.k = b.k  BY <2>1 DEF Stricter
  <2>3. a = [k |-> a.k, v |-> a.v] /\ b = [k |-> b.k, v |-> b.v]  BY JsonShape
  <2>4. CASE a.k = "arr"
    <3>1. a.v \in Seq(Nat) /\ b.v \in Seq(Nat)  BY <2>2, <2>4, JsonShape
    <3>2. arrayLeq(a.v, b.v) /\ arrayLeq(b.v, a.v)  BY <2>2, <2>4 DEF Stricter
    <3>3. a.v = b.v  BY <3>1, <3>2, ArraysDiffer
    <3> QED BY <2>2, <2>3, <3>3
  <2>5. CASE a.k # "arr"
    <3>1. a.v \in Nat /\ b.v \in Nat  BY <2>2, <2>5, JsonShape
    <3>2. a.v = b.v  BY <2>2, <2>5, <3>1 DEF Stricter
    <3> QED BY <2>2, <2>3, <3>2
  <2> QED BY <2>4, <2>5
<1>4. \A a, b, c \in Json : Stricter(l, a, b) /\ Stricter(l, b, c) => Stricter(l, a, c)
  <2> SUFFICES ASSUME NEW a \in Json, NEW b \in Json, NEW c \in Json, Stricter(l, a, b), Stricter(l, b, c)
               PROVE  Stricter(l, a, c)
    OBVIOUS
  <2>1. Weight(a.k) \in Nat /\ Weight(b.k) \in Nat /\ Weight(c.k) \in Nat  BY <1>2
  <2>2. CASE a.k # b.k \/ b.k # c.k
    <3>1. Weight(a.k) < Weight(c.k)  BY <2>1, <2>2 DEF Stricter
    <3>2. a.k # c.k  BY <2>1, <3>1
    <3> QED BY <3>1, <3>2 DEF Stricter
  <2>3. CASE a.k = b.k /\ b.k = c.k /\ a.k = "arr"
    <3>1. a.v \in Seq(Nat) /\ b.v \in Seq(Nat) /\ c.v \in Seq(Nat)  BY <2>3, JsonShape
    <3>2. arrayLeq(a.v, b.v) /\ arrayLeq(b.v, c.v)  BY <2>3 DEF Stricter
    <3>3. arrayLeq(a.v, c.v)  BY <3>1, <3>2, ArraysChain
    <3> QED BY <2>3, <3>3 DEF Stricter
  <2>4. CASE a.k = b.k /\ b.k = c.k /\ a.k # "arr"
    <3>1. a.v \in Nat /\ b.v \in Nat /\ c.v \in Nat  BY <2>4, JsonShape
    <3> QED BY <2>4, <3>1 DEF Stricter
  <2> QED BY <2>2, <2>3, <2>4
<1> QED BY <1>1, <1>3, <1>4

\* Two numbers have a least and a greatest one.
LEMMA OfTwo ==
  ASSUME NEW x \in Nat, NEW y \in Nat
  PROVE  /\ least({x, y}) = IF x <= y THEN x ELSE y
         /\ greatest({x, y}) = IF x <= y THEN y ELSE x
<1>1. ASSUME NEW z \in {x, y}, \A u \in {x, y} : z <= u PROVE least({x, y}) = z
  <2>1. least({x, y}) \in {x, y} /\ \A u \in {x, y} : least({x, y}) <= u  BY <1>1 DEF least
  <2> QED BY <1>1, <2>1
<1>2. ASSUME NEW z \in {x, y}, \A u \in {x, y} : u <= z PROVE greatest({x, y}) = z
  <2>1. greatest({x, y}) \in {x, y} /\ \A u \in {x, y} : u <= greatest({x, y})  BY <1>2 DEF greatest
  <2> QED BY <1>2, <2>1
<1>3. CASE x <= y  BY <1>1, <1>2, <1>3
<1>4. CASE ~(x <= y)  BY <1>1, <1>2, <1>4
<1> QED BY <1>3, <1>4

\* restrictivePickScalars takes the stricter of two values.
LEMMA PicksStricter ==
  ASSUME NEW l, NEW a \in Json, NEW b \in Json, ~({"null", "bool"} \subseteq {a.k, b.k})
  PROVE  LET r == restrictivePickScalars(l, a, b) IN
         r \in {a, b} /\ Stricter(l, r, a) /\ Stricter(l, r, b)
<1> DEFINE r == restrictivePickScalars(l, a, b)
<1>0. Stricter(l, a, a) /\ Stricter(l, b, b)  BY StrictnessIsOrder
<1>1. a = [k |-> a.k, v |-> a.v] /\ b = [k |-> b.k, v |-> b.v]  BY JsonShape
<1>2. CASE a.k # b.k
  <2>1. r = IF jsonLeq(a, b) THEN a ELSE b  BY <1>2 DEF restrictivePickScalars
  <2>2. /\ Weight(a.k) \in Nat /\ Weight(b.k) \in Nat /\ Weight(a.k) # Weight(b.k)
        /\ jsonLeq(a, b) <=> Weight(a.k) < Weight(b.k)
    BY <1>2, KindsCompare
  <2>3. CASE jsonLeq(a, b)
    <3>1. Stricter(l, a, b)  BY <1>2, <2>2, <2>3 DEF Stricter
    <3> QED BY <1>0, <2>1, <2>3, <3>1
  <2>4. CASE ~jsonLeq(a, b)
    <3>1. Stricter(l, b, a)  BY <1>2, <2>2, <2>4 DEF Stricter
    <3> QED BY <1>0, <2>1, <2>4, <3>1
  <2> QED BY <2>3, <2>4
<1>3. CASE a.k = b.k /\ a.k = "arr"
  <2>1. r = IF jsonLeq(a, b) THEN a ELSE b  BY <1>3 DEF restrictivePickScalars
  <2>2. jsonLeq(a, b) <=> arrayLeq(a.v, b.v)  BY <1>3 DEF jsonLeq, first
  <2>3. a.v \in Seq(Nat) /\ b.v \in Seq(Nat)  BY <1>3, JsonShape
  <2>4. arrayLeq(a.v, b.v) \/ arrayLeq(b.v, a.v)  BY <2>3, ArraysCompare
  <2>5. CASE arrayLeq(a.v, b.v)
    <3>1. Stricter(l, a, b)  BY <1>3, <2>5 DEF Stricter
    <3> QED BY <1>0, <2>1, <2>2, <2>5, <3>1
  <2>6. CASE ~arrayLeq(a.v, b.v)
    <3>1. Stricter(l, b, a)  BY <1>3, <2>4, <2>6 DEF Stricter
    <3> QED BY <1>0, <2>1, <2>2, <2>6, <3>1
  <2> QED BY <2>5, <2>6
<1>4. CASE a.k = b.k /\ a.k \in {"null", "obj"}
  <2>1. a = b  BY <1>1, <1>4, JsonShape
  <2>2. r = IF jsonLeq(a, b) THEN a ELSE b  BY <1>4 DEF restrictivePickScalars
  <2> QED BY <1>0, <2>1, <2>2
<1>5. CASE a.k = b.k /\ a.k \in {"bool", "num", "str"}
  <2>1. a.v \in Nat /\ b.v \in Nat  BY <1>5, JsonShape
  <2>2. r = [k |-> a.k, v |-> IF Rising(l, a.k) THEN greatest({a.v, b.v}) ELSE least({a.v, b.v})]
    BY <1>5 DEF restrictivePickScalars, mergeBoolRestrictive, mergeNumericRestrictive, mergeStringRestrictive,
         Bool, Num, Str, Rising
  <2>3. /\ least({a.v, b.v}) = IF a.v <= b.v THEN a.v ELSE b.v
        /\ greatest({a.v, b.v}) = IF a.v <= b.v THEN b.v ELSE a.v
    BY <2>1, OfTwo
  <2>4. r = a \/ r = b  BY <1>1, <1>5, <2>1, <2>2, <2>3
  <2>5. r.k = a.k /\ r.v = IF Rising(l, a.k) THEN greatest({a.v, b.v}) ELSE least({a.v, b.v})  BY <2>2
  <2> HIDE DEF r
  <2>6. Stricter(l, r, a) /\ Stricter(l, r, b)  BY <1>5, <2>1, <2>3, <2>5 DEF Stricter
  <2> QED BY <2>4, <2>6 DEF r
<1>6. a.k \in {"bool", "num", "str", "null", "obj", "arr"}  BY JsonShape
<1> QED BY <1>2, <1>3, <1>4, <1>5, <1>6

\* The elements of a sequence
Values(p) == {p[i] : i \in DOMAIN p}

\* m is one of V, and none of V is stricter.
IsStrictest(l, m, V) == m \in V /\ \A x \in V : Stricter(l, m, x)

\* However many values there are, restrictivePickMixed ends with the strictest.
LEMMA PicksStrictest ==
  ASSUME NEW l, NEW p \in Seq(Json), p # << >>, NoClash(Values(p))
  PROVE  IsStrictest(l, restrictivePickMixed(l, p), Values(p))
<1> DEFINE n == Len(p)
           follow(f) == [i \in 1..n |-> IF i = 1 THEN p[1] ELSE restrictivePickScalars(l, f[i - 1], p[i])]
           upto(i) == {p[j] : j \in 1..i}
<1>1. n \in Nat \ {0} /\ DOMAIN p = 1..n /\ \A i \in 1..n : p[i] \in Json  BY NonEmpty
<1>2. ASSUME NEW i \in 1..n, NEW a, NEW j \in 1..n, IsStrictest(l, a, upto(i))
      PROVE  /\ a \in Json
             /\ restrictivePickScalars(l, a, p[j]) \in {a, p[j]}
             /\ Stricter(l, restrictivePickScalars(l, a, p[j]), a)
             /\ Stricter(l, restrictivePickScalars(l, a, p[j]), p[j])
  <2>1. PICK h \in 1..i : a = p[h]  BY <1>2 DEF IsStrictest
  <2>2. h \in 1..n  BY <1>1
  <2>3. a \in Json /\ p[j] \in Json /\ a \in Values(p) /\ p[j] \in Values(p)  BY <1>1, <2>1, <2>2 DEF Values
  <2>4. ~({"null", "bool"} \subseteq {a.k, p[j].k})  BY <2>3 DEF NoClash
  <2> QED BY <2>3, <2>4, PicksStricter
<1>3. \A i \in 1..n : upto(i) = IF i = 1 THEN {p[1]} ELSE upto(i - 1) \cup {p[i]}
  <2> SUFFICES ASSUME NEW i \in 1..n PROVE upto(i) = IF i = 1 THEN {p[1]} ELSE upto(i - 1) \cup {p[i]}
    OBVIOUS
  <2>1. i \in Nat \ {0}  BY <1>1
  <2>2. CASE i = 1  BY <2>2
  <2>3. CASE i # 1
    <3>1. 1..i = (1..(i - 1)) \cup {i}  BY <2>1, <2>3
    <3> QED BY <2>3, <3>1
  <2> QED BY <2>2, <2>3
<1>4. upto(n) = Values(p)  BY <1>1 DEF Values
<1> HIDE DEF upto
<1> DEFINE Good(i, f) ==
             /\ f = [j \in 1..i |-> f[j]] /\ f[1] = p[1]
             /\ \A j \in 1..i : j # 1 => f[j] = restrictivePickScalars(l, f[j - 1], p[j])
             /\ \A j \in 1..i : IsStrictest(l, f[j], upto(j))
           Bad == {i \in 1..n : ~\E f : Good(i, f)}
<1>5. Bad = {}
  <2> SUFFICES ASSUME Bad # {} PROVE FALSE  OBVIOUS
  <2>1. Bad \in SUBSET Nat  BY <1>1
  <2>2. PICK d \in Bad : \A y \in Bad : d <= y
    <3> HIDE DEF Bad
    <3> QED BY <2>1, Least
  <2>3. d \in 1..n /\ d \in Nat /\ ~\E f : Good(d, f)  BY <2>1, <2>2
  <2>4. CASE d = 1
    <3> DEFINE f == [j \in 1..1 |-> p[1]]
    <3>1. f = [j \in 1..1 |-> f[j]] /\ f[1] = p[1]  OBVIOUS
    <3>2. p[1] \in Json  BY <1>1
    <3>3. Stricter(l, p[1], p[1])  BY <3>2, StrictnessIsOrder
    <3>4. IsStrictest(l, p[1], upto(1))  BY <1>1, <1>3, <3>3 DEF IsStrictest
    <3>5. Good(1, f)  BY <3>1, <3>4
    <3> QED BY <2>3, <2>4, <3>5
  <2>5. CASE d # 1
    <3>1. d - 1 \in 1..n  BY <1>1, <2>3, <2>5
    <3>2. d - 1 \notin Bad
      <4> HIDE DEF Bad
      <4> QED BY <2>2, <2>3
    <3>3. PICK f : Good(d - 1, f)  BY <3>1, <3>2
    <3> DEFINE r == restrictivePickScalars(l, f[d - 1], p[d])
               g == [j \in 1..d |-> IF j = d THEN r ELSE f[j]]
    <3>4. d - 1 \in 1..(d - 1)  BY <2>3, <2>5
    <3>5. IsStrictest(l, f[d - 1], upto(d - 1))  BY <3>3, <3>4
    <3>6. f[d - 1] \in Json /\ r \in {f[d - 1], p[d]} /\ Stricter(l, r, f[d - 1]) /\ Stricter(l, r, p[d])
      BY <1>2, <2>3, <3>1, <3>5
    <3>7. r \in Json /\ p[d] \in Json  BY <1>1, <2>3, <3>6
    <3>8. upto(d) = upto(d - 1) \cup {p[d]}  BY <1>3, <2>3, <2>5
    <3>9. upto(d - 1) \subseteq Json  BY <1>1, <3>1 DEF upto
    <3>10. IsStrictest(l, r, upto(d))
      <4> HIDE DEF r
      <4>1. r \in upto(d)  BY <3>5, <3>6, <3>8 DEF IsStrictest
      <4>2. \A x \in upto(d - 1) : Stricter(l, r, x)  BY <3>5, <3>6, <3>7, <3>9, StrictnessIsOrder DEF IsStrictest
      <4> QED BY <3>6, <3>8, <4>1, <4>2 DEF IsStrictest
    <3>11. \A j \in 1..d : g[j] = IF j = d THEN r ELSE f[j]  OBVIOUS
    <3>12. g = [j \in 1..d |-> g[j]]  OBVIOUS
    <3> HIDE DEF g, r
    <3>13. g[1] = p[1]
      <4>1. 1 \in 1..d  BY <2>3
      <4>2. f[1] = p[1]  BY <3>3
      <4> QED BY <2>5, <3>11, <4>1, <4>2
    <3>14. ASSUME NEW j \in 1..d, j # 1 PROVE g[j] = restrictivePickScalars(l, g[j - 1], p[j])
      <4>1. j - 1 \in 1..d /\ j - 1 # d  BY <2>3, <3>14
      <4>2. g[j - 1] = f[j - 1]  BY <3>11, <4>1
      <4>3. CASE j = d  BY <3>11, <4>2, <4>3 DEF r
      <4>4. CASE j # d
        <5>1. j \in 1..(d - 1)  BY <2>3, <4>4
        <5> QED BY <3>3, <3>11, <3>14, <4>2, <4>4, <5>1
      <4> QED BY <4>3, <4>4
    <3>15. ASSUME NEW j \in 1..d PROVE IsStrictest(l, g[j], upto(j))
      <4>1. CASE j = d  BY <3>10, <3>11, <4>1
      <4>2. CASE j # d
        <5>1. j \in 1..(d - 1)  BY <2>3, <4>2
        <5> QED BY <3>3, <3>11, <4>2, <5>1
      <4> QED BY <4>1, <4>2
    <3>16. Good(d, g)  BY <3>12, <3>13, <3>14, <3>15
    <3> QED BY <2>3, <3>16
  <2> QED BY <2>4, <2>5
<1>6. n \in 1..n  BY <1>1
<1>7. PICK f : Good(n, f)  BY <1>5, <1>6
<1>8. f = follow(f)  BY <1>1, <1>7
<1> DEFINE g == CHOOSE h : h = follow(h)
<1>9. g = follow(g)
  <2> HIDE DEF follow
  <2> QED BY <1>8
<1>10. restrictivePickMixed(l, p) = g[n]  BY DEF restrictivePickMixed
<1>11. 1 \in 1..n /\ g[1] = p[1] /\ \A i \in 1..n : i # 1 => g[i] = restrictivePickScalars(l, g[i - 1], p[i])
  <2> HIDE DEF g
  <2> QED BY <1>1, <1>9
<1> HIDE DEF g, follow, Bad
<1>12. \A i \in 1..n : g[i] = f[i]
  <2> DEFINE D == {i \in 1..n : g[i] # f[i]}
  <2> SUFFICES ASSUME D # {} PROVE FALSE  OBVIOUS
  <2>1. D \in SUBSET Nat  BY <1>1
  <2>2. PICK d \in D : \A y \in D : d <= y
    <3> HIDE DEF D
    <3> QED BY <2>1, Least
  <2>3. d \in 1..n /\ d \in Nat /\ g[d] # f[d]  BY <2>1, <2>2
  <2>4. d # 1  BY <1>7, <1>11, <2>3
  <2>5. d - 1 \in 1..n  BY <1>1, <2>3, <2>4
  <2>6. d - 1 \notin D
    <3> HIDE DEF D
    <3> QED BY <2>2, <2>3
  <2>7. g[d - 1] = f[d - 1]  BY <2>5, <2>6
  <2> QED BY <1>7, <1>11, <2>3, <2>4, <2>7
<1> QED BY <1>4, <1>6, <1>7, <1>10, <1>12

\* A finite set has two members exactly when its cardinality says so.
LEMMA SeveralIn ==
  ASSUME NEW S, IsFiniteSet(S), S # {}
  PROVE  (Cardinality(S) > 1) <=> \E x, y \in S : x # y
<1>3. Cardinality(S) \in Nat  BY FS_CardinalityType
<1>4. Cardinality(S) # 0  BY FS_EmptySet
<1>5. Cardinality(S) = 1 <=> \E x : S = {x}  BY FS_Singleton
<1>6. (\E x : S = {x}) <=> ~\E x, y \in S : x # y
  <2>1. PICK x \in S : TRUE  OBVIOUS
  <2>2. ASSUME ~\E u, v \in S : u # v PROVE S = {x}  BY <2>1, <2>2
  <2>3. ASSUME NEW u, S = {u} PROVE ~\E y, z \in S : y # z  BY <2>3
  <2> QED BY <2>2, <2>3
<1>7. (Cardinality(S) > 1) <=> Cardinality(S) # 1  BY <1>3, <1>4
<1> QED BY <1>5, <1>6, <1>7

\* Least and greatest of a set that has them
LEMMA LeastIs ==
  ASSUME NEW T \in SUBSET Nat, NEW z \in T
  PROVE  /\ (\A u \in T : z <= u) => least(T) = z
         /\ (\A u \in T : u <= z) => greatest(T) = z
<1>1. ASSUME \A u \in T : z <= u PROVE least(T) = z
  <2>1. least(T) \in T /\ \A u \in T : least(T) <= u  BY <1>1 DEF least
  <2>2. least(T) \in Nat /\ z \in Nat  BY <2>1
  <2> QED BY <1>1, <2>1, <2>2
<1>2. ASSUME \A u \in T : u <= z PROVE greatest(T) = z
  <2>1. greatest(T) \in T /\ \A u \in T : u <= greatest(T)  BY <1>2 DEF greatest
  <2>2. greatest(T) \in Nat /\ z \in Nat  BY <2>1
  <2> QED BY <1>2, <2>1, <2>2
<1> QED BY <1>1, <1>2

\* The strictest of scalars of one kind, by the rule of the kind
Ruled(l, K, T) == [k |-> K, v |-> IF Rising(l, K) THEN greatest(T) ELSE least(T)]

\* The rules for Booleans, numbers and strings differ in the end they take.
LEMMA RulesAre ==
  ASSUME NEW l, NEW T
  PROVE  /\ mergeBoolRestrictive(l, T) = Ruled(l, "bool", T)
         /\ mergeNumericRestrictive(l, T) = Ruled(l, "num", T)
         /\ mergeStringRestrictive(T) = Ruled(l, "str", T)
BY DEF mergeBoolRestrictive, mergeNumericRestrictive, mergeStringRestrictive, Bool, Num, Str, Ruled, Rising

\* The rule of the kind takes the strictest of values of one kind.
LEMMA RuledIsStrictest ==
  ASSUME NEW l, NEW V \in SUBSET Json, NEW m, IsStrictest(l, m, V),
         m.k \in {"bool", "num", "str"}, \A x \in V : x.k = m.k
  PROVE  Ruled(l, m.k, {x.v : x \in V}) = m
<1> DEFINE T == {x.v : x \in V}
<1>1. m \in Json /\ m = [k |-> m.k, v |-> m.v] /\ m.v \in T  BY JsonShape DEF IsStrictest
<1>2. T \in SUBSET Nat
  <2>1. \A x \in V : x.v \in Nat  BY JsonShape
  <2> QED BY <2>1
<1>3. \A x \in V : IF Rising(l, m.k) THEN x.v <= m.v ELSE m.v <= x.v
  <2>1. \A x \in V : Stricter(l, m, x) /\ m.k = x.k  BY DEF IsStrictest
  <2> QED BY <2>1 DEF Stricter
<1>4. \A u \in T : IF Rising(l, m.k) THEN u <= m.v ELSE m.v <= u  BY <1>3
<1> HIDE DEF T
<1>5. (IF Rising(l, m.k) THEN greatest(T) ELSE least(T)) = m.v  BY <1>1, <1>2, <1>4, LeastIs
<1>6. Ruled(l, m.k, T) = m  BY <1>1, <1>5 DEF Ruled
<1> QED BY <1>6 DEF T

\* The strictest of values is what their set calls for, unless it is one of different arrays.
LEMMA ExpectedIsStrictest ==
  ASSUME NEW l, NEW V \in SUBSET Json, NoClash(V), NEW m, IsStrictest(l, m, V),
         ~((\A x \in V : x.k = "arr") /\ Cardinality(V) > 1)
  PROVE  Expected(l, V) = m
<1>1. m \in V /\ m \in Json /\ \A x \in V : Stricter(l, m, x)  BY DEF IsStrictest
<1>2. ASSUME NEW x \in V, \A y \in V : Stricter(l, x, y) PROVE x = m
  <2>1. x \in Json /\ Stricter(l, x, m) /\ Stricter(l, m, x)  BY <1>1, <1>2
  <2> QED BY <1>1, <2>1, StrictnessIsOrder
<1>3. Expected(l, V) = CHOOSE x \in V : \A y \in V : Stricter(l, x, y)  BY DEF Expected
<1> QED BY <1>1, <1>2, <1>3

\* Whatever values however many profiles have for a setting, and in whatever order they come:
\* unless null meets a Boolean or arrays with a number in them meet arrays, mergeContributions
\* takes the strictest of the values (arrays of strings it unites), and reports a conflict
\* exactly when two differ.
THEOREM MergeTakesTheStrictest ==
  ASSUME NEW l \in LeafKinds, NEW p \in Seq(Json), p # << >>, ~OrderMatters(p)
  PROVE  MergesAsSet(l, p)
<1> DEFINE V == Values(p)
           m == mergeContributions(l, p)
           several == Cardinality(V) > 1
<1>1. Len(p) \in Nat \ {0} /\ DOMAIN p = 1..Len(p) /\ 1 \in DOMAIN p /\ \A i \in DOMAIN p : p[i] \in Json
  BY NonEmpty
<1>2. V \in SUBSET Json /\ p[1] \in V /\ \A i \in DOMAIN p : p[i] \in V  BY <1>1 DEF Values
<1>3. kinds(p) = {x.k : x \in V}  BY DEF kinds, Values
<1>4. vals(p) = {x.v : x \in V}  BY DEF vals, Values
<1>5. NoClash(V)  BY <1>3 DEF NoClash, OrderMatters
<1>6. IsFiniteSet(V)
  <2>1. IsFiniteSet(1..Len(p))  BY <1>1, FS_Interval
  <2>2. p \in [1..Len(p) -> V]  BY <1>1, <1>2
  <2>3. V = {p[i] : i \in 1..Len(p)}  BY <1>1 DEF Values
  <2>4. p \in Surjection(1..Len(p), V)  BY <2>2, <2>3 DEF Surjection
  <2> QED BY <2>1, <2>4, FS_Surjection
<1>7. several <=> \E x, y \in V : x # y  BY <1>2, <1>6, SeveralIn
<1>8. PICK w : IsStrictest(l, w, V) /\ w = restrictivePickMixed(l, p)  BY <1>5, PicksStrictest
<1>9. w \in V /\ w \in Json  BY <1>2, <1>8 DEF IsStrictest
<1>10. ASSUME ~((\A x \in V : x.k = "arr") /\ several) PROVE Expected(l, V) = w
  BY <1>2, <1>5, <1>8, <1>10, ExpectedIsStrictest
<1>11. IsFiniteSet(kinds(p)) /\ kinds(p) # {}
  <2>1. kinds(p) = {p[i].k : i \in 1..Len(p)}  BY <1>1 DEF kinds
  <2>2. IsFiniteSet(1..Len(p))  BY <1>1, FS_Interval
  <2> DEFINE g == [i \in 1..Len(p) |-> p[i].k]
  <2>3. g \in Surjection(1..Len(p), kinds(p))  BY <2>1 DEF Surjection
  <2>4. IsFiniteSet(kinds(p))  BY <2>2, <2>3, FS_Surjection
  <2> QED BY <1>1, <2>4 DEF kinds
<1>12. (Cardinality(kinds(p)) > 1) <=> \E x, y \in V : x.k # y.k
  <2>1. (Cardinality(kinds(p)) > 1) <=> \E a, b \in kinds(p) : a # b  BY <1>11, SeveralIn
  <2> QED BY <1>3, <2>1
<1> HIDE DEF V, several
<1>13. SUFFICES m.val = Expected(l, V) /\ m.conflict = several
  BY DEF MergesAsSet, V, Values, several
<1>14. ASSUME NEW r, NEW b, m = [val |-> r, conflict |-> b] PROVE m.val = r /\ m.conflict = b  BY <1>14
<1>15. CASE Len(p) = 1
  <2>1. V = {p[1]}  BY <1>1, <1>15 DEF V, Values
  <2>2. ~several /\ several = FALSE  BY <1>7, <2>1 DEF several
  <2>3. Expected(l, V) = p[1]  BY <1>9, <1>10, <2>1, <2>2
  <2>4. m = [val |-> p[1], conflict |-> FALSE]  BY <1>15 DEF mergeContributions
  <2> HIDE DEF m
  <2> QED BY <1>14, <2>2, <2>3, <2>4
<1>16. CASE Len(p) # 1 /\ Cardinality(kinds(p)) > 1
  <2>1. PICK x \in V, y \in V : x.k # y.k  BY <1>12, <1>16
  <2>2. several = TRUE  BY <1>7, <2>1 DEF several
  <2>3. Expected(l, V) = w  BY <1>10, <2>1
  <2>4. m = [val |-> restrictivePickMixed(l, p), conflict |-> TRUE]  BY <1>16 DEF mergeContributions
  <2> HIDE DEF m
  <2> QED BY <1>8, <1>14, <2>2, <2>3, <2>4
<1>17. CASE Len(p) # 1 /\ ~(Cardinality(kinds(p)) > 1)
  <2>1. \A x \in V : x.k = w.k  BY <1>9, <1>12, <1>17
  <2>2. kinds(p) = {w.k} /\ p[1].k = w.k  BY <1>2, <1>3, <1>9, <2>1
  <2>3. CASE w.k \in {"bool", "num", "str"}
    <3>1. Expected(l, V) = w  BY <1>9, <1>10, <2>3
    <3>2. Ruled(l, w.k, vals(p)) = w  BY <1>2, <1>4, <1>8, <2>1, <2>3, RuledIsStrictest
    <3>3. IsFiniteSet(vals(p)) /\ vals(p) # {}
      <4>1. vals(p) = {p[i].v : i \in 1..Len(p)}  BY <1>1 DEF vals
      <4>2. IsFiniteSet(1..Len(p))  BY <1>1, FS_Interval
      <4> DEFINE g == [i \in 1..Len(p) |-> p[i].v]
      <4>3. g \in Surjection(1..Len(p), vals(p))  BY <4>1 DEF Surjection
      <4>4. IsFiniteSet(vals(p))  BY <4>2, <4>3, FS_Surjection
      <4> QED BY <1>1, <4>4 DEF vals
    <3>4. (Cardinality(vals(p)) > 1) <=> \E x, y \in vals(p) : x # y  BY <3>3, SeveralIn
    <3>5. \A x \in V : x = [k |-> w.k, v |-> x.v]  BY <1>2, <2>1, JsonShape
    <3>6. (\E x, y \in vals(p) : x # y) <=> \E x, y \in V : x # y  BY <1>4, <3>5
    <3>7. (Cardinality(vals(p)) > 1) = several  BY <1>7, <3>4, <3>6 DEF several
    <3>8. m = [val |-> Ruled(l, w.k, vals(p)), conflict |-> Cardinality(vals(p)) > 1]
      BY <1>17, <2>2, <2>3, RulesAre DEF mergeContributions
    <3> HIDE DEF m
    <3>9. m.val = Ruled(l, w.k, vals(p)) /\ m.conflict = (Cardinality(vals(p)) > 1)  BY <1>14, <3>8
    <3> QED BY <3>1, <3>2, <3>7, <3>9
  <2>4. CASE w.k = "arr"
    <3>1. \A i \in DOMAIN p : allStrings(p[i])  BY <2>2, <2>4 DEF OrderMatters
    <3> DEFINE bad == {i \in DOMAIN p : ~allStrings(p[i])}
               conf == \E i \in 1..Len(p) : p[i] # p[1]
               union == UNION {{p[i].v[j] : j \in DOMAIN p[i].v} : i \in DOMAIN p}
    <3>2. bad = {}  BY <3>1
    <3>3. m = mergeArrayRestrictive(p)  BY <1>17, <2>2, <2>4 DEF mergeContributions
    <3>4. m = [conflict |-> conf, val |-> IF ~conf THEN p[1] ELSE Arr(sorted(union))]
      BY <3>2, <3>3 DEF mergeArrayRestrictive
    <3>5. conf <=> several
      <4>1. conf <=> \E x, y \in V : x # y  BY <1>1 DEF V, Values
      <4> QED BY <1>7, <4>1
    <3>6. conf \in BOOLEAN /\ several \in BOOLEAN  BY DEF several
    <3>7. union = UNION {{x.v[i] : i \in DOMAIN x.v} : x \in V}  BY DEF V, Values
    <3> HIDE DEF conf, union, m
    <3>8. m.val = (IF ~conf THEN p[1] ELSE Arr(sorted(union))) /\ m.conflict = conf  BY <3>4
    <3>9. conf = several  BY <3>5, <3>6
    <3>10. CASE ~several
      <4>1. Expected(l, V) = w /\ p[1] = w  BY <1>2, <1>7, <1>9, <1>10, <3>10
      <4> QED BY <3>8, <3>9, <3>10, <4>1
    <3>11. CASE several
      <4>1. Expected(l, V) = Arr(sorted(UNION {{x.v[i] : i \in DOMAIN x.v} : x \in V}))
        <5>1. Cardinality(V) > 1 /\ \A x \in V : x.k = "arr"  BY <2>1, <2>4, <3>11 DEF several
        <5> QED BY <5>1 DEF Expected
      <4> QED BY <3>7, <3>8, <3>9, <3>11, <4>1
    <3> QED BY <3>10, <3>11
  <2>5. CASE w.k \in {"null", "obj"}
    <3>1. \A x \in V : x = w  BY <1>2, <1>9, <2>1, <2>5, JsonShape
    <3>2. several = FALSE  BY <1>7, <3>1 DEF several
    <3>3. Expected(l, V) = p[1]  BY <1>2, <1>10, <3>1, <3>2
    <3>4. m = [val |-> p[1], conflict |-> FALSE]  BY <1>17, <2>2, <2>5 DEF mergeContributions
    <3> HIDE DEF m
    <3> QED BY <1>14, <3>2, <3>3, <3>4
  <2>6. w.k \in {"bool", "num", "str", "null", "obj", "arr"}  BY <1>9, JsonShape
  <2> QED BY <2>3, <2>4, <2>5, <2>6
<1> QED BY <1>15, <1>16, <1>17

\* Apart from arrays alone, which are united, the merged setting is the value of a profile, as
\* strict as that of any other, and a conflict is reported exactly when two profiles differ.
THEOREM MergedIsStrictest ==
  ASSUME NEW l \in LeafKinds, NEW p \in Seq(Json), p # << >>, ~OrderMatters(p), kinds(p) # {"arr"}
  PROVE  /\ IsStrictest(l, mergeContributions(l, p).val, Values(p))
         /\ mergeContributions(l, p).conflict <=> \E x, y \in Values(p) : x # y
<1> DEFINE V == Values(p)
<1>1. MergesAsSet(l, p)  BY MergeTakesTheStrictest
<1>2. mergeContributions(l, p).val = Expected(l, V) /\ mergeContributions(l, p).conflict = (Cardinality(V) > 1)
  BY <1>1 DEF MergesAsSet, Values
<1>3. Len(p) \in Nat \ {0} /\ DOMAIN p = 1..Len(p) /\ 1 \in DOMAIN p /\ \A i \in DOMAIN p : p[i] \in Json
  BY NonEmpty
<1>4. V \in SUBSET Json /\ p[1] \in V  BY <1>3 DEF Values
<1>5. kinds(p) = {x.k : x \in V}  BY DEF kinds, Values
<1>6. NoClash(V)  BY <1>5 DEF NoClash, OrderMatters
<1>7. PICK w : IsStrictest(l, w, V)  BY <1>6, PicksStrictest
<1>8. ~(\A x \in V : x.k = "arr")  BY <1>4, <1>5
<1>9. Expected(l, V) = w  BY <1>4, <1>6, <1>7, <1>8, ExpectedIsStrictest
<1>10. IsFiniteSet(V)
  <2>1. IsFiniteSet(1..Len(p))  BY <1>3, FS_Interval
  <2>2. p \in [1..Len(p) -> V]  BY <1>3 DEF Values
  <2>3. V = {p[i] : i \in 1..Len(p)}  BY <1>3 DEF Values
  <2>4. p \in Surjection(1..Len(p), V)  BY <2>2, <2>3 DEF Surjection
  <2> QED BY <2>1, <2>4, FS_Surjection
<1>11. (Cardinality(V) > 1) <=> \E x, y \in V : x # y  BY <1>4, <1>10, SeveralIn
<1> QED BY <1>2, <1>7, <1>9, <1>11

(* Profiles and their assignments                                           *)

\* The values that payloads have at a path
Given(q, path) == {q[i][path] : i \in {h \in DOMAIN q : path \in DOMAIN q[h]}}

\* flattenContributions loses no value and adds none.
LEMMA ContributionsAre ==
  ASSUME NEW n \in Nat, NEW q, DOMAIN q = 1..n, NEW path, NEW R, Given(q, path) \subseteq R
  PROVE  /\ contributions(q, path) \in Seq(R)
         /\ Values(contributions(q, path)) = Given(q, path)
<1> DEFINE W == {i \in 1..n : path \in DOMAIN q[i]}
           U(i) == {h \in W : h <= i}
           N == Cardinality(W)
           count == [i \in W |-> Cardinality(U(i))]
           nth(j) == CHOOSE i \in W : Cardinality(U(i)) = j
           c == contributions(q, path)
<1>1. IsFiniteSet(1..n) /\ W \in SUBSET (1..n)  BY FS_Interval
<1>2. IsFiniteSet(W) /\ N \in Nat  BY <1>1, FS_Subset, FS_CardinalityType
<1>3. \A i \in W : i \in Nat /\ path \in DOMAIN q[i]  OBVIOUS
<1>4. c = [j \in 1..N |-> q[nth(j)][path]]  BY DEF contributions
<1> HIDE DEF W, c
<1>5. ASSUME NEW i \in W PROVE IsFiniteSet(U(i)) /\ Cardinality(U(i)) \in 1..N
  <2>1. U(i) \in SUBSET W /\ i \in U(i)  BY <1>3
  <2>2. IsFiniteSet(U(i)) /\ Cardinality(U(i)) <= N  BY <1>2, <2>1, FS_Subset
  <2>3. Cardinality(U(i)) \in Nat /\ Cardinality(U(i)) # 0  BY <2>1, <2>2, FS_CardinalityType, FS_EmptySet
  <2> QED BY <1>2, <2>2, <2>3
<1>6. ASSUME NEW i \in W, NEW j \in W, i < j PROVE Cardinality(U(i)) # Cardinality(U(j))
  <2>1. U(i) \in SUBSET U(j)  BY <1>3, <1>6
  <2>2. j \in U(j) /\ j \notin U(i)  BY <1>3, <1>6
  <2>3. IsFiniteSet(U(j))  BY <1>5
  <2> QED BY <2>1, <2>2, <2>3, FS_Subset
<1>7. \A i, j \in W : Cardinality(U(i)) = Cardinality(U(j)) => i = j
  <2>1. \A i, j \in W : i < j \/ j < i \/ i = j  BY <1>3
  <2> QED BY <1>6, <2>1
<1>8. count \in Injection(W, 1..N)
  <2>1. count \in [W -> 1..N]  BY <1>5
  <2>2. \A i, j \in W : count[i] = count[j] => i = j
    <3>1. \A i \in W : count[i] = Cardinality(U(i))  OBVIOUS
    <3> HIDE DEF count, U
    <3> QED BY <1>7, <3>1
  <2> HIDE DEF count, N
  <2> QED BY <2>1, <2>2 DEF Injection, IsInjective
<1>9. IsFiniteSet(1..N) /\ Cardinality(1..N) = N  BY <1>2, FS_Interval
<1>10. count \in Surjection(W, 1..N)
  <2> HIDE DEF count
  <2> QED BY <1>8, <1>9, FS_Injection
<1>11. \A j \in 1..N : \E i \in W : Cardinality(U(i)) = j  BY <1>10 DEF Surjection
<1> HIDE DEF U, N, count
<1>12. \A j \in 1..N : nth(j) \in W  BY <1>11
<1>13. \A i \in W : Cardinality(U(i)) \in 1..N /\ nth(Cardinality(U(i))) = i  BY <1>5, <1>7
<1> HIDE DEF nth
<1>14. \A j \in 1..N : q[nth(j)][path] \in R  BY <1>12 DEF W, Given
<1>15. c \in Seq(R)
  <2>1. c \in [1..N -> R]  BY <1>4, <1>14
  <2> QED BY <1>2, <2>1
<1>16. Values(c) = {q[i][path] : i \in W}
  <2>1. DOMAIN c = 1..N /\ \A j \in 1..N : c[j] = q[nth(j)][path]  BY <1>4
  <2>2. ASSUME NEW i \in W PROVE \E j \in 1..N : c[j] = q[i][path]  BY <1>13, <2>1
  <2>3. \A j \in 1..N : \E i \in W : c[j] = q[i][path]  BY <1>12, <2>1
  <2>4. Values(c) = {c[j] : j \in 1..N}  BY <2>1 DEF Values
  <2>5. ASSUME NEW v \in {c[j] : j \in 1..N} PROVE v \in {q[i][path] : i \in W}
    <3>1. PICK j \in 1..N : v = c[j]  BY <2>5
    <3>2. PICK i \in W : c[j] = q[i][path]  BY <2>3
    <3> QED BY <3>1, <3>2
  <2>6. ASSUME NEW v \in {q[i][path] : i \in W} PROVE v \in {c[j] : j \in 1..N}
    <3>1. PICK i \in W : v = q[i][path]  BY <2>6
    <3>2. PICK j \in 1..N : c[j] = q[i][path]  BY <2>2
    <3> QED BY <3>1, <3>2
  <2>7. {c[j] : j \in 1..N} = {q[i][path] : i \in W}  BY <2>5, <2>6
  <2> QED BY <2>4, <2>7
<1>17. Given(q, path) = {q[i][path] : i \in W}  BY DEF Given, W
<1> QED BY <1>15, <1>16, <1>17 DEF c

\* A setting is in conflict when two of the profiles that have it differ.
LEMMA ConflictAt ==
  ASSUME NEW n \in Nat, NEW q, DOMAIN q = 1..n, NEW p, NEW K \in {"bool", "num"}, leafKind(p) \in LeafKinds,
         NEW R \in SUBSET Json, \A x \in R : x.k = K, Given(q, p) # {}, Given(q, p) \subseteq R
  PROVE  mergeContributions(leafKind(p), contributions(q, p)).conflict <=> \E x, y \in Given(q, p) : x # y
<1> DEFINE c == contributions(q, p)
<1>1. c \in Seq(R) /\ Values(c) = Given(q, p)  BY ContributionsAre
<1> HIDE DEF c
<1>2. c # << >>  BY <1>1 DEF Values
<1>3. c \in Seq(Json)  BY <1>1
<1>4. 1 \in DOMAIN c /\ \A h \in DOMAIN c : c[h] \in R  BY <1>1, <1>2, NonEmpty
<1>5. kinds(c) = {K}  BY <1>4 DEF kinds
<1>6. ~OrderMatters(c) /\ kinds(c) # {"arr"}  BY <1>5 DEF OrderMatters
<1>7. mergeContributions(leafKind(p), c).conflict <=> \E x, y \in Values(c) : x # y
  BY <1>2, <1>3, <1>6, MergedIsStrictest
<1> QED BY <1>1, <1>7 DEF c

\* The profiles that set the camera one way or the other, if some do and some do the other
Clashing(T) ==
  IF \E a, b \in T : prof[a] = "forbid" /\ prof[b] \notin {"forbid", "number"}
  THEN {a \in T : prof[a] # "number"} ELSE {}

\* The conflicts that a computation finds are those of the set of profiles, in whatever order
\* the query returned them.
LEMMA ConflictingIs ==
  ASSUME NEW n \in Nat, NEW T, NEW ps \in [1..n -> T], \A a \in T : \E i \in 1..n : ps[i] = a
  PROVE  conflicting(ps) = Clashing(T)
<1> DEFINE q == payloads(ps)
           A == <<"security">>
           B == <<"security", "camera_disabled">>
           merged(p) == mergeContributions(leafKind(p), contributions(q, p))
           dis(i) == IF prof[ps[i]] = "forbid" THEN 1 ELSE 0
           num(i) == prof[ps[i]] = "number"
<1>1. DOMAIN q = 1..n /\ \A i \in 1..n : q[i] = payload(prof[ps[i]])  BY DEF payloads
<1>2. A # B
  <2>1. Len(A) = 1 /\ Len(B) = 2  OBVIOUS
  <2> QED BY <2>1
<1>3. conflicting(ps) = {ps[i] : i \in {h \in 1..n : \E p \in DOMAIN q[h] : merged(p).conflict}}
  BY <1>1 DEF conflicting, MergeAssignedPayloads
<1> HIDE DEF q, A, B
<1>4. \A i \in 1..n : num(i) => DOMAIN q[i] = {A} /\ q[i][A] = Num(1)  BY <1>1 DEF payload, A
<1>5. \A i \in 1..n : ~num(i) => DOMAIN q[i] = {B} /\ q[i][B] = Bool(dis(i))  BY <1>1 DEF payload, B
<1>6. leafKind(A) \in LeafKinds /\ leafKind(B) \in LeafKinds  BY DEF leafKind, LeafKinds
<1> HIDE DEF merged
<1>7. \A p \in {A, B} : Given(q, p) = {q[i][p] : i \in {h \in 1..n : p \in DOMAIN q[h]}}  BY <1>1 DEF Given
<1>8. ASSUME NEW i \in 1..n, num(i) PROVE ~merged(A).conflict
  <2>1. Given(q, A) = {Num(1)}
    <3>1. A \in DOMAIN q[i]  BY <1>4, <1>8
    <3>2. \A h \in 1..n : A \in DOMAIN q[h] => q[h][A] = Num(1)  BY <1>2, <1>4, <1>5
    <3> QED BY <1>7, <3>1, <3>2
  <2> DEFINE R == {Num(1)}
  <2>2. R \in SUBSET Json /\ \A x \in R : x.k = "num"  BY DEF Num, Json
  <2>3. merged(A).conflict <=> \E x, y \in Given(q, A) : x # y
    <3>1. DOMAIN q = 1..n  BY <1>1
    <3>2. Given(q, A) # {} /\ Given(q, A) \subseteq R  BY <2>1
    <3> HIDE DEF R
    <3> QED BY <1>6, <2>2, <3>1, <3>2, ConflictAt DEF merged
  <2> QED BY <2>1, <2>3
<1>9. ASSUME NEW i \in 1..n, ~num(i) PROVE merged(B).conflict <=> \E g, h \in 1..n : ~num(g) /\ ~num(h) /\ dis(g) # dis(h)
  <2>1. \A h \in 1..n : /\ B \in DOMAIN q[h] <=> ~num(h)
                        /\ B \in DOMAIN q[h] => q[h][B] = Bool(dis(h))
    BY <1>2, <1>4, <1>5
  <2>2. Given(q, B) = {Bool(dis(h)) : h \in {g \in 1..n : ~num(g)}}  BY <1>7, <2>1
  <2> DEFINE R == [k : {"bool"}, v : {0, 1}]
  <2>3. R \in SUBSET Json /\ \A x \in R : x.k = "bool"  BY DEF Json
  <2>4. \A h \in 1..n : Bool(dis(h)) \in R  BY DEF Bool
  <2>5. \A g, h \in 1..n : Bool(dis(g)) # Bool(dis(h)) <=> dis(g) # dis(h)  BY DEF Bool
  <2> HIDE DEF R
  <2>6. Given(q, B) # {} /\ Given(q, B) \subseteq R  BY <1>9, <2>2, <2>4
  <2>7. merged(B).conflict <=> \E x, y \in Given(q, B) : x # y
    <3>1. DOMAIN q = 1..n  BY <1>1
    <3> QED BY <1>6, <2>3, <2>6, <3>1, ConflictAt DEF merged
  <2>8. (\E x, y \in Given(q, B) : x # y) <=> \E g, h \in 1..n : ~num(g) /\ ~num(h) /\ dis(g) # dis(h)
    <3>1. \A x : x \in Given(q, B) <=> \E h \in 1..n : ~num(h) /\ x = Bool(dis(h))  BY <2>2
    <3> HIDE DEF num, dis
    <3>2. ASSUME NEW x \in Given(q, B), NEW y \in Given(q, B), x # y
          PROVE  \E g, h \in 1..n : ~num(g) /\ ~num(h) /\ dis(g) # dis(h)
      <4>1. PICK g \in 1..n : ~num(g) /\ x = Bool(dis(g))  BY <3>1
      <4>2. PICK h \in 1..n : ~num(h) /\ y = Bool(dis(h))  BY <3>1
      <4> QED BY <3>2, <4>1, <4>2
    <3>3. ASSUME NEW g \in 1..n, NEW h \in 1..n, ~num(g), ~num(h), dis(g) # dis(h)
          PROVE  \E x, y \in Given(q, B) : x # y
      <4>1. Bool(dis(g)) \in Given(q, B) /\ Bool(dis(h)) \in Given(q, B)  BY <3>1, <3>3
      <4>2. Bool(dis(g)) # Bool(dis(h))  BY <2>5, <3>3
      <4> QED BY <4>1, <4>2
    <3> QED BY <3>2, <3>3
  <2> QED BY <2>7, <2>8
<1>10. (\E g, h \in 1..n : ~num(g) /\ ~num(h) /\ dis(g) # dis(h)) <=>
         \E a, b \in T : prof[a] = "forbid" /\ prof[b] \notin {"forbid", "number"}
  <2>1. \A g, h \in 1..n : ps[g] \in T /\ ps[h] \in T  OBVIOUS
  <2>2. \A g, h \in 1..n : dis(g) # dis(h) <=> (prof[ps[g]] = "forbid") # (prof[ps[h]] = "forbid")  OBVIOUS
  <2>3. ASSUME NEW g \in 1..n, NEW h \in 1..n, ~num(g), ~num(h), dis(g) # dis(h)
        PROVE  \E a, b \in T : prof[a] = "forbid" /\ prof[b] \notin {"forbid", "number"}
    BY <2>1, <2>2, <2>3
  <2>4. ASSUME NEW a \in T, NEW b \in T, prof[a] = "forbid", prof[b] \notin {"forbid", "number"}
        PROVE  \E g, h \in 1..n : ~num(g) /\ ~num(h) /\ dis(g) # dis(h)
    <3>1. PICK g \in 1..n : ps[g] = a  OBVIOUS
    <3>2. PICK h \in 1..n : ps[h] = b  OBVIOUS
    <3>3. ~num(g) /\ ~num(h) /\ dis(g) # dis(h)  BY <2>4, <3>1, <3>2
    <3> QED BY <3>3
  <2> QED BY <2>3, <2>4
<1> DEFINE clash == \E a, b \in T : prof[a] = "forbid" /\ prof[b] \notin {"forbid", "number"}
<1>11. \A i \in 1..n : (\E p \in DOMAIN q[i] : merged(p).conflict) <=> (~num(i) /\ clash)
  <2> SUFFICES ASSUME NEW i \in 1..n PROVE (\E p \in DOMAIN q[i] : merged(p).conflict) <=> (~num(i) /\ clash)
    OBVIOUS
  <2>1. CASE num(i)  BY <1>4, <1>8, <2>1
  <2>2. CASE ~num(i)
    <3>1. merged(B).conflict <=> clash  BY <1>9, <1>10, <2>2
    <3>2. DOMAIN q[i] = {B}  BY <1>5, <2>2
    <3> HIDE DEF clash
    <3> QED BY <2>2, <3>1, <3>2
  <2> QED BY <2>1, <2>2
<1>12. conflicting(ps) = {ps[i] : i \in {h \in 1..n : ~num(h) /\ clash}}  BY <1>3, <1>11
<1>13. Clashing(T) = IF clash THEN {a \in T : prof[a] # "number"} ELSE {}  BY DEF Clashing
<1> HIDE DEF clash
<1> QED BY <1>12, <1>13

\* The profiles a device is in the scope of
Mates(d) == {k[1] : k \in scope(d)}

Contents == Payloads \cup {"absent", "broken"}
PolShapes ==
  /\ prof \in [Profile -> Contents] /\ settled \subseteq Device /\ IsFiniteSet(DOMAIN assigned)
  /\ calc \in [Reader -> [pc : {"idle", "reconcile"}, dev : Device \cup {""}, conf : SUBSET Profile, seen : BOOLEAN]]

\* The flags of a settled device are those of the set of its profiles.
Told == \A d \in settled : \A k \in scope(d) : (assigned[k] = "conflict") <=> (k[1] \in Clashing(Mates(d)))

\* A computation that no edit has overtaken knows the conflicts of the present tables.
Current ==
  \A r \in Reader : calc[r].pc = "reconcile" =>
    /\ calc[r].dev \in Device
    /\ \A d \in Device : calc[r].seen /\ calc[r].dev = d => calc[r].conf = Clashing(Mates(d))

PolIInv == PolTypeOK /\ PolShapes /\ Told /\ Current

\* Whatever order the query returns the profiles in, the same ones conflict.
LEMMA ListedConflicts ==
  ASSUME NEW d, IsFiniteSet(DOMAIN assigned), NEW ps \in listed(d)
  PROVE  conflicting(ps) = Clashing(Mates(d))
<1> DEFINE T == Mates(d)
           n == Cardinality(T)
<1>1. IsFiniteSet(scope(d))
  <2>1. scope(d) \in SUBSET DOMAIN assigned  BY DEF scope
  <2> QED BY <2>1, FS_Subset
<1>2. IsFiniteSet(T)
  <2> DEFINE f == [k \in scope(d) |-> k[1]]
  <2>1. f \in Surjection(scope(d), T)  BY DEF Surjection, Mates
  <2> HIDE DEF f
  <2> QED BY <1>1, <2>1, FS_Surjection
<1>3. n \in Nat  BY <1>2, FS_CardinalityType
<1>4. ps \in [1..n -> T] /\ \A i, j \in 1..n : i # j => ps[i] # ps[j]  BY DEF listed, SetToSeqs, Mates
<1> HIDE DEF T
<1>5. ps \in Injection(1..n, T)  BY <1>4 DEF Injection, IsInjective
<1>6. IsFiniteSet(1..n) /\ Cardinality(1..n) = n  BY <1>3, FS_Interval
<1>7. ps \in Surjection(1..n, T)  BY <1>2, <1>5, <1>6, FS_Injection
<1>8. \A a \in T : \E i \in 1..n : ps[i] = a  BY <1>7 DEF Surjection
<1> HIDE DEF n
<1> QED BY <1>3, <1>4, <1>8, ConflictingIs DEF T

\* Flags that agree with the set of profiles agree with every computation.
LEMMA PolImplies == PolIInv => PolicyInv
<1> SUFFICES ASSUME PolIInv PROVE FlagsTellConflicts  BY DEF PolIInv, PolicyInv
<1> SUFFICES ASSUME NEW d \in settled, NEW ps \in listed(d), NEW k \in scope(d)
             PROVE  (assigned[k] = "conflict") = (k[1] \in conflicting(ps))
  BY DEF FlagsTellConflicts
<1>1. conflicting(ps) = Clashing(Mates(d))  BY ListedConflicts DEF PolIInv, PolShapes
<1>2. (assigned[k] = "conflict") <=> (k[1] \in Clashing(Mates(d)))  BY DEF PolIInv, Told
<1>3. (assigned[k] = "conflict") <=> (k[1] \in conflicting(ps))  BY <1>1, <1>2
<1> QED BY <1>3

\* The first state satisfies the invariant.
LEMMA PolInitInv == PolInit => PolIInv
<1> SUFFICES ASSUME PolInit PROVE PolIInv  OBVIOUS
<1>1. DOMAIN assigned = {}  BY DEF PolInit
<1>2. PolTypeOK  BY <1>1 DEF PolInit, PolTypeOK, Payloads
<1>3. IsFiniteSet(DOMAIN assigned)  BY <1>1, FS_EmptySet
<1>4. PolShapes  BY <1>3 DEF PolInit, PolShapes, NoCalc, Contents, Payloads
<1>5. Told  BY DEF PolInit, Told
<1>6. Current  BY DEF PolInit, Current, NoCalc
<1> QED BY <1>2, <1>4, <1>5, <1>6 DEF PolIInv

\* After an edit nothing computed before counts as of the present tables.
LEMMA EditStep ==
  ASSUME PolIInv, edited, PolTypeOK', prof' \in [Profile -> Contents], IsFiniteSet(DOMAIN assigned')
  PROVE  PolIInv'
<1> DEFINE C == [pc : {"idle", "reconcile"}, dev : Device \cup {""}, conf : SUBSET Profile, seen : BOOLEAN]
<1>1. settled' = {} /\ calc' = [r \in Reader |-> [calc[r] EXCEPT !.seen = FALSE]]  BY DEF edited
<1>2. calc \in [Reader -> C]  BY DEF PolIInv, PolShapes
<1>3. \A r \in Reader : calc[r] \in C  BY <1>2
<1>4. \A r \in Reader : /\ calc'[r] \in C /\ calc'[r].seen = FALSE
                        /\ calc'[r].pc = calc[r].pc /\ calc'[r].dev = calc[r].dev
  BY <1>1, <1>3
<1>5. calc' \in [Reader -> C]
  <2> HIDE DEF C
  <2>1. calc' = [r \in Reader |-> calc'[r]]  BY <1>1
  <2> QED BY <1>4, <2>1
<1>6. PolShapes'  BY <1>1, <1>5 DEF PolShapes
<1>7. Told'  BY <1>1 DEF Told
<1>8. Current'
  <2>1. \A r \in Reader : calc[r].pc = "reconcile" => calc[r].dev \in Device  BY DEF PolIInv, Current
  <2> SUFFICES ASSUME NEW r \in Reader, calc'[r].pc = "reconcile"
               PROVE  calc'[r].dev \in Device /\ ~calc'[r].seen
    BY DEF Current
  <2> QED BY <1>4, <2>1
<1> QED BY <1>6, <1>7, <1>8 DEF PolIInv

\* An operator's edit keeps the invariant.
LEMMA EditsKeep ==
  ASSUME PolIInv,
         \/ \E p \in Profile : \/ CreateProfile(p) \/ PatchProfile(p) \/ DeleteProfile(p)
                               \/ \E t \in Device \cup Group : AssignProfile(p, t)
         \/ \E g \in Group : CreateGroup(g) \/ DeleteGroup(g) \/ \E d \in Device : AddMember(g, d)
         \/ \E m \in member : RemoveMember(m)
         \/ \E k \in DOMAIN assigned : RemoveAssignment(k)
  PROVE  PolIInv'
<1> USE DEF PolTypeOK, Contents
<1>1. /\ prof \in [Profile -> Contents] /\ IsFiniteSet(DOMAIN assigned) /\ group \subseteq Group
      /\ member \subseteq group \X Device /\ away \subseteq {p \in Profile : prof[p] # "absent"}
      /\ \A k \in DOMAIN assigned : /\ k \in Profile \X (Device \cup group) /\ prof[k[1]] # "absent"
                                    /\ assigned[k] \in {"ok", "conflict"}
  BY DEF PolIInv, PolShapes
<1>2. ASSUME NEW K, assigned' = without(K)
      PROVE  /\ DOMAIN assigned' = DOMAIN assigned \ K /\ IsFiniteSet(DOMAIN assigned')
             /\ \A k \in DOMAIN assigned' : assigned'[k] = assigned[k]
  <2>1. DOMAIN assigned' = DOMAIN assigned \ K  BY <1>2 DEF without
  <2>2. DOMAIN assigned' \in SUBSET DOMAIN assigned  BY <2>1
  <2>3. IsFiniteSet(DOMAIN assigned')  BY <1>1, <2>2, FS_Subset
  <2>4. \A k \in DOMAIN assigned' : assigned'[k] = assigned[k]  BY <1>2, <2>1 DEF without
  <2> QED BY <2>1, <2>3, <2>4
<1>3. ASSUME NEW p \in Profile, CreateProfile(p) \/ PatchProfile(p) PROVE PolIInv'
  <2>1. /\ \E b \in Contents \ {"absent"} : prof' = [prof EXCEPT ![p] = b]
        /\ away' \subseteq away \cup {p}
    <3>1. CASE CreateProfile(p)
      <4>1. PICK b \in Payloads \cup {"broken"} : prof' = [prof EXCEPT ![p] = b]  BY <3>1 DEF CreateProfile
      <4>2. b \in Contents \ {"absent"}  BY DEF Payloads
      <4> QED BY <3>1, <4>1, <4>2 DEF CreateProfile
    <3>2. CASE PatchProfile(p) /\ UNCHANGED prof
      <4>1. prof' = [prof EXCEPT ![p] = prof[p]]  BY <1>1, <3>2
      <4>2. prof[p] \in Contents \ {"absent"}  BY <1>1, <3>2 DEF PatchProfile
      <4>3. away' \subseteq away \cup {p}  BY <3>2 DEF PatchProfile
      <4> QED BY <4>1, <4>2, <4>3
    <3>3. CASE PatchProfile(p) /\ ~UNCHANGED prof
      <4>1. PICK b \in Payloads \cup {"broken"} : prof' = [prof EXCEPT ![p] = b]  BY <3>3 DEF PatchProfile
      <4>2. b \in Contents \ {"absent"}  BY DEF Payloads
      <4>3. away' = away  BY <3>3 DEF PatchProfile
      <4> QED BY <4>1, <4>2, <4>3
    <3> QED BY <1>3, <3>1, <3>2, <3>3
  <2>2. edited /\ UNCHANGED <<member, group, assigned>>  BY <1>3 DEF CreateProfile, PatchProfile
  <2>3. PICK b \in Contents \ {"absent"} : prof' = [prof EXCEPT ![p] = b]  BY <2>1
  <2>4. prof' \in [Profile -> Contents] /\ \A a \in Profile : prof'[a] = IF a = p THEN b ELSE prof[a]
    BY <1>1, <2>3
  <2>5. PolTypeOK'
    <3>1. \A k \in DOMAIN assigned : k[1] \in Profile  BY <1>1
    <3>2. away' \subseteq {a \in Profile : prof'[a] # "absent"}  BY <1>1, <2>1, <2>3, <2>4
    <3>3. \A k \in DOMAIN assigned : prof'[k[1]] # "absent"  BY <1>1, <2>3, <2>4, <3>1
    <3> QED BY <1>1, <2>2, <2>4, <3>2, <3>3
  <2> QED BY <1>1, <2>2, <2>4, <2>5, EditStep
<1>4. ASSUME NEW p \in Profile, DeleteProfile(p) PROVE PolIInv'
  <2> DEFINE K == {k \in DOMAIN assigned : k[1] = p}
  <2>1. /\ edited /\ UNCHANGED <<member, group>> /\ prof' = [prof EXCEPT ![p] = "absent"]
        /\ away' = away \ {p} /\ assigned' = without(K)
    BY <1>4 DEF DeleteProfile
  <2>2. /\ DOMAIN assigned' = DOMAIN assigned \ K /\ IsFiniteSet(DOMAIN assigned')
        /\ \A k \in DOMAIN assigned' : assigned'[k] = assigned[k]
    <3> HIDE DEF K
    <3> QED BY <1>2, <2>1
  <2>3. prof' \in [Profile -> Contents] /\ \A a \in Profile : prof'[a] = IF a = p THEN "absent" ELSE prof[a]
    BY <1>1, <2>1
  <2>4. \A k \in DOMAIN assigned' : k \in DOMAIN assigned /\ k[1] # p  BY <2>2
  <2>5. \A k \in DOMAIN assigned : k[1] \in Profile  BY <1>1
  <2>6. PolTypeOK'
    <3>1. away' \subseteq {a \in Profile : prof'[a] # "absent"}  BY <1>1, <2>1, <2>3
    <3> QED BY <1>1, <2>1, <2>2, <2>3, <2>4, <2>5, <3>1
  <2> QED BY <2>1, <2>2, <2>3, <2>6, EditStep
<1>5. ASSUME NEW p \in Profile, NEW t \in Device \cup Group, AssignProfile(p, t) PROVE PolIInv'
  <2> DEFINE e == <<p, t>>
  <2>1. /\ edited /\ UNCHANGED <<prof, away, member, group>> /\ prof[p] # "absent" /\ t \in Device \cup group
        /\ assigned' = [k \in DOMAIN assigned \cup {e} |-> IF k = e THEN "ok" ELSE assigned[k]]
    BY <1>5 DEF AssignProfile
  <2>2. e \in Profile \X (Device \cup group) /\ e[1] = p  BY <2>1
  <2> HIDE DEF e
  <2>3. DOMAIN assigned' = DOMAIN assigned \cup {e} /\ \A k \in DOMAIN assigned' : assigned'[k] \in {"ok", assigned[k]}
    BY <2>1
  <2>4. IsFiniteSet(DOMAIN assigned')  BY <1>1, <2>3, FS_AddElement
  <2>5. \A k \in DOMAIN assigned' : assigned'[k] \in {"ok", "conflict"}  BY <1>1, <2>1, <2>3
  <2>6. PolTypeOK'  BY <1>1, <2>1, <2>2, <2>3, <2>5
  <2> QED BY <1>1, <2>1, <2>4, <2>6, EditStep
<1>6. ASSUME NEW g \in Group, CreateGroup(g) PROVE PolIInv'
  <2>1. edited /\ UNCHANGED <<prof, away, member, assigned>> /\ group' = group \cup {g}  BY <1>6 DEF CreateGroup
  <2>2. PolTypeOK'  BY <1>1, <2>1
  <2> QED BY <1>1, <2>1, <2>2, EditStep
<1>7. ASSUME NEW g \in Group, DeleteGroup(g) PROVE PolIInv'
  <2> DEFINE K == {k \in DOMAIN assigned : k[2] = g}
  <2>1. /\ edited /\ UNCHANGED <<prof, away>> /\ group' = group \ {g} /\ member' = {m \in member : m[1] # g}
        /\ assigned' = without(K)
    BY <1>7 DEF DeleteGroup
  <2>2. /\ DOMAIN assigned' = DOMAIN assigned \ K /\ IsFiniteSet(DOMAIN assigned')
        /\ \A k \in DOMAIN assigned' : assigned'[k] = assigned[k]
    <3> HIDE DEF K
    <3> QED BY <1>2, <2>1
  <2>3. ASSUME NEW k \in DOMAIN assigned' PROVE k \in DOMAIN assigned /\ k \in Profile \X (Device \cup group')
    <3>1. k \in DOMAIN assigned /\ k[2] # g  BY <2>2
    <3>2. k \in Profile \X (Device \cup group)  BY <1>1, <3>1
    <3> QED BY <2>1, <3>1, <3>2
  <2>4. member' \subseteq group' \X Device  BY <1>1, <2>1
  <2>5. PolTypeOK'
    <3>1. \A k \in DOMAIN assigned' : prof'[k[1]] # "absent" /\ assigned'[k] \in {"ok", "conflict"}
      BY <1>1, <2>1, <2>2, <2>3
    <3>2. /\ group' \subseteq Group /\ \A p \in Profile : prof'[p] \in Payloads \cup {"absent", "broken"}
          /\ away' \subseteq {p \in Profile : prof'[p] # "absent"}
      BY <1>1, <2>1
    <3> QED BY <2>3, <2>4, <3>1, <3>2
  <2> QED BY <1>1, <2>1, <2>2, <2>5, EditStep
<1>8. ASSUME NEW g \in Group, NEW d \in Device, AddMember(g, d) PROVE PolIInv'
  <2>1. edited /\ UNCHANGED <<prof, away, group, assigned>> /\ g \in group /\ member' = member \cup {<<g, d>>}
    BY <1>8 DEF AddMember
  <2>2. member' \subseteq group' \X Device  BY <1>1, <2>1
  <2>3. PolTypeOK'  BY <1>1, <2>1, <2>2
  <2> QED BY <1>1, <2>1, <2>3, EditStep
<1>9. ASSUME NEW m \in member, RemoveMember(m) PROVE PolIInv'
  <2>1. edited /\ UNCHANGED <<prof, away, group, assigned>> /\ member' = member \ {m}  BY <1>9 DEF RemoveMember
  <2>2. PolTypeOK'  BY <1>1, <2>1
  <2> QED BY <1>1, <2>1, <2>2, EditStep
<1>10. ASSUME NEW e \in DOMAIN assigned, RemoveAssignment(e) PROVE PolIInv'
  <2> DEFINE K == {e}
  <2>1. edited /\ UNCHANGED <<prof, away, member, group>> /\ assigned' = without(K)  BY <1>10 DEF RemoveAssignment
  <2> HIDE DEF K
  <2>2. /\ DOMAIN assigned' = DOMAIN assigned \ K /\ IsFiniteSet(DOMAIN assigned')
        /\ \A k \in DOMAIN assigned' : assigned'[k] = assigned[k]
    BY <1>2, <2>1
  <2>3. PolTypeOK'  BY <1>1, <2>1, <2>2
  <2> QED BY <1>1, <2>1, <2>2, <2>3, EditStep
<1> QED BY <1>3, <1>4, <1>5, <1>6, <1>7, <1>8, <1>9, <1>10

\* Where the tables are the same, so are the conflicts.
LEMMA SameTables ==
  ASSUME UNCHANGED <<prof, away, member>>, DOMAIN assigned' = DOMAIN assigned
  PROVE  /\ \A d : scope(d)' = scope(d)
         /\ \A d : Clashing(Mates(d))' = Clashing(Mates(d))
<1>1. \A d : scope(d)' = scope(d)  BY DEF scope
<1>2. \A d : Mates(d)' = Mates(d)  BY <1>1 DEF Mates
<1> QED BY <1>1, <1>2 DEF Clashing

\* A computation keeps the invariant: it reads the set of profiles, and writes the flags of its
\* device from what it read.
LEMMA ComputationsKeep ==
  ASSUME PolIInv, NEW r \in Reader, (\E d \in Device : ReadAssigned(r, d)) \/ Reconcile(r) \/ GiveUpCalc(r)
  PROVE  PolIInv'
<1> DEFINE C == [pc : {"idle", "reconcile"}, dev : Device \cup {""}, conf : SUBSET Profile, seen : BOOLEAN]
<1>1. /\ prof \in [Profile -> Contents] /\ settled \subseteq Device /\ IsFiniteSet(DOMAIN assigned)
      /\ calc \in [Reader -> C]
  BY DEF PolIInv, PolShapes
<1>2. NoCalc \in C /\ NoCalc.pc = "idle"  BY DEF NoCalc
<1>3. ASSUME calc' = [calc EXCEPT ![r] = NoCalc], UNCHANGED <<prof, away, member, group>>, DOMAIN assigned' = DOMAIN assigned
      PROVE  Current' /\ calc' \in [Reader -> C]
  <2>1. \A s \in Reader : calc'[s] = IF s = r THEN NoCalc ELSE calc[s]  BY <1>1, <1>3
  <2>2. calc' \in [Reader -> C]
    <3> HIDE DEF C
    <3> QED BY <1>1, <1>2, <1>3
  <2>3. \A d : Clashing(Mates(d))' = Clashing(Mates(d))  BY <1>3, SameTables
  <2>4. Current'
    <3> SUFFICES ASSUME NEW s \in Reader, calc'[s].pc = "reconcile"
                 PROVE  /\ calc'[s].dev \in Device
                        /\ \A e \in Device : calc'[s].seen /\ calc'[s].dev = e => calc'[s].conf = Clashing(Mates(e))'
      BY DEF Current
    <3>1. calc'[s] = calc[s]  BY <1>2, <2>1
    <3>2. /\ calc[s].dev \in Device
          /\ \A e \in Device : calc[s].seen /\ calc[s].dev = e => calc[s].conf = Clashing(Mates(e))
      BY <3>1 DEF PolIInv, Current
    <3> QED BY <2>3, <3>1, <3>2
  <2> QED BY <2>2, <2>4
<1>4. ASSUME NEW d \in Device, ReadAssigned(r, d) PROVE PolIInv'
  <2>1. PICK ps \in listed(d) :
          calc' = [calc EXCEPT ![r] = [pc |-> "reconcile", dev |-> d, conf |-> conflicting(ps), seen |-> TRUE]]
    BY <1>4 DEF ReadAssigned
  <2>2. UNCHANGED <<prof, away, member, group, assigned, settled>>  BY <1>4 DEF ReadAssigned
  <2>3. conflicting(ps) = Clashing(Mates(d))  BY <1>1, ListedConflicts
  <2>4. Clashing(Mates(d)) \subseteq Profile
    <3>1. \A k \in scope(d) : k[1] \in Profile  BY DEF scope, PolIInv, PolTypeOK
    <3> QED BY <3>1 DEF Clashing, Mates
  <2> DEFINE n == [pc |-> "reconcile", dev |-> d, conf |-> conflicting(ps), seen |-> TRUE]
  <2>5. n \in C /\ n.dev = d /\ n.conf = Clashing(Mates(d))  BY <2>3, <2>4
  <2> HIDE DEF n
  <2>6. calc' = [calc EXCEPT ![r] = n]  BY <2>1 DEF n
  <2>7. \A s \in Reader : calc'[s] = IF s = r THEN n ELSE calc[s]  BY <1>1, <2>6
  <2>8. calc' \in [Reader -> C]
    <3> HIDE DEF C
    <3> QED BY <1>1, <2>5, <2>6
  <2>9. /\ \A e : scope(e)' = scope(e)
        /\ \A e : Clashing(Mates(e))' = Clashing(Mates(e))
    BY <2>2, SameTables
  <2>10. Current'
    <3> SUFFICES ASSUME NEW s \in Reader, calc'[s].pc = "reconcile"
                 PROVE  /\ calc'[s].dev \in Device
                        /\ \A e \in Device : calc'[s].seen /\ calc'[s].dev = e => calc'[s].conf = Clashing(Mates(e))'
      BY DEF Current
    <3>1. CASE s = r  BY <2>5, <2>7, <2>9, <3>1
    <3>2. CASE s # r
      <4>1. calc'[s] = calc[s]  BY <2>7, <3>2
      <4>2. /\ calc[s].dev \in Device
            /\ \A e \in Device : calc[s].seen /\ calc[s].dev = e => calc[s].conf = Clashing(Mates(e))
        BY <4>1 DEF PolIInv, Current
      <4> QED BY <2>9, <4>1, <4>2
    <3> QED BY <3>1, <3>2
  <2>11. PolTypeOK' /\ PolShapes'  BY <1>1, <2>2, <2>8 DEF PolIInv, PolTypeOK, PolShapes
  <2>12. Told'
    <3>1. Told  BY DEF PolIInv
    <3> QED BY <2>2, <2>9, <3>1 DEF Told
  <2> QED BY <2>10, <2>11, <2>12 DEF PolIInv
<1>5. ASSUME GiveUpCalc(r) PROVE PolIInv'
  <2>1. calc' = [calc EXCEPT ![r] = NoCalc] /\ UNCHANGED <<prof, away, member, group, assigned, settled>>
    BY <1>5 DEF GiveUpCalc
  <2>2. Current' /\ calc' \in [Reader -> C]
    <3> HIDE DEF C
    <3> QED BY <1>3, <2>1
  <2>3. PolTypeOK' /\ PolShapes'  BY <1>1, <2>1, <2>2 DEF PolIInv, PolTypeOK, PolShapes
  <2>4. Told'
    <3>1. /\ \A e : scope(e)' = scope(e)
          /\ \A e : Clashing(Mates(e))' = Clashing(Mates(e))
      BY <2>1, SameTables
    <3>2. Told  BY DEF PolIInv
    <3> QED BY <2>1, <3>1, <3>2 DEF Told
  <2> QED BY <2>2, <2>3, <2>4 DEF PolIInv
<1>6. ASSUME Reconcile(r) PROVE PolIInv'
  <2> DEFINE d == calc[r].dev
             conf == calc[r].conf
             shared == {e \in Device \ {d} : \E k \in scope(d) \cap scope(e) : assigned[k] # assigned'[k]}
  <2>1. /\ calc[r].pc = "reconcile" /\ assigned' = flags(d, conf)
        /\ settled' = (settled \ (shared \cup {d})) \cup (IF calc[r].seen THEN {d} ELSE {})
        /\ calc' = [calc EXCEPT ![r] = NoCalc] /\ UNCHANGED <<prof, away, member, group>>
    BY <1>6 DEF Reconcile
  <2>2. DOMAIN assigned' = DOMAIN assigned
        /\ \A k \in DOMAIN assigned : assigned'[k] = IF k \notin scope(d) THEN assigned[k]
                                                     ELSE IF k[1] \in conf THEN "conflict" ELSE "ok"
    BY <2>1 DEF flags
  <2>3. d \in Device /\ (calc[r].seen => conf = Clashing(Mates(d)))  BY <2>1 DEF PolIInv, Current
  <2>4. Current' /\ calc' \in [Reader -> C]
    <3> HIDE DEF C
    <3> QED BY <1>3, <2>1, <2>2
  <2>5. settled' \subseteq Device  BY <1>1, <2>1, <2>3
  <2>6. PolShapes'  BY <1>1, <2>1, <2>2, <2>4, <2>5 DEF PolShapes
  <2>7. PolTypeOK'
    <3>1. \A k \in DOMAIN assigned : assigned'[k] \in {"ok", "conflict"}  BY <2>2 DEF PolIInv, PolTypeOK
    <3> QED BY <2>1, <2>2, <3>1 DEF PolIInv, PolTypeOK
  <2>8. /\ \A e : scope(e)' = scope(e)
        /\ \A e : Clashing(Mates(e))' = Clashing(Mates(e))
    BY <2>1, <2>2, SameTables
  <2>9. \A e : scope(e) \subseteq DOMAIN assigned  BY DEF scope
  <2>10. ASSUME NEW e \in settled', NEW k \in scope(e)
         PROVE  (assigned'[k] = "conflict") <=> (k[1] \in Clashing(Mates(e)))
    <3>1. CASE e = d
      <4>1. calc[r].seen  BY <2>1, <2>10, <3>1
      <4>2. conf = Clashing(Mates(d))  BY <2>3, <4>1
      <4>3. assigned'[k] = IF k[1] \in conf THEN "conflict" ELSE "ok"  BY <2>2, <2>9, <3>1
      <4> QED BY <3>1, <4>2, <4>3
    <3>2. CASE e # d
      <4>1. e \in settled /\ e \notin shared /\ e \in Device  BY <1>1, <2>1, <2>10, <3>2
      <4>2. (assigned[k] = "conflict") <=> (k[1] \in Clashing(Mates(e)))  BY <4>1 DEF PolIInv, Told
      <4>3. assigned'[k] = assigned[k]
        <5>1. CASE k \in scope(d)  BY <3>2, <4>1, <5>1
        <5>2. CASE k \notin scope(d)  BY <2>2, <2>9, <5>2
        <5> QED BY <5>1, <5>2
      <4> QED BY <4>2, <4>3
    <3> QED BY <3>1, <3>2
  <2>11. Told'  BY <2>8, <2>10 DEF Told
  <2> QED BY <2>4, <2>6, <2>7, <2>11 DEF PolIInv
<1> QED BY <1>4, <1>5, <1>6

\* The invariant is kept by every step.
LEMMA PolKeeps == PolIInv /\ [PolNext]_polVars => PolIInv'
<1> SUFFICES ASSUME PolIInv, [PolNext]_polVars PROVE PolIInv'  OBVIOUS
<1>1. CASE UNCHANGED polVars
  <2>1. UNCHANGED <<prof, away, member, group, assigned, calc, settled>>  BY <1>1 DEF polVars
  <2>2. /\ \A e : scope(e)' = scope(e)
        /\ \A e : Clashing(Mates(e))' = Clashing(Mates(e))
    BY <2>1, SameTables
  <2>3. PolTypeOK' /\ PolShapes'  BY <2>1 DEF PolIInv, PolTypeOK, PolShapes
  <2>4. Told /\ Current  BY DEF PolIInv
  <2>5. Told'  BY <2>1, <2>2, <2>4 DEF Told
  <2>6. Current'  BY <2>1, <2>2, <2>4 DEF Current
  <2> QED BY <2>3, <2>5, <2>6 DEF PolIInv
<1>2. CASE PolNext  BY <1>2, EditsKeep, ComputationsKeep DEF PolNext
<1> QED BY <1>1, <1>2

\* A setting of some profiles: what the values of the first state are.
MergeOK == leaf \in LeafKinds /\ parts \in Seq(Json) /\ parts # << >>

\* The settings that the runs merge are settings.
LEMMA MergeInitOK == MergeInit => MergeOK
<1> SUFFICES ASSUME MergeInit PROVE MergeOK  OBVIOUS
<1>1. JsonValues \subseteq Json
  <2>1. {Bool(0), Bool(1), Num(1), Num(2), Str(1), Str(2), Null, Obj} \subseteq Json
    BY DEF Json, Bool, Num, Str, Null, Obj
  <2>2. \A s \in Seq(Nat) : Arr(s) \in Json  BY DEF Json, Arr
  <2>3. \A s \in {<<>>, <<1>>, <<2>>, <<2, 1>>, <<5>>, <<6>>, <<1, 5>>} : s \in Seq(Nat)
    <3>1. <<>> \in Seq(Nat) /\ <<1>> \in Seq(Nat) /\ <<2>> \in Seq(Nat)  OBVIOUS
    <3>2. <<2, 1>> \in Seq(Nat) /\ <<1, 5>> \in Seq(Nat)  OBVIOUS
    <3>3. <<5>> \in Seq(Nat) /\ <<6>> \in Seq(Nat)  OBVIOUS
    <3> QED BY <3>1, <3>2, <3>3
  <2> QED BY <2>1, <2>2, <2>3 DEF JsonValues
<1>2. PICK n \in 1..3 : parts \in [1..n -> JsonValues]  BY DEF MergeInit
<1>3. parts \in Seq(Json) /\ Len(parts) = n
  <2>1. parts \in [1..n -> Json]  BY <1>1, <1>2
  <2> HIDE DEF Json
  <2>2. n \in Nat  OBVIOUS
  <2> QED BY <2>1, <2>2
<1>4. parts # << >>  BY <1>3
<1> QED BY <1>3, <1>4 DEF MergeInit, MergeOK

-----------------------------------------------------------------------------
(* The whole                                                                *)

\* An area moves by its own steps or rests.
LEMMA AreasMoveApart ==
  [Next]_vars => /\ [DroidNext]_droidVars /\ [DeskNext]_deskVars
                 /\ [BackupNext]_backupVars /\ [CatNext]_catVars /\ DeployMoves
                 /\ [PolNext]_polVars /\ UNCHANGED mergeVars
BY DEF Next, vars, Deploys, Schedules, Catalogue, Profiles, Android, Backups, Incidents,
     DeployMoves

\* Whatever requests, alerts, recoveries and command results meet at the incidents of an alert:
\* journals lose no note that was committed, the alert has one incident, and it stays active
\* until someone sets its state.
THEOREM IncidentsAreSound == Spec => []DeskInv
<1>1. Init => DeskIInv  BY DeskInitInv DEF Init
<1>2. DeskIInv /\ [Next]_vars => DeskIInv'  BY DeskStep, AreasMoveApart
<1>3. Spec => []DeskIInv  BY <1>1, <1>2, PTL DEF Spec
<1> QED BY <1>3, DeskInvHolds, PTL

\* No edit, alert, recovery or command result takes a note out of an incident's journal, changes
\* one or writes two at once, whatever other transactions are under way: while the incident is
\* there, its journal grows at its end, a note at a time.
THEOREM JournalsGrow ==
  Spec => [][\A i \in 1 .. MaxInc : inc[i].ex /\ inc'[i].ex => Grown(inc[i].notes, inc'[i].notes)]_deskVars
<1> DEFINE Kept == \A i \in 1 .. MaxInc : inc[i].ex /\ inc'[i].ex => Grown(inc[i].notes, inc'[i].notes)
<1>1. Init => DeskIInv  BY DeskInitInv DEF Init
<1>2. DeskIInv /\ [Next]_vars => DeskIInv'  BY DeskStep, AreasMoveApart
<1>3. DeskIInv /\ [Next]_vars => [Kept]_deskVars
  <2>1. DeskIInv /\ [Next]_vars => Kept  BY JournalStep, AreasMoveApart
  <2> QED BY <2>1
<1> QED BY <1>1, <1>2, <1>3, PTL DEF Spec

\* Whatever requests, installs, failures and stops of the server meet: an uploaded artifact that
\* no PATCH has touched is there when its entry is, a success is an installer that ended well, a
\* lone install is authorised; and once there was a backup there always is a whole one.
THEOREM FilesAreKept == Spec => []FilesHold
<1>1. Init => CatIInv /\ BackupIInv  BY CatInitInv, BackupInitInv DEF Init
<1>2. CatIInv /\ BackupIInv /\ [Next]_vars => CatIInv' /\ BackupIInv'  BY CatStep, BackupStep, AreasMoveApart
<1>3. CatIInv /\ BackupIInv => FilesHold  BY CatInvHolds DEF BackupIInv, FilesHold
<1> QED BY <1>1, <1>2, <1>3, PTL DEF Spec

\* A wipe an operator asked for stays in the row until an answer carries it or it is withdrawn,
\* however many PATCH requests and telemetry answers of the device are under way.
THEOREM WipeStays == Spec => []WipeIsKept
<1>1. Init => DroidInv  BY DroidInitInv DEF Init
<1>2. DroidInv /\ [Next]_vars => DroidInv'  BY DroidStep, AreasMoveApart
<1>3. DroidInv => WipeIsKept  BY DEF DroidInv
<1> QED BY <1>1, <1>2, <1>3, PTL DEF Spec

\* Whatever operators, agents, the scheduler and ends of the server meet: a deployment's row tells
\* the truth of the device, an activation reaches a device once, and a job whose automation was
\* off when it fired issues nothing.
THEOREM DeploymentsAreHonest == Spec => []DeploymentsHold
<1>1. Init => DeployIInv  BY DeployInitInv DEF Init
<1>2. DeployIInv /\ [Next]_vars => DeployIInv'  BY DeployStep, AreasMoveApart
<1>3. DeployIInv => DeploymentsHold  BY DeployInvHolds DEF DeploymentsHold
<1> QED BY <1>1, <1>2, <1>3, PTL DEF Spec

\* A success or failure that is stored when the call that dispatched the deployment is over is
\* final: nothing but the removal of the package changes it.
THEOREM OutcomesAreFinal == Spec => OutcomeStays
<1>1. Init => DeployIInv  BY DeployInitInv DEF Init
<1>2. DeployIInv /\ [Next]_vars => DeployIInv'  BY DeployStep, AreasMoveApart
<1> DEFINE Final == \A d \in DOMAIN dep :
              dep[d].row \in {"succeeded", "failed"} /\ (\A i \in Issuer : iss[i].dep # d)
                => dep'[d].row \in {dep[d].row, "deleted"}
<1>3. DeployIInv /\ [Next]_vars => [Final]_depVars
  <2>1. DeployIInv /\ [Next]_vars => Final  BY RowStays, AreasMoveApart
  <2> QED BY <2>1
<1> QED BY <1>1, <1>2, <1>3, PTL DEF Spec, OutcomeStays

\* Whatever operators edit and however many computations for however many devices meet: flags
\* written last from the present tables tell the device's conflicts, and a merged setting is
\* what the set of its values calls for.
THEOREM ProfilesAreSound == Spec => []ProfilesHold
<1>1. Init => PolIInv /\ MergeOK  BY PolInitInv, MergeInitOK DEF Init
<1>2. PolIInv /\ MergeOK /\ [Next]_vars => PolIInv' /\ MergeOK'
  <2>1. MergeOK /\ UNCHANGED mergeVars => MergeOK'  BY DEF MergeOK, mergeVars
  <2> QED BY <2>1, PolKeeps, AreasMoveApart
<1>3. MergeOK => MergeIsRestrictive  BY MergeTakesTheStrictest DEF MergeOK, MergeIsRestrictive
<1>4. PolIInv /\ MergeOK => ProfilesHold  BY <1>3, PolImplies DEF ProfilesHold
<1> QED BY <1>1, <1>2, <1>4, PTL DEF Spec
=============================================================================
