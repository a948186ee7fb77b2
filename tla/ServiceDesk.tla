---------------------------- MODULE ServiceDesk -----------------------------
(***************************************************************************)
(* The incidents of one alert fingerprint and of the operators: requests that   *)
(* create, edit, resolve and delete them, the alert engine's transactions that   *)
(* open one or append to it, recoveries and command results that append to the   *)
(* journal.  A transaction keeps the lock of a row it has changed until it       *)
(* commits or rolls back; what it changed is seen by others at the commit.       *)
(***************************************************************************)
EXTENDS Naturals, Sequences, FiniteSets

CONSTANTS
  Clerk,      \* PATCH requests and resolutions in progress at once
  Opener,     \* OnCriticalDeviceFingerprint in progress at once
  MaxInc,     \* bound: values of incident_seq
  MaxNotes    \* bound: notes of one incident

ASSUME DeskAssumption == MaxInc \in Nat /\ Clerk \cap Opener = {}

VARIABLES
  inc,       \* incidents, by their number
  incSeq,    \* incident_seq: numbers handed out
  resol,     \* resolutions, as the numbers of their incidents
  tx,        \* transactions and requests of clerks and openers
  said,      \* history: the notes whose writers committed, per incident
  alarmed    \* history: incidents an alert has opened or repeated since anyone last set their state

deskVars == <<inc, incSeq, resol, tx, said, alarmed>>

\* No statement tells new, in_progress and on_hold apart: "active" stands for them.
IncState == {"active", "resolved", "closed"}
NoInc == [ex |-> FALSE, fp |-> FALSE, state |-> "active", notes |-> <<>>]
NoTx == [pc |-> "idle", i |-> 0, note |-> FALSE, state |-> "keep", holds |-> FALSE, new |-> NoInc]

DeskInit ==
  /\ inc = [i \in 1 .. MaxInc |-> NoInc] /\ incSeq = 0 /\ resol = {}
  /\ tx = [w \in Clerk \cup Opener |-> NoTx]
  /\ said = [i \in 1 .. MaxInc |-> <<>>] /\ alarmed = {}

-----------------------------------------------------------------------------

\* No other transaction has the row's lock.
unlocked(i) == \A w \in DOMAIN tx : ~(tx[w].holds /\ tx[w].i = i)

withNote(r, n) == [r EXCEPT !.notes = Append(@, n)]
roomFor(i) == Len(said[i]) < MaxNotes

\* A statement outside a transaction that appends a note, and what its writer may say then.
journal(i, r, n) ==
  /\ unlocked(i) /\ roomFor(i)
  /\ inc' = [inc EXCEPT ![i] = withNote(r, n)] /\ said' = [said EXCEPT ![i] = Append(@, n)]

\* handleCreate, perhaps with a first note: the number is taken even if an asset or user is
\* unknown and all rolls back.
CreateIncident(s, ns) ==
  /\ incSeq < MaxInc /\ incSeq' = incSeq + 1
  /\ \/ UNCHANGED <<inc, said>>
     \/ /\ inc' = [inc EXCEPT ![incSeq'] = [NoInc EXCEPT !.ex = TRUE, !.state = s, !.notes = ns]]
        /\ said' = [said EXCEPT ![incSeq'] = ns]
  /\ UNCHANGED <<resol, tx, alarmed>>

\* Mutant: the journal is read, appended to in memory and written back by the fields' update.
AppendNoteRead(c, i, s) ==
  /\ tx[c].pc = "idle" /\ roomFor(i) /\ inc[i].ex
  /\ tx' = [tx EXCEPT ![c] = [NoTx EXCEPT !.pc = "fields", !.i = i, !.note = TRUE, !.state = s,
                                         !.new = withNote(inc[i], "manual")]]
  /\ UNCHANGED <<inc, incSeq, resol, said, alarmed>>

\* handlePatch with a note and perhaps a state to set, which stands for the other fields too:
\* UPDATE incidents SET work_notes = work_notes || ... is the first change and takes the lock.
AppendNote(c, i, s) ==
  /\ tx[c].pc = "idle" /\ unlocked(i) /\ roomFor(i) /\ inc[i].ex
  /\ tx' = [tx EXCEPT ![c] = [NoTx EXCEPT !.pc = "fields", !.i = i, !.note = TRUE, !.state = s,
                                         !.holds = TRUE, !.new = withNote(inc[i], "manual")]]
  /\ UNCHANGED <<inc, incSeq, resol, said, alarmed>>

\* The fields' UPDATE after a note, if there are fields
UpdateFields(c) ==
  /\ tx[c].pc = "fields"
  /\ tx' = [tx EXCEPT ![c].pc = "commit", ![c].new.state = IF tx[c].state = "keep" THEN @ ELSE tx[c].state]
  /\ UNCHANGED <<inc, incSeq, resol, said, alarmed>>

\* The fields' UPDATE of a request without a note; one that sets no state changes nothing here
UpdateOnly(c, i, s) ==
  /\ tx[c].pc = "idle" /\ unlocked(i) /\ inc[i].ex /\ s # "keep"
  /\ tx' = [tx EXCEPT ![c] = [NoTx EXCEPT !.pc = "commit", !.i = i, !.state = s,
                                         !.holds = TRUE, !.new = [inc[i] EXCEPT !.state = s]]]
  /\ UNCHANGED <<inc, incSeq, resol, said, alarmed>>

CommitFields(c) ==
  LET i == tx[c].i IN
  /\ tx[c].pc = "commit"
  /\ inc' = [inc EXCEPT ![i] = tx[c].new] /\ tx' = [tx EXCEPT ![c] = NoTx]
  /\ said' = IF tx[c].note THEN [said EXCEPT ![i] = Append(@, "manual")] ELSE said
  /\ alarmed' = IF tx[c].state = "keep" THEN alarmed ELSE alarmed \ {i}
  /\ UNCHANGED <<incSeq, resol>>

\* A failing statement, an unknown asset or user, no such row, the time limit: nothing stays.
Rollback(w) ==
  /\ tx[w].pc # "idle" /\ tx' = [tx EXCEPT ![w] = NoTx]
  /\ UNCHANGED <<inc, incSeq, resol, said, alarmed>>

\* handleDelete: resolutions go with the incident
DeleteIncident(i) ==
  /\ inc[i].ex /\ unlocked(i)
  /\ inc' = [inc EXCEPT ![i] = NoInc] /\ resol' = resol \ {i}
  /\ said' = [said EXCEPT ![i] = <<>>] /\ alarmed' = alarmed \ {i} /\ UNCHANGED <<incSeq, tx>>

\* handlePostResolution: the incident is looked for ...
FindIncident(c, i) ==
  /\ tx[c].pc = "idle" /\ inc[i].ex
  /\ tx' = [tx EXCEPT ![c] = [NoTx EXCEPT !.pc = "resolution", !.i = i]]
  /\ UNCHANGED <<inc, incSeq, resol, said, alarmed>>

\* ... and the foreign key looks again; it waits for SELECT FOR UPDATE, not for an UPDATE.
InsertResolution(c) ==
  LET i == tx[c].i IN
  /\ tx[c].pc = "resolution" /\ ~\E o \in Opener : tx[o].holds /\ tx[o].i = i
  /\ resol' = IF inc[i].ex THEN resol \cup {i} ELSE resol
  /\ tx' = [tx EXCEPT ![c] = NoTx] /\ UNCHANGED <<inc, incSeq, said, alarmed>>

\* AppendIncidentWorkNoteJSON: the result of a command
JournalCommand(i) ==
  /\ inc[i].ex /\ journal(i, inc[i], "command") /\ UNCHANGED <<incSeq, resol, tx, alarmed>>

-----------------------------------------------------------------------------

Keyed == {i \in 1 .. MaxInc : inc[i].ex /\ inc[i].fp}

\* UpsertIncidentForCriticalFingerprint: SELECT ... FOR UPDATE finds the row and locks it, or a
\* number is taken for a new one.
SelectFingerprint(o) ==
  /\ tx[o].pc = "idle"
  /\ \/ \E i \in Keyed : /\ unlocked(i)
                         /\ tx' = [tx EXCEPT ![o] = [NoTx EXCEPT !.pc = "repeat", !.i = i, !.holds = TRUE]]
                         /\ UNCHANGED incSeq
     \/ /\ Keyed = {} /\ incSeq < MaxInc /\ incSeq' = incSeq + 1
        /\ tx' = [tx EXCEPT ![o] = [NoTx EXCEPT !.pc = "open", !.i = incSeq']]
  /\ UNCHANGED <<inc, resol, said, alarmed>>

\* The INSERT waits for another transaction that has the fingerprint in the unique index, and
\* fails (Rollback) when that one commits.
InsertIncident(o) ==
  /\ tx[o].pc = "open" /\ Keyed = {}
  /\ \A q \in Opener \ {o} : ~(tx[q].holds /\ tx[q].new.fp)
  /\ tx' = [tx EXCEPT ![o].pc = "commit", ![o].holds = TRUE,
                      ![o].new = [ex |-> TRUE, fp |-> TRUE, state |-> "active", notes |-> <<"open">>]]
  /\ UNCHANGED <<inc, incSeq, resol, said, alarmed>>

\* A repeated alert opens a resolved or closed incident again.
RepeatAlert(o) ==
  LET i == tx[o].i IN
  /\ tx[o].pc = "repeat" /\ roomFor(i)
  /\ tx' = [tx EXCEPT ![o].pc = "commit", ![o].new = [withNote(inc[i], "repeat") EXCEPT !.state = "active"]]
  /\ UNCHANGED <<inc, incSeq, resol, said, alarmed>>

CommitAlert(o) ==
  LET i == tx[o].i IN
  /\ tx[o].pc = "commit"
  /\ inc' = [inc EXCEPT ![i] = tx[o].new] /\ tx' = [tx EXCEPT ![o] = NoTx]
  /\ said' = [said EXCEPT ![i] = Append(@, tx[o].new.notes[Len(tx[o].new.notes)])]
  /\ alarmed' = alarmed \cup {i} /\ UNCHANGED <<incSeq, resol>>

\* AutoResolveIncidentsForAlertFingerprints: one statement, which leaves a closed incident alone
AutoResolveIncident(i) ==
  /\ i \in Keyed /\ inc[i].state # "closed"
  /\ journal(i, [inc[i] EXCEPT !.state = "resolved"], "recovery")
  /\ alarmed' = alarmed \ {i} /\ UNCHANGED <<incSeq, resol, tx>>

DeskNext ==
  \/ \E s \in IncState, ns \in {<<>>, <<"manual">>} : CreateIncident(s, ns)
  \/ \E c \in Clerk :
       \/ \E i \in 1 .. MaxInc, s \in IncState \cup {"keep"} : AppendNote(c, i, s) \/ UpdateOnly(c, i, s)
       \/ \E i \in 1 .. MaxInc : FindIncident(c, i)
       \/ UpdateFields(c) \/ CommitFields(c) \/ InsertResolution(c)
  \/ \E o \in Opener : SelectFingerprint(o) \/ InsertIncident(o) \/ RepeatAlert(o) \/ CommitAlert(o)
  \/ \E w \in Clerk \cup Opener : Rollback(w)
  \/ \E i \in 1 .. MaxInc : DeleteIncident(i) \/ JournalCommand(i) \/ AutoResolveIncident(i)

DeskSpec == DeskInit /\ [][DeskNext]_deskVars

-----------------------------------------------------------------------------

DeskTypeOK ==
  /\ incSeq \in 0 .. MaxInc /\ \A i \in 1 .. MaxInc : inc[i].ex => i <= incSeq /\ inc[i].state \in IncState
  /\ resol \subseteq 1 .. MaxInc /\ alarmed \subseteq 1 .. MaxInc

\* However operators, the alert engine, recoveries and command results meet: the journal of an
\* incident holds exactly the notes whose writers committed, in that order, so none is lost to a
\* concurrent edit and none stays of an edit that failed after it; an alert has one incident; an
\* incident an alert has opened or repeated is active until someone sets its state; and a
\* resolution has its incident.
DeskInv ==
  /\ DeskTypeOK
  /\ \A i \in 1 .. MaxInc : inc[i].notes = said[i]
  /\ Cardinality(Keyed) <= 1
  /\ \A i \in alarmed : inc[i].state = "active"
  /\ \A i \in resol : inc[i].ex
=============================================================================
