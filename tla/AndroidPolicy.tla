--------------------------- MODULE AndroidPolicy ----------------------------
(***************************************************************************)
(* The Android policy of one device: PATCH requests that read the row under a  *)
(* row lock and write every column of it, and telemetry answers that carry     *)
(* the row and then clear its one-shot wipe.  Of the columns the wipe is kept  *)
(* and one that stands for the others.                                       *)
(***************************************************************************)
EXTENDS Naturals, FiniteSets

CONSTANTS
  Patcher,     \* PATCH requests in progress at once
  Answer,      \* telemetry answers being assembled at once
  MaxPatches   \* bound: PATCH requests

ASSUME DroidAssumption == "free" \notin Patcher

VARIABLES
  droid,   \* android_policies row
  lock,    \* who holds the row's lock, "free" for no one
  patch,   \* handlePatch in progress
  ack,     \* AppendAndroidPolicyToTelemetryResponse: "idle", "clear" (a wipe is in the answer)
  owed,    \* history: a wipe was requested and no answer has carried it
  before,  \* history: answers that carried a wipe before that request, and have yet to clear it
  taken,   \* history: one of them has cleared it
  raced,   \* history: a request that had found no row has written over one
  patches

wipeVars == <<owed, before, taken>>
droidVars == <<droid, lock, patch, ack, wipeVars, raced, patches>>

NoRow == [ex |-> FALSE, camera |-> FALSE, wipe |-> FALSE]
NoPatch == [pc |-> "idle", camera |-> "keep", wipe |-> "keep", cur |-> NoRow]

DroidInit ==
  /\ droid = NoRow /\ lock = "free" /\ patch = [h \in Patcher |-> NoPatch]
  /\ ack = [a \in Answer |-> "idle"] /\ owed = FALSE /\ before = {} /\ taken = FALSE
  /\ raced = FALSE /\ patches = 0

-----------------------------------------------------------------------------

\* handlePatch: the fields of the request
StartPatch(h) ==
  /\ patch[h].pc = "idle" /\ patches < MaxPatches
  /\ \E c, w \in {"keep", "set", "clear"} :
       patch' = [patch EXCEPT ![h] = [pc |-> "select", camera |-> c, wipe |-> w, cur |-> NoRow]]
  /\ patches' = patches + 1 /\ UNCHANGED <<droid, lock, ack, wipeVars, raced>>

\* Mutant: the row is read without FOR UPDATE.
SelectUnlocked(h) ==
  /\ patch[h].pc = "select"
  /\ patch' = [patch EXCEPT ![h].pc = "write", ![h].cur = droid]
  /\ UNCHANGED <<droid, lock, ack, wipeVars, raced, patches>>

\* SELECT ... FOR UPDATE waits for the lock of a row; there is nothing to lock before the
\* first row.
SelectForUpdate(h) ==
  /\ patch[h].pc = "select" /\ lock = "free"
  /\ patch' = [patch EXCEPT ![h].pc = "write", ![h].cur = droid]
  /\ lock' = IF droid.ex THEN h ELSE lock
  /\ UNCHANGED <<droid, ack, wipeVars, raced, patches>>

applied(req, old) == IF req = "keep" THEN old ELSE req = "set"

\* The upsert of all columns and the commit; the insert waits for a locked row.
CommitPatch(h) ==
  /\ patch[h].pc = "write" /\ lock \in {h, "free"}
  /\ LET r == patch[h] IN
     /\ droid' = [ex |-> TRUE, camera |-> applied(r.camera, r.cur.camera), wipe |-> applied(r.wipe, r.cur.wipe)]
     /\ \/ r.wipe = "keep" /\ UNCHANGED wipeVars
        \/ /\ r.wipe # "keep" /\ owed' = (r.wipe = "set") /\ taken' = FALSE
           /\ before' = {a \in Answer : ack[a] = "clear"}
     /\ raced' = (raced \/ (droid.ex /\ ~r.cur.ex))
  /\ patch' = [patch EXCEPT ![h] = NoPatch] /\ lock' = "free" /\ UNCHANGED <<ack, patches>>

\* A failing statement or the end of the request rolls back.
RollbackPatch(h) ==
  /\ patch[h].pc \in {"select", "write"}
  /\ patch' = [patch EXCEPT ![h] = NoPatch] /\ lock' = (IF lock = h THEN "free" ELSE lock)
  /\ UNCHANGED <<droid, ack, wipeVars, raced, patches>>

\* The answer to a telemetry report takes a snapshot of the row ...
CarryPolicy(a) ==
  /\ ack[a] = "idle" /\ droid.wipe
  /\ ack' = [ack EXCEPT ![a] = "clear"] /\ owed' = FALSE
  /\ UNCHANGED <<droid, lock, patch, before, taken, raced, patches>>

\* ... and clears the wipe if there was one in it, also when it has been requested again since;
\* a failing statement is ignored.
ClearWipe(a) ==
  /\ ack[a] = "clear" /\ lock = "free"
  /\ \/ /\ droid' = [droid EXCEPT !.wipe = FALSE]
        /\ taken' = (taken \/ a \in before)
     \/ UNCHANGED <<droid, taken>>
  /\ ack' = [ack EXCEPT ![a] = "idle"] /\ before' = before \ {a}
  /\ UNCHANGED <<lock, patch, owed, raced, patches>>

DroidNext ==
  \/ \E h \in Patcher : StartPatch(h) \/ SelectForUpdate(h) \/ CommitPatch(h) \/ RollbackPatch(h)
  \/ \E a \in Answer : CarryPolicy(a) \/ ClearWipe(a)

DroidSpec == DroidInit /\ [][DroidNext]_droidVars

-----------------------------------------------------------------------------

DroidTypeOK ==
  /\ droid \in [ex : BOOLEAN, camera : BOOLEAN, wipe : BOOLEAN] /\ lock \in Patcher \cup {"free"}
  /\ \A h \in Patcher : lock = h => patch[h].pc = "write"
  /\ ack \in [Answer -> {"idle", "clear"}] /\ owed \in BOOLEAN /\ raced \in BOOLEAN
  /\ before \subseteq {a \in Answer : ack[a] = "clear"} /\ taken \in BOOLEAN

\* A wipe an operator asked for stays in the row until an answer carries it or an operator
\* withdraws it, except in two cases: requests that both found no row overwrite one another, and
\* an answer that carried an earlier wipe clears the row after the wipe was asked for again.  No
\* PATCH of another field and no other answer takes it away.
WipeIsKept == DroidTypeOK /\ (owed /\ ~raced /\ ~taken => droid.wipe)
=============================================================================
