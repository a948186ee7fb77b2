------------------------------- MODULE Policy -------------------------------
(***************************************************************************)
(* Configuration profiles on the server: profiles and groups edited by         *)
(* operators, assigned to devices and to groups, the effective policy that is  *)
(* computed whenever a device or the dashboard asks, and the conflict flag     *)
(* each computation leaves on the assignments it looked at.                   *)
(***************************************************************************)
EXTENDS PolicyMerge

CONSTANTS
  Profile,    \* configuration profiles that may be created
  Device,     \* devices of one platform
  Group,      \* principal groups
  Reader,     \* computations in progress at once
  MaxPolEdits \* bound: operators' edits

VARIABLES
  prof,     \* configuration_profiles: "absent", "broken" (a payload that is no object), or a payload
  away,     \* profiles of another platform than the devices'
  member,   \* principal_group_devices
  group,    \* principal_groups
  assigned, \* profile_assignments: <<profile, device or group>> to assignment_state
  calc,     \* computeMergedEffectivePolicy in progress
  settled,  \* history: devices whose flags were last written from what the tables say now
  polEdits

polVars == <<prof, away, member, group, assigned, calc, settled, polEdits>>

\* Payloads by their names: a nested setting either way, and a number in the place of its parent
Payloads == {"allow", "forbid", "number"}
payload(n) == IF n = "number" THEN [p \in {<<"security">>} |-> Num(1)]
              ELSE [p \in {<<"security", "camera_disabled">>} |-> Bool(IF n = "forbid" THEN 1 ELSE 0)]
NoCalc == [pc |-> "idle", dev |-> "", conf |-> {}, seen |-> FALSE]

\* Profiles, and groups with all devices in them, are there before the first assignment.
PolInit ==
  /\ prof = [p \in Profile |-> "allow"] /\ away = {} /\ group = Group /\ member = Group \X Device /\ assigned = <<>>
  /\ calc = [r \in Reader |-> NoCalc] /\ settled = {} /\ polEdits = 0

-----------------------------------------------------------------------------
(* Operators: each request is one statement, or statements of one row each    *)

\* What was computed or is being computed is no longer of the present tables.
edited ==
  /\ polEdits < MaxPolEdits /\ polEdits' = polEdits + 1
  /\ settled' = {} /\ calc' = [r \in Reader |-> [calc[r] EXCEPT !.seen = FALSE]]

without(keys) == [k \in DOMAIN assigned \ keys |-> assigned[k]]

\* handleCreateProfile takes any JSON text as the payload, none for the empty object.
CreateProfile(p) ==
  /\ prof[p] = "absent" /\ edited
  /\ \E b \in Payloads \cup {"broken"} : prof' = [prof EXCEPT ![p] = b]
  /\ away' \in {away, away \cup {p}} /\ UNCHANGED <<member, group, assigned>>

\* handlePatchProfile updates each column it is given in a statement of its own: the platform,
\* then the payload, which may again be any JSON text.  A computation may come between them.
PatchProfile(p) ==
  /\ prof[p] # "absent" /\ edited
  /\ \/ /\ away' = (IF p \in away THEN away \ {p} ELSE away \cup {p})
        /\ UNCHANGED prof
     \/ /\ \E b \in (Payloads \cup {"broken"}) \ {prof[p]} : prof' = [prof EXCEPT ![p] = b]
        /\ UNCHANGED away
  /\ UNCHANGED <<member, group, assigned>>

\* handleDeleteProfile; profile_assignments are ON DELETE CASCADE.
DeleteProfile(p) ==
  /\ prof[p] # "absent" /\ edited
  /\ prof' = [prof EXCEPT ![p] = "absent"] /\ away' = away \ {p}
  /\ assigned' = without({k \in DOMAIN assigned : k[1] = p})
  /\ UNCHANGED <<member, group>>

\* principalGroupsHandler.handleCreate
CreateGroup(g) ==
  /\ g \notin group /\ edited
  /\ group' = group \cup {g} /\ UNCHANGED <<prof, away, member, assigned>>

\* handleDelete cascades to the members and to the assignments.
DeleteGroup(g) ==
  /\ g \in group /\ edited
  /\ group' = group \ {g} /\ member' = {m \in member : m[1] # g}
  /\ assigned' = without({k \in DOMAIN assigned : k[2] = g}) /\ UNCHANGED <<prof, away>>

\* handleAddDevices inserts one membership after the other.
AddMember(g, d) ==
  /\ g \in group /\ <<g, d>> \notin member /\ edited
  /\ member' = member \cup {<<g, d>>} /\ UNCHANGED <<prof, away, group, assigned>>

\* handleRemoveDevice
RemoveMember(m) ==
  /\ edited /\ member' = member \ {m} /\ UNCHANGED <<prof, away, group, assigned>>

\* handleAssignProfile: ON CONFLICT DO NOTHING keeps what there is.
AssignProfile(p, t) ==
  /\ prof[p] # "absent" /\ t \in Device \cup group /\ <<p, t>> \notin DOMAIN assigned /\ edited
  /\ assigned' = [k \in DOMAIN assigned \cup {<<p, t>>} |-> IF k = <<p, t>> THEN "ok" ELSE assigned[k]]
  /\ UNCHANGED <<prof, away, member, group>>

\* handleRemoveAssignment
RemoveAssignment(k) ==
  /\ edited /\ assigned' = without({k}) /\ UNCHANGED <<prof, away, member, group>>

-----------------------------------------------------------------------------
(* The effective policy                                                     *)

\* The assignments a device is in the scope of: those of profiles of its platform
scope(d) == {k \in DOMAIN assigned : k[1] \notin away /\ (k[2] = d \/ <<k[2], d>> \in member)}

\* ListAssignedProfilesForAsset: DISTINCT profiles, sorted by a name that is not unique
listed(d) == SetToSeqs({k[1] : k \in scope(d)})

payloads(ps) == [i \in DOMAIN ps |-> payload(prof[ps[i]])]

\* The profiles MergeAssignedPayloads finds in conflict
conflicting(ps) == {ps[i] : i \in MergeAssignedPayloads(payloads(ps)).conflicts}

\* A GET of the dashboard, of the agent or of a telemetry answer: list and merge.  A payload that
\* is no object fails every computation it takes part in.
ReadAssigned(r, d) ==
  /\ calc[r].pc = "idle"
  /\ \E ps \in listed(d) :
       /\ "broken" \notin {prof[ps[i]] : i \in DOMAIN ps}
       /\ calc' = [calc EXCEPT ![r] = [pc |-> "reconcile", dev |-> d, conf |-> conflicting(ps), seen |-> TRUE]]
  /\ UNCHANGED <<prof, away, member, group, assigned, settled, polEdits>>

\* Mutant: the flags of an earlier computation are not reset.
flagsKept(d, conf) ==
  [k \in DOMAIN assigned |-> IF k \in scope(d) /\ k[1] \in conf THEN "conflict" ELSE assigned[k]]

\* ReconcileProfileAssignmentStates: the assignments in the device's scope, reset and flagged
\* in one transaction
flags(d, conf) ==
  [k \in DOMAIN assigned |-> IF k \notin scope(d) THEN assigned[k]
                             ELSE IF k[1] \in conf THEN "conflict" ELSE "ok"]

\* Flags shared with another device through a group are this device's now.
Reconcile(r) ==
  /\ calc[r].pc = "reconcile"
  /\ LET d == calc[r].dev
         shared == {e \in Device \ {d} : \E k \in scope(d) \cap scope(e) : assigned[k] # assigned'[k]} IN
     /\ assigned' = flags(d, calc[r].conf)
     /\ settled' = (settled \ (shared \cup {d})) \cup (IF calc[r].seen THEN {d} ELSE {})
  /\ calc' = [calc EXCEPT ![r] = NoCalc] /\ UNCHANGED <<prof, away, member, group, polEdits>>

\* A failing statement, or the end of the request, in between
GiveUpCalc(r) ==
  /\ calc[r].pc = "reconcile"
  /\ calc' = [calc EXCEPT ![r] = NoCalc] /\ UNCHANGED <<prof, away, member, group, assigned, settled, polEdits>>

PolNext ==
  \/ \E p \in Profile : \/ CreateProfile(p) \/ PatchProfile(p) \/ DeleteProfile(p)
                        \/ \E t \in Device \cup Group : AssignProfile(p, t)
  \/ \E g \in Group : CreateGroup(g) \/ DeleteGroup(g) \/ \E d \in Device : AddMember(g, d)
  \/ \E m \in member : RemoveMember(m)
  \/ \E k \in DOMAIN assigned : RemoveAssignment(k)
  \/ \E r \in Reader : (\E d \in Device : ReadAssigned(r, d)) \/ Reconcile(r) \/ GiveUpCalc(r)

-----------------------------------------------------------------------------

PolTypeOK ==
  /\ \A p \in Profile : prof[p] \in Payloads \cup {"absent", "broken"}
  /\ away \subseteq {p \in Profile : prof[p] # "absent"}
  /\ group \subseteq Group /\ member \subseteq group \X Device
  /\ \A k \in DOMAIN assigned : /\ k \in Profile \X (Device \cup group) /\ prof[k[1]] # "absent"
                                /\ assigned[k] \in {"ok", "conflict"}

\* "resets scoped assignments to ok and marks conflicts for participating profiles": once a
\* computation on the present tables has been the last to write a device's flags, they tell
\* its conflicts, whatever computations and edits were under way before.
FlagsTellConflicts ==
  \A d \in settled : \A ps \in listed(d) : \A k \in scope(d) :
    (assigned[k] = "conflict") = (k[1] \in conflicting(ps))

\* What profiles and assignments keep, together.
PolicyInv == PolTypeOK /\ FlagsTellConflicts
=============================================================================
