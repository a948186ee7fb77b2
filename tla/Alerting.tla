------------------------------ MODULE Alerting ------------------------------
(***************************************************************************)
(* The alert engine, the incidents it opens and resolves, and the outbound     *)
(* notification queue.  evaluate runs once per tick and works statement by     *)
(* statement; telemetry resolves offline alerts in between; incidents are       *)
(* opened and resolved by goroutines of their own, under the contexts the code *)
(* gives them.  A fingerprint stands for its active_alerts row and for the      *)
(* incident keyed by it.                                                      *)
(***************************************************************************)
EXTENDS Naturals, Sequences, FiniteSets

CONSTANTS
  Builtin, RuleOffline, RuleMetric, \* fingerprints of the three alert kinds
  Critical,                         \* fingerprints of severity critical
  QueueCap,                         \* capacity of the notification channel
  MaxEvents                         \* bound: outages, recoveries, faults, operator calls, restarts

FP == Builtin \cup RuleOffline \cup RuleMetric
Rules == RuleOffline \cup RuleMetric
Offline == Builtin \cup RuleOffline

ASSUME AlertAssumption ==
  /\ Builtin \cap Rules = {} /\ RuleOffline \cap RuleMetric = {}
  /\ Builtin \subseteq Critical /\ Critical \subseteq FP
  /\ QueueCap \in Nat \ {0} /\ MaxEvents \in Nat

VARIABLES
  offline,  \* the device's last_seen is older than the grace period and thresholds
  breach,   \* metric rules whose averaged samples breach the threshold
  enabled,  \* rules that exist and are enabled
  alert,    \* active_alerts: "none", "open", "resolved"
  noted,    \* last_notified_at is younger than notifyDedupCooldown
  incident, \* "none", "new", "in_progress", "on_hold", "resolved", "closed"
  eng,      \* evaluate: "idle", "builtin", "rules", "metric", "return"
  todo,     \* rules the pass still has to look at
  pend,     \* fingerprints found firing, not yet upserted
  desired,  \* fingerprints the pass keeps open
  closed,   \* fingerprints the rule pass has closed, not yet handed to the hook
  opens,    \* OnCriticalDeviceFingerprint goroutines
  recov,    \* OnAlertFingerprintsResolved goroutines: remaining fingerprints, origin, context alive
  beat,     \* ProcessTelemetry: "idle", "seen" (last_seen stored), "resolved" (hook started)
  queue,    \* Dispatcher.ch
  told,     \* fingerprints whose current opening reached the channels
  events    \* events so far

engVars == <<eng, todo, pend, desired, closed>>
condVars == <<offline, breach, enabled>>
alertVars == <<condVars, alert, noted, incident, engVars, opens, recov, beat, queue, told, events>>

AlertInit ==
  /\ offline = FALSE /\ breach = {} /\ enabled = Rules
  /\ alert = [f \in FP |-> "none"] /\ noted = {} /\ incident = [f \in FP |-> "none"]
  /\ eng = "idle" /\ todo = {} /\ pend = {} /\ desired = {} /\ closed = {}
  /\ opens = {} /\ recov = {} /\ beat = "idle"
  /\ queue = << >> /\ told = {} /\ events = 0

event == events < MaxEvents /\ events' = events + 1

Open == {f \in FP : alert[f] = "open"}

\* What the statements of one tick find; a rule is loaded once per pass.
Condition(f) == IF f \in Offline THEN offline ELSE f \in breach
Firing(f) == Condition(f) /\ f \in Builtin \cup enabled

-----------------------------------------------------------------------------
(* evaluate                                                                 *)

\* ScanAssetsOfflineBefore
Tick ==
  /\ eng = "idle"
  /\ eng' = "builtin"
  /\ desired' = {f \in Builtin : Condition(f)} /\ pend' = desired'
  /\ UNCHANGED <<condVars, alert, noted, incident, todo, closed, opens, recov, beat, queue, told, events>>

\* handleOfflineRule, handleTelemetryRule for one rule: a lookup that fails, or finds no
\* samples, leaves the fingerprint out of the set that stays open.
CheckRule(f) ==
  /\ eng = "rules" /\ f \in todo /\ pend = {}
  /\ todo' = todo \ {f}
  /\ \/ Condition(f) /\ pend' = {f} /\ desired' = desired \cup {f} /\ UNCHANGED events
     \/ ~Condition(f) /\ UNCHANGED <<pend, desired, events>>
     \/ Condition(f) /\ event /\ UNCHANGED <<pend, desired>>
  /\ UNCHANGED <<condVars, alert, noted, incident, eng, closed, opens, recov, beat, queue, told>>

\* Mutant: only an opening is announced, a running alert never again.
ShouldNotifyOnce(f) == alert[f] # "open"

\* decideNotifyOnOpen: new, reopened, or past the cooldown.
ShouldNotify(f) == alert[f] # "open" \/ f \notin noted

\* Notify drops the event when the channel is full.
Notify(f) == queue' = IF Len(queue) < QueueCap THEN Append(queue, f) ELSE queue

\* UpsertUnresolvedAlert, Notify, maybeOpenIncidentForCritical.
Upsert(f) ==
  /\ f \in pend
  /\ pend' = pend \ {f}
  /\ alert' = [alert EXCEPT ![f] = "open"]
  /\ told' = IF alert[f] = "open" THEN told ELSE told \ {f}
  /\ noted' = noted \cup {f}
  /\ IF ShouldNotify(f) THEN Notify(f) ELSE UNCHANGED queue
  /\ opens' = IF f \in Critical THEN opens \cup {f} ELSE opens
  /\ UNCHANGED <<condVars, incident, eng, todo, desired, closed, recov, beat, events>>

\* Mutant: the incident hook runs before the error is looked at.
RuleUpsertFailsOpens(f) ==
  /\ eng = "rules" /\ f \in pend /\ event
  /\ pend' = {} /\ opens' = opens \cup ({f} \cap Critical)
  /\ UNCHANGED <<condVars, alert, noted, incident, eng, todo, desired, closed, recov, beat, queue, told>>

\* The upsert fails for one rule: the loop goes on, the fingerprint stays desired.
RuleUpsertFails(f) ==
  /\ eng = "rules" /\ f \in pend /\ event
  /\ pend' = {}
  /\ UNCHANGED <<condVars, alert, noted, incident, eng, todo, desired, closed, opens, recov, beat, queue, told>>

\* Any other statement fails: the pass returns its error and closes nothing more; what the
\* rule pass closed before is not handed to the hook.
PassFails ==
  /\ event /\ pend' = {} /\ desired' = {} /\ closed' = {}
  /\ \/ eng = "builtin" /\ eng' = "rules" /\ todo' = enabled
     \/ eng \in {"rules", "metric"} /\ eng' = "return" /\ todo' = {}
  /\ UNCHANGED <<condVars, alert, noted, incident, opens, recov, beat, queue, told>>

\* Mutant: nothing is closed when the pass found nothing firing.
CloseExceptGuarded(kind) == IF desired = {} THEN {} ELSE (kind \cap Open) \ desired

\* CloseAlertsKindsExceptReturning
CloseExcept(kind) == (kind \cap Open) \ desired

resolve(fps) == alert' = [f \in FP |-> IF f \in fps THEN "resolved" ELSE alert[f]]

job(fps, via) == [fps |-> fps, via |-> via, live |-> TRUE]
submit(fps, via) == recov' = IF fps = {} THEN recov ELSE recov \cup {job(fps, via)}

CloseBuiltin ==
  /\ eng = "builtin" /\ pend = {}
  /\ resolve(CloseExcept(Builtin)) /\ submit(CloseExcept(Builtin), "tick")
  /\ eng' = "rules" /\ todo' = enabled /\ desired' = {}
  /\ UNCHANGED <<condVars, noted, incident, pend, closed, opens, beat, queue, told, events>>

CloseRuleOffline ==
  /\ eng = "rules" /\ todo = {} /\ pend = {}
  /\ resolve(CloseExcept(RuleOffline)) /\ closed' = CloseExcept(RuleOffline)
  /\ eng' = "metric"
  /\ UNCHANGED <<condVars, noted, incident, todo, pend, desired, opens, recov, beat, queue, told, events>>

CloseRuleMetric ==
  /\ eng = "metric"
  /\ resolve(CloseExcept(RuleMetric)) /\ submit(closed \cup CloseExcept(RuleMetric), "tick")
  /\ closed' = {} /\ desired' = {} /\ eng' = "return"
  /\ UNCHANGED <<condVars, noted, incident, todo, pend, opens, beat, queue, told, events>>

\* The contexts of recovery goroutines started under a call end when it returns.
endContexts(via) ==
  recov' = {IF j.via = via THEN [j EXCEPT !.live = FALSE] ELSE j : j \in recov}

\* evaluate returns: its deferred cancel ends the tick's context.
Return ==
  /\ eng = "return"
  /\ eng' = "idle" /\ endContexts("tick")
  /\ UNCHANGED <<condVars, alert, noted, incident, todo, pend, desired, closed, opens, beat, queue, told, events>>

-----------------------------------------------------------------------------
(* Incident goroutines                                                      *)

\* Mutant: an incident somebody closed is left alone.
UpsertIncidentState(s) ==
  IF s = "none" THEN "new" ELSE IF s = "resolved" THEN "in_progress" ELSE s

\* UpsertIncidentForCriticalFingerprint
UpsertedState(s) ==
  CASE s = "none" -> "new" [] s \in {"resolved", "closed"} -> "in_progress" [] OTHER -> s

\* It runs under a background context; a fault loses it.
OpenIncident(f) ==
  /\ f \in opens
  /\ opens' = opens \ {f}
  /\ \/ incident' = [incident EXCEPT ![f] = UpsertedState(@)] /\ UNCHANGED events
     \/ event /\ UNCHANGED incident
  /\ UNCHANGED <<condVars, alert, noted, engVars, recov, beat, queue, told>>

\* AutoResolveIncidentsForAlertFingerprints: one UPDATE per fingerprint; a fault or a
\* finished context ends the loop.
AutoResolve(j) ==
  /\ j \in recov
  /\ \/ /\ j.live
        /\ \E f \in j.fps :
             /\ incident' = [incident EXCEPT ![f] =
                               IF @ \in {"new", "in_progress", "on_hold"} THEN "resolved" ELSE @]
             /\ UNCHANGED events
             /\ recov' = (recov \ {j}) \cup (IF j.fps = {f} THEN {} ELSE {[j EXCEPT !.fps = @ \ {f}]})
     \/ j.live /\ event /\ recov' = recov \ {j} /\ UNCHANGED incident
     \/ ~j.live /\ recov' = recov \ {j} /\ UNCHANGED <<incident, events>>
  /\ UNCHANGED <<condVars, alert, noted, engVars, opens, beat, queue, told>>

-----------------------------------------------------------------------------
(* Telemetry, operators, the environment                                    *)

\* ProcessTelemetry stores last_seen; what follows may fail before OnHeartbeat.
Heartbeat ==
  /\ beat = "idle" /\ event
  /\ offline' = FALSE /\ beat' = "seen"
  /\ UNCHANGED <<breach, enabled, alert, noted, incident, engVars, opens, recov, queue, told>>

OnHeartbeat ==
  /\ beat = "seen"
  /\ \/ resolve(Offline \cap Open) /\ submit(Offline \cap Open, "beat") /\ beat' = "resolved" /\ UNCHANGED events
     \/ event /\ beat' = "idle" /\ UNCHANGED <<alert, recov>>
  /\ UNCHANGED <<condVars, noted, incident, engVars, opens, queue, told>>

TelemetryReturns ==
  /\ beat = "resolved"
  /\ beat' = "idle" /\ endContexts("beat")
  /\ UNCHANGED <<condVars, alert, noted, incident, engVars, opens, queue, told, events>>

\* Silence longer than the grace period; samples that breach a rule or no longer do.
Conditions ==
  /\ event
  /\ \/ ~offline /\ beat = "idle" /\ offline' = TRUE /\ UNCHANGED breach
     \/ \E f \in RuleMetric : breach' = (breach \cup {f}) \ (breach \cap {f}) /\ UNCHANGED offline
  /\ UNCHANGED <<enabled, alert, noted, incident, engVars, opens, recov, beat, queue, told>>

\* handlePatchRule, handleDeleteRule, handleCreateRule
SwitchRule(f) ==
  /\ f \in Rules /\ event
  /\ enabled' = (enabled \cup {f}) \ (enabled \cap {f})
  /\ UNCHANGED <<offline, breach, alert, noted, incident, engVars, opens, recov, beat, queue, told>>

\* handleResolveActiveAlert: no hook is called.
ResolveActiveAlertByID(f) ==
  /\ alert[f] = "open" /\ event
  /\ resolve({f})
  /\ UNCHANGED <<condVars, noted, incident, engVars, opens, recov, beat, queue, told>>

\* incidents PATCH and DELETE: any state may be set.
PatchIncident(f) ==
  /\ incident[f] # "none" /\ event
  /\ \E s \in {"new", "in_progress", "on_hold", "resolved", "closed", "none"} :
       s # incident[f] /\ incident' = [incident EXCEPT ![f] = s]
  /\ UNCHANGED <<condVars, alert, noted, engVars, opens, recov, beat, queue, told>>

\* time.Since(lastNotify) passes the cooldown.
CooldownOver(f) ==
  /\ f \in noted /\ alert[f] = "open"
  /\ noted' = noted \ {f}
  /\ UNCHANGED <<condVars, alert, incident, engVars, opens, recov, beat, queue, told, events>>

\* Dispatcher.loop, deliverOnce: an event whose channels cannot be listed or reached is lost.
DeliverNotice ==
  /\ queue # << >>
  /\ queue' = Tail(queue)
  /\ \/ told' = told \cup ({Head(queue)} \cap Open) /\ UNCHANGED events
     \/ event /\ UNCHANGED told
  /\ UNCHANGED <<condVars, alert, noted, incident, engVars, opens, recov, beat>>

\* The server restarts: goroutines and the channel are gone, the tables stay.
Restart ==
  /\ event
  /\ eng' = "idle" /\ todo' = {} /\ pend' = {} /\ desired' = {} /\ closed' = {}
  /\ opens' = {} /\ recov' = {} /\ beat' = "idle" /\ queue' = << >>
  /\ UNCHANGED <<condVars, alert, noted, incident, told>>

AlertNext ==
  \/ Tick \/ CloseBuiltin \/ CloseRuleOffline \/ CloseRuleMetric \/ Return
  \/ \E f \in FP : \/ CheckRule(f) \/ Upsert(f) \/ RuleUpsertFails(f) \/ OpenIncident(f)
                   \/ SwitchRule(f) \/ ResolveActiveAlertByID(f) \/ PatchIncident(f) \/ CooldownOver(f)
  \/ \E j \in recov : AutoResolve(j)
  \/ PassFails \/ Heartbeat \/ OnHeartbeat \/ TelemetryReturns \/ Conditions \/ DeliverNotice \/ Restart

\* What the engine's goroutine does
Evaluates == \/ Tick \/ CloseBuiltin \/ CloseRuleOffline \/ CloseRuleMetric \/ Return
             \/ \E f \in FP : CheckRule(f) \/ Upsert(f)

-----------------------------------------------------------------------------

IncidentState == {"none", "new", "in_progress", "on_hold", "resolved", "closed"}
Active == {"new", "in_progress", "on_hold"}

AlertTypeOK ==
  /\ offline \in BOOLEAN /\ breach \subseteq RuleMetric /\ enabled \subseteq Rules
  /\ alert \in [FP -> {"none", "open", "resolved"}] /\ incident \in [FP -> IncidentState]
  /\ noted \subseteq FP /\ told \subseteq FP /\ opens \subseteq Critical
  /\ eng \in {"idle", "builtin", "rules", "metric", "return"}
  /\ todo \subseteq Rules /\ pend \subseteq FP /\ desired \subseteq FP /\ closed \subseteq RuleOffline
  /\ recov \subseteq [fps : (SUBSET FP) \ {{}}, via : {"tick", "beat"}, live : BOOLEAN]
  /\ beat \in {"idle", "seen", "resolved"}
  /\ queue \in Seq(FP) /\ Len(queue) <= QueueCap
  /\ events \in 0 .. MaxEvents

\* Incidents exist only for fingerprints whose alert was raised, and only for critical ones;
\* a recovery goroutine is never about an alert that was not raised.
IncidentHasAlert ==
  /\ \A f \in FP : incident[f] # "none" \/ f \in opens => alert[f] # "none" /\ f \in Critical
  /\ \A j \in recov : \A f \in j.fps : alert[f] # "none"

\* Whatever tick, heartbeat, fault, operator and restart did to the row, an alert whose
\* condition is gone for good is closed for good.
RecoveredAlertCloses ==
  \A f \in FP : <>[](~Firing(f)) => <>[](alert[f] # "open")

\* A critical condition that persists keeps an active incident: resolved, closed and deleted
\* ones come back with the next tick.
CriticalKeepsIncident ==
  \A f \in Critical : <>[]Firing(f) => <>[](incident[f] \in Active)

\* An alert that stays open is announced, although the row was stamped when the channel was
\* full, the delivery failed or the server stopped before it: once the channel has room when the
\* engine comes to the alert, a later tick repeats the event.
StillOpenIsAnnounced ==
  \A f \in FP : <>[](alert[f] = "open") /\ <>[](f \in pend => Len(queue) < QueueCap) => <>[](f \in told)

\* What every state of engine, table and goroutines satisfies: types, and incidents, opening and
\* recovery goroutines only for alerts that were raised.
AlertInv == AlertTypeOK /\ IncidentHasAlert
=============================================================================
