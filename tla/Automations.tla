---------------------------- MODULE Automations -----------------------------
(***************************************************************************)
(* The scheduler: automations are loaded every minute into a cron that         *)
(* replaces the one before, which is stopped and waited for at most 30         *)
(* seconds.  A job reads its automation anew, resolves the targets and works   *)
(* through them; deploy_package issues deployments.  Schedules are due at      *)
(* every instant of the clock.                                                *)
(***************************************************************************)
EXTENDS Deployments

CONSTANTS
  Automation, \* automations
  MaxClock,  \* bound: instants
  MaxStops   \* bound: ends of the server process

VARIABLES
  auto,    \* automations rows; st is "none", "on", "off" (is_active)
  cron,    \* entries of the crons that run: automation and next activation
  sched,   \* reload: "idle", "loaded", "stopped", with the rows it has read
  clock,
  stale,   \* history: jobs whose automation has been off since before they fired
  stops

cronVars == <<auto, cron, sched, clock, stale, stops>>
autoVars == <<depVars, cronVars>>

NoAuto == [st |-> "none", act |-> Unset, tgt |-> Unset, pkg |-> Unset, op |-> Unset]

AutoInit ==
  /\ DepInit
  /\ auto = [x \in Automation |-> NoAuto] /\ cron = {} /\ sched = [pc |-> "idle", rows |-> {}]
  /\ clock = 0 /\ stale = {} /\ stops = 0

-----------------------------------------------------------------------------
(* automations.go                                                           *)

\* handleCreate wants a target and, for deploy_package, a package id; the payload's operation is
\* not looked at.
CreateAutomation(x) ==
  /\ auto[x].st = "none"
  /\ \E st \in {"on", "off"}, t \in Asset \cup {"os"} :
     \/ \E p \in Pkg, op \in {"install", "missing"} :
          auto' = [auto EXCEPT ![x] = [st |-> st, act |-> "deploy", tgt |-> t, pkg |-> p, op |-> op]]
     \/ auto' = [auto EXCEPT ![x] = [NoAuto EXCEPT !.st = st, !.act = "shutdown", !.tgt = t]]
  /\ UNCHANGED <<depVars, cron, sched, clock, stale, stops>>

\* handlePatch: is_active
SwitchAutomation(x) ==
  /\ auto[x].st # "none"
  /\ \E st \in {"on", "off"} :
       /\ auto' = [auto EXCEPT ![x].st = st]
       /\ stale' = IF st = "on" THEN {i \in stale : iss[i].pc # "idle" /\ iss[i].origin[1] # x} ELSE stale
  /\ UNCHANGED <<depVars, cron, sched, clock, stops>>

-----------------------------------------------------------------------------
(* reload                                                                   *)

ActiveAutomations == {x \in Automation : auto[x].st = "on"}

\* loadActive; when it fails the cron stays as it is.
LoadActive ==
  /\ sched.pc = "idle"
  /\ sched' = [sched EXCEPT !.pc = "loaded", !.rows = ActiveAutomations]
  /\ UNCHANGED <<depVars, auto, cron, clock, stale, stops>>

\* Mutant: the old cron keeps its entries.
StopCronNever ==
  /\ sched.pc = "loaded"
  /\ sched' = [sched EXCEPT !.pc = "stopped"]
  /\ UNCHANGED <<depVars, auto, cron, clock, stale, stops>>

\* s.cr.Stop(): no further activation, running jobs go on.
StopCron ==
  /\ sched.pc = "loaded"
  /\ sched' = [sched EXCEPT !.pc = "stopped"] /\ cron' = {}
  /\ UNCHANGED <<depVars, auto, clock, stale, stops>>

\* The running jobs have ended or 30 seconds are over; the new cron looks for activations
\* after the present instant.
StartCron ==
  /\ sched.pc = "stopped"
  /\ sched' = [pc |-> "idle", rows |-> {}]
  /\ cron' = cron \cup {[auto |-> x, next |-> clock + 1] : x \in sched.rows}
  /\ UNCHANGED <<depVars, auto, clock, stale, stops>>

-----------------------------------------------------------------------------
(* Jobs                                                                     *)

ClockTick ==
  /\ clock < MaxClock
  /\ clock' = clock + 1 /\ UNCHANGED <<depVars, auto, cron, sched, stale, stops>>

\* The cron's loop starts a job for an entry that is due, however late it looks.
Fire(e, i) ==
  /\ e.next <= clock /\ iss[i].pc = "idle"
  /\ cron' = (cron \ {e}) \cup {[e EXCEPT !.next = clock + 1]}
  /\ iss' = [iss EXCEPT ![i] = [Idle EXCEPT !.pc = "fetch", !.origin = <<e.auto, clock>>, !.trig = TRUE]]
  /\ stale' = IF auto[e.auto].st = "off" THEN stale \cup {i} ELSE stale \ {i}
  /\ UNCHANGED <<pkg, cert, sess, dep, auto, sched, clock, stops>>

\* dispatchAutomation reads the row again; a failing read ends the job.
FetchAutomation(i) ==
  /\ iss[i].pc = "fetch"
  /\ \/ auto[iss[i].origin[1]].st = "on" /\ advance(i, "resolve")
     \/ iss' = [iss EXCEPT ![i] = Idle]
  /\ UNCHANGED <<pkg, cert, sess, dep, cronVars>>

targets(x) == {a \in Asset : cert[a] # 0 /\ auto[x].tgt \in {a, "os"}}

\* resolveTargetHumanIDs, and dispatchDeploy's look at the payload, the same for each target:
\* fmt.Sprint of a missing operation is "<nil>", which is refused.
ResolveTargets(i) ==
  /\ iss[i].pc = "resolve"
  /\ LET x == iss[i].origin[1]  ts == targets(x) IN
     IF ts = {} \/ (auto[x].act = "deploy" /\ auto[x].op = "missing")
     THEN iss' = [iss EXCEPT ![i] = Idle]
     ELSE LET a == CHOOSE t \in ts : TRUE
              s == IF auto[x].act = "deploy" THEN "read" ELSE "shutdown"
          IN  iss' = [iss EXCEPT ![i].pc = s, ![i].first = s, ![i].asset = a, ![i].todo = ts \ {a},
                                 ![i].pkg = auto[x].pkg]
  /\ UNCHANGED <<pkg, cert, sess, dep, cronVars>>

\* dispatchDeploy goes the way of handleCreateDeployment, always with a dispatch.
DispatchDeploy(i) == Issue(i) /\ UNCHANGED cronVars

\* dispatchShutdown: a host that shuts down drops its session when it does.
DispatchShutdown(i) ==
  /\ iss[i].pc = "shutdown"
  /\ endTarget(i) /\ UNCHANGED <<pkg, cert, sess, dep, cronVars>>

\* The process ends and the next one starts with no cron.
RestartScheduler ==
  /\ stops < MaxStops /\ stops' = stops + 1
  /\ StopIssuers /\ cron' = {} /\ sched' = [pc |-> "idle", rows |-> {}] /\ stale' = {}
  /\ UNCHANGED <<auto, clock>>

AutoNext ==
  \/ DepNext /\ UNCHANGED cronVars
  \/ \E x \in Automation : CreateAutomation(x) \/ SwitchAutomation(x)
  \/ LoadActive \/ StopCron \/ StartCron \/ ClockTick \/ RestartScheduler
  \/ \E i \in Job : \/ \E e \in cron : Fire(e, i)
                    \/ FetchAutomation(i) \/ ResolveTargets(i) \/ DispatchDeploy(i) \/ DispatchShutdown(i)

-----------------------------------------------------------------------------

\* Reloading never doubles an activation: a device gets at most one deployment of an automation
\* for one instant, and a job whose automation was switched off before it fired issues nothing.
JobsAreExact ==
  /\ \A d, e \in DOMAIN dep :
       d # e /\ dep[d].origin # NoOrigin /\ dep[d].origin = dep[e].origin => dep[d].asset # dep[e].asset
  /\ \A i \in stale : iss[i].pc \in {"idle", "fetch"}

\* The cron follows the table: an automation that stays active is scheduled again and again,
\* one that stays off leaves the cron for good.
ScheduleFollows ==
  \A x \in Automation :
    /\ <>[](auto[x].st = "on") => []<>(\E e \in cron : e.auto = x)
    /\ <>[](auto[x].st = "off") => <>[](\A e \in cron : e.auto # x)
=============================================================================
