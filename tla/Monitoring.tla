----------------------------- MODULE Monitoring -----------------------------
(***************************************************************************)
(* Monitoring (lib/monitoring: runner, repository, alerts).  One request      *)
(* collects a snapshot, of the capacity and then of the health of the          *)
(* database; another evaluates the latest of each and reconciles the open       *)
(* alerts with what they show.  A timer sends the first once a day and the     *)
(* second every five minutes, and an operator sends some with an idempotency   *)
(* key, which he repeats when he gets no answer.  Nothing locks requests out   *)
(* from each other.                                                         *)
(*                                                                         *)
(* A snapshot carries the time at which its request began and is inserted      *)
(* when its queries have been answered, so that a later one can be there       *)
(* first.  Only the order of times matters: they are renumbered.               *)
(***************************************************************************)
EXTENDS Integers, FiniteSets

CONSTANTS
    Level,          \* forecastStatus, "healthy" or what calls for an alert
    Caller,         \* requests that can be in progress at once
    Operator,       \* those that send an idempotency key
    IdempotencyKey,
    NoKey,          \* the timers send none
    NotKnown        \* what a query that fails gives

AlertKey == {"free space", "failed archives"}

ASSUME MonitoringAssumption ==
    /\ IsFiniteSet(Caller)
    /\ "healthy" \in Level /\ NoKey \notin IdempotencyKey

VARIABLES
    space,          \* how much room the database really has
    failedArchives, \* whether archiving of any snapshot has failed
    capacity,       \* latest row of database_capacity_snapshots
    health,         \* latest row of operational_health_snapshots
    alert,          \* severity of the open alert of each key, or "none"
    keyed,          \* status of the monitoring run of each key
    counted,        \* how often the request of a key was reconciled
    request

monitoringVars == <<space, failedArchives, capacity, health, alert, keyed, counted, request>>

NoRequest(at) == [at |-> at, key |-> NoKey, now |-> 0,
                  level |-> "healthy", failed |-> NotKnown]

MonitoringInit ==
    /\ space = "healthy" /\ failedArchives = FALSE
    /\ capacity = [at |-> 0, level |-> "healthy"]
    /\ health = [at |-> 0, failed |-> FALSE]
    /\ alert = [k \in AlertKey |-> "none"]
    /\ keyed = [k \in IdempotencyKey |-> "none"]
    /\ counted = [k \in IdempotencyKey |-> 0]
    /\ request = [x \in Caller |-> NoRequest("idle")]

\* evaluateAlerts: an alert whose count is unknown does not fire.
DesiredAlerts(level, failed) ==
    [k \in AlertKey |->
        IF k = "free space" THEN (IF level = "healthy" THEN "none" ELSE level)
                            ELSE IF failed = TRUE THEN "warning" ELSE "none"]

-----------------------------------------------------------------------------
(* A request begins *)

Free(x) == request[x].at = "idle"

\* Times of snapshots in progress, and the rank of a time among them.
Stamps == {request[x].now : x \in Caller} \ {0}

Rank(t) == Cardinality({s \in Stamps : s <= t})

\* MUTANT: a run that failed is done again.
NewUnlessDone(k) == k # NoKey => keyed[k] \in {"none", "failed"}

\* The UNIQUE idempotency key: a second run is not started, whatever became of
\* the first.
NewRun(k) == k # NoKey => keyed[k] = "none"

\* startMonitoringRun; a request whose key is known is answered at once.
StartMonitoringRun(x, k, new) ==
    /\ Free(x) /\ NewRun(k)
    /\ keyed' = [j \in IdempotencyKey |-> IF j = k THEN "running" ELSE keyed[j]]
    /\ request' = [y \in Caller |->
            IF y = x THEN [new EXCEPT !.key = k] ELSE [request[y] EXCEPT !.now = Rank(@)]]
    /\ capacity' = [capacity EXCEPT !.at = Rank(@)]
    /\ health' = [health EXCEPT !.at = Rank(@)]
    /\ UNCHANGED <<space, failedArchives, alert, counted>>

RunSnapshot(x, k) ==
    StartMonitoringRun(x, k, [NoRequest("capacity") EXCEPT !.now = Cardinality(Stamps) + 1])
\* A dry run, which writes no alerts, is left out.
RunEvaluate(x, k) == StartMonitoringRun(x, k, NoRequest("latest capacity"))

-----------------------------------------------------------------------------
(* runSnapshot *)

CollectCapacity(x) ==
    /\ request[x].at = "capacity"
    /\ request' = [request EXCEPT ![x].at = "insert capacity", ![x].level = space]
    /\ UNCHANGED <<space, failedArchives, capacity, health, alert, keyed, counted>>

\* ORDER BY captured_at DESC LIMIT 1: an earlier row is never the latest again.
InsertCapacity(x) ==
    /\ request[x].at = "insert capacity"
    /\ capacity' = IF request[x].now > capacity.at
                   THEN [at |-> request[x].now, level |-> request[x].level] ELSE capacity
    /\ request' = [request EXCEPT ![x].at = "health", ![x].level = "healthy"]
    /\ UNCHANGED <<space, failedArchives, health, alert, keyed, counted>>

\* tryNum: a query that fails is noted, and its number is unknown.
CollectHealth(x, known) ==
    /\ request[x].at = "health"
    /\ request' = [request EXCEPT ![x].at = "insert health",
                                  ![x].failed = IF known THEN failedArchives ELSE NotKnown]
    /\ UNCHANGED <<space, failedArchives, capacity, health, alert, keyed, counted>>

InsertHealth(x) ==
    /\ request[x].at = "insert health"
    /\ health' = IF request[x].now > health.at
                 THEN [at |-> request[x].now, failed |-> request[x].failed] ELSE health
    /\ request' = [request EXCEPT ![x] = [NoRequest("complete") EXCEPT !.key = request[x].key]]
    /\ UNCHANGED <<space, failedArchives, capacity, alert, keyed, counted>>

-----------------------------------------------------------------------------
(* runEvaluate *)

GetLatestCapacity(x) ==
    /\ request[x].at = "latest capacity"
    /\ request' = [request EXCEPT ![x].at = "latest health", ![x].level = capacity.level]
    /\ UNCHANGED <<space, failedArchives, capacity, health, alert, keyed, counted>>

GetLatestHealth(x) ==
    /\ request[x].at = "latest health"
    /\ request' = [request EXCEPT ![x].at = "reconcile", ![x].failed = health.failed]
    /\ UNCHANGED <<space, failedArchives, capacity, health, alert, keyed, counted>>

\* MUTANT: alerts that are no longer seen stay open.
KeepOpen(open, desired) ==
    [k \in AlertKey |-> IF desired[k] = "none" THEN open[k] ELSE desired[k]]

\* Update or open what is desired, resolve the rest.
Reconciled(open, desired) == [k \in AlertKey |-> desired[k]]

\* reconcileAlerts is one transaction that locks the open alerts.
ReconcileAlerts(x) ==
    /\ request[x].at = "reconcile"
    /\ alert' = Reconciled(alert, DesiredAlerts(request[x].level, request[x].failed))
    /\ counted' = [k \in IdempotencyKey |-> IF k = request[x].key THEN counted[k] + 1 ELSE counted[k]]
    /\ request' = [request EXCEPT ![x] = [NoRequest("complete") EXCEPT !.key = request[x].key]]
    /\ UNCHANGED <<space, failedArchives, capacity, health, keyed>>

-----------------------------------------------------------------------------
EndOf(x, status) ==
    /\ keyed' = [k \in IdempotencyKey |-> IF k = request[x].key THEN status ELSE keyed[k]]
    /\ request' = [request EXCEPT ![x] = NoRequest("idle")]
    /\ UNCHANGED <<space, failedArchives, capacity, health, alert, counted>>

CompleteMonitoringRun(x) == request[x].at = "complete" /\ EndOf(x, "succeeded")

\* Once the work is done, a failure shows only in the run of a key.
CanFail(x) == ~Free(x) /\ (request[x].at = "complete" => request[x].key # NoKey)

\* A query or the transaction throws, and the run is marked as failed.
RequestThrows(x) == CanFail(x) /\ EndOf(x, "failed")

CallerDies(x) ==
    /\ CanFail(x)
    /\ request' = [request EXCEPT ![x] = NoRequest("idle")]
    /\ UNCHANGED <<space, failedArchives, capacity, health, alert, keyed, counted>>

SpaceChanges(l) ==
    /\ l # space
    /\ space' = l
    /\ UNCHANGED <<failedArchives, capacity, health, alert, keyed, counted, request>>

\* An archive fails for good, or the last failed one has been repaired.
ArchivesChange ==
    /\ failedArchives' = ~failedArchives
    /\ UNCHANGED <<space, capacity, health, alert, keyed, counted, request>>

MonitoringStep(x) ==
    \/ CollectCapacity(x) \/ InsertCapacity(x) \/ CollectHealth(x, TRUE) \/ InsertHealth(x)
    \/ GetLatestCapacity(x) \/ GetLatestHealth(x) \/ ReconcileAlerts(x)
    \/ CompleteMonitoringRun(x)

MonitoringFault(x) == RequestThrows(x) \/ CallerDies(x) \/ CollectHealth(x, FALSE)

World == ArchivesChange \/ \E l \in Level : SpaceChanges(l)

MonitoringNext ==
    \/ \E x \in Caller :
        \/ MonitoringStep(x) \/ MonitoringFault(x)
        \/ RunSnapshot(x, NoKey) \/ RunEvaluate(x, NoKey)
        \/ \E k \in IdempotencyKey : x \in Operator /\ (RunSnapshot(x, k) \/ RunEvaluate(x, k))
    \/ World

\* The timers go on, and queries and processes do not fail for ever.
MonitoringFairness ==
    /\ \A x \in Caller : WF_monitoringVars(MonitoringStep(x))
    /\ []<><<\E x \in Caller : RunSnapshot(x, NoKey)>>_monitoringVars
    /\ []<><<\E x \in Caller : RunEvaluate(x, NoKey)>>_monitoringVars
    /\ <>[][~\E x \in Caller : MonitoringFault(x)]_monitoringVars

MonitoringSpec == MonitoringInit /\ [][MonitoringNext]_monitoringVars /\ MonitoringFairness

-----------------------------------------------------------------------------
MonitoringTypeOK ==
    /\ space \in Level /\ failedArchives \in BOOLEAN
    /\ capacity.level \in Level
    /\ health.failed \in BOOLEAN \cup {NotKnown}
    /\ alert \in [AlertKey -> {"none", "warning"} \cup (Level \ {"healthy"})]
    /\ keyed \in [IdempotencyKey -> {"none", "running", "succeeded", "failed"}]
    /\ \A x, y \in Caller : request[x].now = request[y].now => x = y \/ request[x].now = 0

\* "A retried invocation is a safe no-op" (the routes): the request of a key is
\* counted in the alerts at most once, though it was repeated after a failure.
CountedOnce == \A k \in IdempotencyKey : counted[k] <= 1

\* What monitoring has recorded is what it was asked to.
MonitoringInv == MonitoringTypeOK /\ CountedOnce

\* When what is wrong no longer changes, the open alerts show it, no more and no
\* less, and go on doing so: an evaluation that was overtaken, or a snapshot that
\* arrives late, is put right, and none does harm for ever.
AlertsSettle ==
    <>[][~World]_monitoringVars
        => <>[](alert = DesiredAlerts(space, failedArchives))
=============================================================================
