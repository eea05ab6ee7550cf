------------------------------ MODULE Workflow ------------------------------
(***************************************************************************)
(* The durable-job protocol of lib/workflow.ts: one advisory lock row per  *)
(* workflow definition, the workflow_runs rows of that definition, and the *)
(* job_cursor step whose completed_at is the run's heartbeat.  A worker    *)
(* process makes invocations; each one reconciles stale runs (without the  *)
(* lock), tries to take the lock, and when it has it executes one slice of *)
(* the newest running run, or starts a run, and releases the lock.         *)
(*                                                                         *)
(* The jobs themselves (Aggregation, Ranking) extend this module and       *)
(* conjoin what their slices do to the job-neutral actions defined here.   *)
(*                                                                         *)
(* Time is kept as durations, not dates: the lock row has the time left    *)
(* before expires_at, a running run the age of its heartbeat, a worker the *)
(* time since it took the lock.  Tick moves all of them together.          *)
(*                                                                         *)
(* A definition whose comment starts with MUTANT is a faulty variant of    *)
(* the one that follows it and is used by nothing: it replaces it to see   *)
(* that a property fails when the code has that fault.                     *)
(***************************************************************************)
EXTENDS Integers, FiniteSets

CONSTANTS
  Worker,     \* worker processes that may run at the same time
  NoOne,      \* the definition has no unreleased lock row
  Dead,       \* locked_by_run_id of an invocation whose process is gone
  MaxRuns,    \* bound: workflow_runs rows created in a behaviour
  TTL,        \* lifetime of a lock row, in ticks
  Stale,      \* heartbeat age after which a run is abandoned, in ticks
  MaxSlice    \* longest time one invocation keeps the lock, in ticks

ASSUME WorkflowAssumption ==
  /\ NoOne \notin Worker
  /\ Dead \notin Worker
  /\ NoOne # Dead
  /\ MaxRuns \in Nat
  /\ TTL \in Nat
  /\ Stale \in Nat
  /\ MaxSlice \in Nat

\* What the TTL comments require of the deployment: one bounded slice ends
\* before its lock row expires.  It is a hypothesis, never an assumption.
SliceFitsTTL == MaxSlice <= TTL

VARIABLES
  lock,       \* the unreleased workflow_locks row of the definition
  nruns,      \* workflow_runs rows created so far, numbered by started_at
  run,        \* the rows themselves
  pc,         \* where each worker is in its invocation
  mine,       \* the run a worker's slice is about, 0 when none
  elapsed,    \* time since the worker took the lock
  staleSeen   \* ids the worker's reconcile SELECT returned, still to update

wfVars == <<lock, nruns, run, pc, mine, elapsed, staleSeen>>

RunId == 1..MaxRuns
Terminal == {"succeeded", "succeeded_with_warnings", "held", "failed"}
Status == Terminal \cup {"absent", "running"}
ErrorSummary == {"none", "stale_reclaimed", "missing_cursor", "job_error"}
PC == {"idle", "down", "reconcile", "load", "claim", "started", "missing", "work",
       "sliced", "release", "aborted"}

Run == [status : Status, err : ErrorSummary, cursor : BOOLEAN,
        age : 0..(Stale + 1)]

Absent == [status |-> "absent", err |-> "none", cursor |-> FALSE, age |-> 0]
Started(hasCursor) ==
  [status |-> "running", err |-> "none", cursor |-> hasCursor, age |-> 0]

TypeOK ==
  /\ lock \in [by : Worker \cup {NoOne, Dead}, left : -1..TTL]
  /\ nruns \in 0..MaxRuns
  /\ run \in [RunId -> Run]
  /\ pc \in [Worker -> PC]
  /\ mine \in [Worker -> 0..MaxRuns]
  /\ elapsed \in [Worker -> 0..MaxSlice]
  /\ staleSeen \in [Worker -> SUBSET RunId]

Unlocked == [by |-> NoOne, left |-> 0]

Init ==
  /\ lock = Unlocked
  /\ nruns = 0
  /\ run = [r \in RunId |-> Absent]
  /\ pc = [w \in Worker |-> "idle"]
  /\ mine = [w \in Worker |-> 0]
  /\ elapsed = [w \in Worker |-> 0]
  /\ staleSeen = [w \in Worker |-> {}]

-----------------------------------------------------------------------------
Holding == {"load", "claim", "started", "missing", "work", "sliced", "release",
            "aborted"}

\* Its last invocation has ended, or died.
Rests(w) == pc[w] \in {"idle", "down"}

\* The worker is between a successful acquire and its release.
InSlice(w) == pc[w] \in Holding

Running == {r \in RunId : run[r].status = "running"}

\* MUTANT: the newest row, whatever its status.
IsLatest(r) == r = nruns

\* findLatestRunningRun: the newest running row.
IsLatestRunning(r) == r \in Running /\ \A s \in Running : s <= r

\* MUTANT: only runs that never wrote a cursor are looked for.
StaleUnstarted == {r \in Running : ~run[r].cursor /\ run[r].age > Stale}

\* Rows the reconcile SELECT returns: heartbeat strictly older than Stale.
StaleRuns == {r \in Running : run[r].age > Stale}

\* MUTANT: expires_at <= now instead of <.
ExpiresEarly == lock.by # NoOne /\ lock.left <= 0

Expired == lock.by # NoOne /\ lock.left < 0

Goto(w, from, to) == pc[w] = from /\ pc' = [pc EXCEPT ![w] = to]

-----------------------------------------------------------------------------
\* An invocation begins: the SELECT of reconcileStaleWorkflowRuns.  No lock
\* is held.
Begin(w) ==
  /\ Rests(w)
  /\ pc' = [pc EXCEPT ![w] = "reconcile"]
  /\ staleSeen' = [staleSeen EXCEPT ![w] = StaleRuns]
  /\ UNCHANGED <<lock, nruns, run, mine, elapsed>>

\* One UPDATE of the loop over the selected ids; its WHERE clause skips a row
\* that is no longer running, but not one whose heartbeat is fresh again.
Reclaim(w, r) ==
  /\ pc[w] = "reconcile"
  /\ r \in staleSeen[w]
  /\ staleSeen' = [staleSeen EXCEPT ![w] = @ \ {r}]
  /\ run' = IF run[r].status = "running"
            THEN [run EXCEPT ![r].status = "failed",
                             ![r].err = "stale_reclaimed", ![r].age = 0]
            ELSE run
  /\ UNCHANGED <<lock, nruns, pc, mine, elapsed>>

\* MUTANT: no unique index on the active flag.
AcquireAnyway(w) ==
  /\ Goto(w, "reconcile", "load")
  /\ staleSeen[w] = {}
  /\ lock' = [by |-> w, left |-> TTL]
  /\ elapsed' = [elapsed EXCEPT ![w] = 0]
  /\ UNCHANGED <<nruns, run, mine, staleSeen>>

\* acquireWorkflowLock: release an expired row, then INSERT.  The unique index
\* on the active flag lets the INSERT through when no unreleased row is left.
Acquire(w) ==
  /\ Goto(w, "reconcile", "load")
  /\ staleSeen[w] = {}
  /\ lock.by = NoOne \/ Expired
  /\ lock' = [by |-> w, left |-> TTL]
  /\ elapsed' = [elapsed EXCEPT ![w] = 0]
  /\ UNCHANGED <<nruns, run, mine, staleSeen>>

\* The INSERT meets the unique index: already_running / lock_not_acquired.
Refused(w) ==
  /\ Goto(w, "reconcile", "idle")
  /\ staleSeen[w] = {}
  /\ lock.by # NoOne /\ ~Expired
  /\ UNCHANGED <<lock, nruns, run, mine, elapsed, staleSeen>>

-----------------------------------------------------------------------------
\* MUTANT: a new run is started without looking for a running one.
LoadNothing(w) ==
  /\ Goto(w, "load", "claim")
  /\ UNCHANGED <<lock, nruns, run, mine, elapsed, staleSeen>>

\* The reads that open a slice: findLatestRunningRun, then readJobCursor.
LoadNone(w) ==
  /\ Goto(w, "load", "claim")
  /\ Running = {}
  /\ UNCHANGED <<lock, nruns, run, mine, elapsed, staleSeen>>

LoadRun(w, r) ==
  /\ IsLatestRunning(r)
  /\ Goto(w, "load", IF run[r].cursor THEN "work" ELSE "missing")
  /\ mine' = [mine EXCEPT ![w] = r]
  /\ UNCHANGED <<lock, nruns, run, elapsed, staleSeen>>

\* startWorkflowRun: INSERT a running row.  Aggregation writes the first
\* cursor in the same transaction, ranking in a statement of its own.
StartRun(w, withCursor) ==
  /\ nruns < MaxRuns
  /\ Goto(w, "claim", IF withCursor THEN "sliced" ELSE "started")
  /\ nruns' = nruns + 1
  /\ run' = [run EXCEPT ![nruns + 1] = Started(withCursor)]
  /\ mine' = [mine EXCEPT ![w] = IF withCursor THEN 0 ELSE nruns + 1]
  /\ UNCHANGED <<lock, elapsed, staleSeen>>

\* The row with the cursor and the heartbeat is upserted.  A heartbeat only
\* matters while the run is running.
WithCursor(r) ==
  [run EXCEPT ![r].cursor = TRUE, ![r].age = 0]

\* completeWorkflowRun: an UPDATE by id alone, whatever the row's status is.
Completed(f, r, status, err) ==
  [f EXCEPT ![r].status = status, ![r].err = err, ![r].age = 0]

FirstCursor(w) ==
  /\ Goto(w, "started", "sliced")
  /\ run' = WithCursor(mine[w])
  /\ mine' = [mine EXCEPT ![w] = 0]
  /\ UNCHANGED <<lock, nruns, elapsed, staleSeen>>

\* The job finds it cannot start (no aggregation, no rule set).
FailStart(w) ==
  /\ Goto(w, "started", "release")
  /\ run' = Completed(run, mine[w], "failed", "job_error")
  /\ mine' = [mine EXCEPT ![w] = 0]
  /\ UNCHANGED <<lock, nruns, elapsed, staleSeen>>

\* A running row with no cursor: its starter died before writing one.
FailMissing(w) ==
  /\ Goto(w, "missing", "sliced")
  /\ run' = Completed(run, mine[w], "failed", "missing_cursor")
  /\ mine' = [mine EXCEPT ![w] = 0]
  /\ UNCHANGED <<lock, nruns, elapsed, staleSeen>>

\* A slice that leaves the run in progress: its rows and the cursor commit in
\* one transaction.
Progress(w) ==
  /\ Goto(w, "work", "sliced")
  /\ run' = WithCursor(mine[w])
  /\ mine' = [mine EXCEPT ![w] = 0]
  /\ UNCHANGED <<lock, nruns, elapsed, staleSeen>>

\* The last slice: cursor and terminal status commit in one transaction.
Finish(w, status) ==
  /\ Goto(w, "work", "release")
  /\ status \in {"succeeded", "succeeded_with_warnings", "held"}
  /\ run' = Completed(WithCursor(mine[w]), mine[w], status, "none")
  /\ mine' = [mine EXCEPT ![w] = 0]
  /\ UNCHANGED <<lock, nruns, elapsed, staleSeen>>

\* The slice throws: its transaction is rolled back, the finally runs.
Abort(w) ==
  /\ pc[w] \in {"load", "claim", "started", "missing", "work"}
  /\ pc' = [pc EXCEPT ![w] = "aborted"]
  /\ mine' = [mine EXCEPT ![w] = 0]
  /\ UNCHANGED <<lock, nruns, run, elapsed, staleSeen>>

\* Bound MaxRuns: an invocation that would start one more run ends instead.
OutOfRuns(w) == pc[w] = "claim" /\ nruns = MaxRuns

\* MUTANT: the unreleased row of the definition, whoever inserted it.
ReleaseAny(w) ==
  /\ pc[w] \in {"sliced", "release", "aborted"} \/ OutOfRuns(w)
  /\ pc' = [pc EXCEPT ![w] = "idle"]
  /\ lock' = Unlocked
  /\ elapsed' = [elapsed EXCEPT ![w] = 0]
  /\ UNCHANGED <<nruns, run, mine, staleSeen>>

\* releaseWorkflowLock: only the row this invocation inserted.
Release(w) ==
  /\ pc[w] \in {"sliced", "release", "aborted"} \/ OutOfRuns(w)
  /\ pc' = [pc EXCEPT ![w] = "idle"]
  /\ lock' = IF lock.by = w THEN Unlocked ELSE lock
  /\ elapsed' = [elapsed EXCEPT ![w] = 0]
  /\ UNCHANGED <<nruns, run, mine, staleSeen>>

\* runAggregation and runRankingRebuild execute the next slice, unless the job
\* is done, without giving the lock back.
NextSlice(w) ==
  /\ Goto(w, "sliced", "load")
  /\ UNCHANGED <<lock, nruns, run, mine, elapsed, staleSeen>>

-----------------------------------------------------------------------------
\* The process is killed, or a statement outside the try block or the release
\* itself throws: an open transaction is rolled back and the lock row, if any,
\* stays until it expires.  The next invocation has a new lock run id.
Crash(w) ==
  /\ ~Rests(w)
  /\ pc' = [pc EXCEPT ![w] = "down"]
  /\ lock' = IF lock.by = w THEN [lock EXCEPT !.by = Dead] ELSE lock
  /\ mine' = [mine EXCEPT ![w] = 0]
  /\ elapsed' = [elapsed EXCEPT ![w] = 0]
  /\ staleSeen' = [staleSeen EXCEPT ![w] = {}]
  /\ UNCHANGED <<nruns, run>>

\* One unit of time.  A slice in flight is never longer than MaxSlice.
Tick ==
  /\ \A w \in Worker : InSlice(w) => elapsed[w] < MaxSlice
  /\ elapsed' = [w \in Worker |->
                   IF InSlice(w) THEN elapsed[w] + 1 ELSE elapsed[w]]
  /\ lock' = IF lock.by # NoOne /\ lock.left >= 0
             THEN [lock EXCEPT !.left = @ - 1] ELSE lock
  /\ run' = [r \in RunId |->
               IF run[r].status = "running" /\ run[r].age <= Stale
               THEN [run[r] EXCEPT !.age = @ + 1] ELSE run[r]]
  /\ UNCHANGED <<nruns, pc, mine, staleSeen>>

\* What an invocation does by itself, besides failing.
Step(w) ==
  \/ Begin(w)
  \/ \E r \in RunId : Reclaim(w, r)
  \/ Acquire(w)
  \/ Refused(w)
  \/ LoadNone(w)
  \/ \E r \in RunId : LoadRun(w, r)
  \/ \E withCursor \in BOOLEAN : StartRun(w, withCursor)
  \/ FirstCursor(w)
  \/ FailStart(w)
  \/ FailMissing(w)
  \/ Progress(w)
  \/ \E status \in Terminal : Finish(w, status)
  \/ Release(w)
  \/ NextSlice(w)

Next ==
  \/ \E w \in Worker : Step(w) \/ Abort(w) \/ Crash(w)
  \/ Tick

Spec == Init /\ [][Next]_wfVars

-----------------------------------------------------------------------------
\* At most one worker executes a slice of this definition: the lock "can NEVER
\* expire mid-slice and let a concurrent call clear it and start a second
\* batch on the same run" (lib/aggregation/sync.ts).
MutualExclusion ==
  \A v, w \in Worker : InSlice(v) /\ InSlice(w) => v = w

\* A running row is the newest row of its definition, so there is at most one
\* and a resuming call never continues a run behind a newer one.
RunningIsNewest ==
  \A r \in Running : r = nruns

\* A slice that has read its run commits into the newest run, even when a
\* reconcile without the lock has failed that run in the meantime: completion,
\* which is unconditional, can never revive a run behind a newer one.
SliceIsOnNewest ==
  \A w \in Worker : pc[w] \in {"started", "missing", "work"} => mine[w] = nruns

\* Why those three hold when a slice fits in the TTL.  The lock row of a slice
\* cannot have expired: its time left and the time the slice has taken add up
\* to the TTL.  And a slice in which no run was found, or which has read one,
\* speaks for the present: nobody else starts a run.
LockFollowsSlice ==
  \A w \in Worker : InSlice(w) => lock.by = w /\ elapsed[w] + lock.left = TTL
NothingRunsAtClaim ==
  \A w \in Worker : pc[w] = "claim" => Running = {}
FutureRunsAbsent ==
  \A r \in RunId : r > nruns => run[r].status = "absent"
WorkflowInv ==
  /\ TypeOK
  /\ LockFollowsSlice
  /\ NothingRunsAtClaim
  /\ FutureRunsAbsent
  /\ RunningIsNewest
  /\ SliceIsOnNewest

\* An unreleased, unexpired row only goes away when the worker that inserted it
\* releases it: the finally of a slice that outlived its own row leaves the row
\* of its successor alone.
LockFreedByOwner ==
  [][lock.by \in Worker /\ lock'.by = NoOne =>
       InSlice(lock.by) /\ pc'[lock.by] = "idle"]_wfVars
=============================================================================
