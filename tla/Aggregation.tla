---------------------------- MODULE Aggregation ----------------------------
(***************************************************************************)
(* The statistical-aggregation job of lib/aggregation/sync.ts and          *)
(* lib/aggregation/repository.ts.  A run writes one set of aggregate rows  *)
(* per active brawler in each of three scopes, a batch of brawlers per     *)
(* slice, then completes its three aggregation_runs and itself.            *)
(*                                                                         *)
(* Every action is an action of Workflow with what the aggregation code    *)
(* adds to it.  A brawler's rows in one scope are written by one INSERT ..  *)
(* SELECT, so they are counted as one set of rows, and brawlers without    *)
(* battles, which have none, are left out of Brawler.                      *)
(***************************************************************************)
EXTENDS Workflow, FiniteSetsExt

CONSTANTS
  NBrawlers,     \* brawlers, numbered in the order of their ids
  BatchSize,     \* brawlers per slice, after clampBatch
  PatchUnknown,  \* brawlers none of whose battles has a patch_id
  Volatile       \* bound: brawlers the catalog sync may (de)activate

Brawler == 1..NBrawlers

ASSUME AggregationAssumption ==
  /\ NBrawlers \in Nat
  /\ BatchSize \in Nat \ {0}
  /\ PatchUnknown \subseteq Brawler
  /\ Volatile \subseteq Brawler

VARIABLES
  active,   \* brawlers with is_active = 1 in the catalog
  agg,      \* per run: its cursor and its three aggregation_runs rows
  rows,     \* per run, scope and brawler: how often its rows were inserted
  slice,    \* per worker: the cursor, batch and counts its slice has read
  steady    \* history: per run, the brawlers active since it started

jobVars == <<active, agg, rows, slice, steady>>
vars == <<wfVars, jobVars>>

Scope == {"mode", "overall", "matchup"}
Phase == Scope \cup {"finalize", "done"}

\* MUTANT: one scope is forgotten.
NextPhaseSkips ==
  [mode |-> "overall", overall |-> "finalize", matchup |-> "finalize"]

NextPhase == [mode |-> "overall", overall |-> "matchup", matchup |-> "finalize"]

AggStatus == {"running", "succeeded", "succeeded_with_warnings"}
Visible == {"succeeded", "succeeded_with_warnings"}

NoRows == [s \in Scope |-> [b \in Brawler |-> 0]]
NoCounts == [s \in Scope |-> 0]
FreshJob == [phase |-> "mode", pos |-> 0,
             status |-> [s \in Scope |-> "running"], counts |-> NoCounts]
NoSlice == [phase |-> "done", pos |-> 0, batch |-> {}, counts |-> NoCounts]

AggTypeOK ==
  /\ TypeOK
  /\ active \subseteq Brawler
  /\ agg \in [RunId -> [phase : Phase, pos : 0..NBrawlers,
                        status : [Scope -> AggStatus],
                        counts : [Scope -> Nat]]]
  /\ rows \in [RunId -> [Scope -> [Brawler -> Nat]]]
  /\ slice \in [Worker -> [phase : Phase, pos : 0..NBrawlers,
                           batch : SUBSET Brawler, counts : [Scope -> Nat]]]
  /\ steady \in [RunId -> SUBSET Brawler]

AggInit ==
  /\ Init
  /\ active \in {A \in SUBSET Brawler : Brawler \ Volatile \subseteq A}
  /\ agg = [r \in RunId |-> FreshJob]
  /\ rows = [r \in RunId |-> NoRows]
  /\ slice = [w \in Worker |-> NoSlice]
  /\ steady = [r \in RunId |-> {}]

-----------------------------------------------------------------------------
\* MUTANT: paging by position in the list instead of by id.
BatchAtOffset(pos) ==
  {b \in active : LET rank == Cardinality({a \in active : a <= b})
                  IN  pos < rank /\ rank <= pos + BatchSize}

\* getActiveBrawlerIdBatch: the first BatchSize active ids above the cursor.
BatchAfter(pos) ==
  {b \in active : b > pos /\ Cardinality({a \in active : pos < a /\ a <= b})
                               <= BatchSize}

\* countAggregateRows of one scope of a run.
CountRows(r) ==
  [s \in Scope |-> Cardinality(UNION {{b} \X (1..rows[r][s][b]) : b \in Brawler})]

\* The unique keys hold a nullable patch_id, and NULLs never conflict: a
\* second INSERT for a brawler is rejected only when some battle of the batch
\* has a patch.
Conflict(r, s, batch) ==
  \E b \in batch \ PatchUnknown : rows[r][s][b] > 0

-----------------------------------------------------------------------------
\* claimFreshJob: run, three aggregation_runs and cursor in one transaction.
Claim(w) ==
  /\ StartRun(w, TRUE)
  /\ agg' = [agg EXCEPT ![nruns + 1] = FreshJob]
  /\ steady' = [steady EXCEPT ![nruns + 1] = active]
  /\ UNCHANGED <<active, rows, slice>>

\* The reads of a slice: cursor, then the next batch, or the row counts when
\* all scopes are done.  None of them is inside the transaction that follows.
Load(w, r) ==
  /\ LoadRun(w, r)
  /\ slice' = [slice EXCEPT ![w] =
       [phase  |-> agg[r].phase,
        pos    |-> agg[r].pos,
        batch  |-> IF agg[r].phase \in Scope THEN BatchAfter(agg[r].pos) ELSE {},
        counts |-> IF agg[r].phase \in Scope THEN NoCounts ELSE CountRows(r)]]
  /\ UNCHANGED <<active, agg, rows, steady>>

\* runOneBatchOrAdvance with an empty batch: the cursor moves to the next phase.
Advance(w) ==
  /\ slice[w].phase \in Scope
  /\ slice[w].batch = {}
  /\ Progress(w)
  /\ agg' = [agg EXCEPT ![mine[w]].phase = NextPhase[slice[w].phase],
                        ![mine[w]].pos = 0]
  /\ slice' = [slice EXCEPT ![w] = NoSlice]
  /\ UNCHANGED <<active, rows, steady>>

\* A unique key rejects the rows of the worker's batch.
Rejected(w) ==
  /\ pc[w] = "work"
  /\ slice[w].phase \in Scope
  /\ Conflict(mine[w], slice[w].phase, slice[w].batch)

\* The cursor stands behind the last brawler of the batch.
RowsAndCursor(r, s, batch) ==
  /\ rows' = [rows EXCEPT ![r][s] =
                [b \in Brawler |-> IF b \in batch THEN @[b] + 1 ELSE @[b]]]
  /\ agg' = [agg EXCEPT ![r].phase = s,
                        ![r].pos = Max(batch)]

\* ... with a batch: its rows and the cursor commit together; or a unique key
\* rejects them, the transaction is rolled back and the slice throws.
InsertBatch(w) ==
  /\ pc[w] = "work"
  /\ slice[w].phase \in Scope
  /\ slice[w].batch # {}
  /\ IF Rejected(w)
     THEN Abort(w) /\ UNCHANGED <<agg, rows>>
     ELSE Progress(w) /\ RowsAndCursor(mine[w], slice[w].phase, slice[w].batch)
  /\ slice' = [slice EXCEPT ![w] = NoSlice]
  /\ UNCHANGED <<active, steady>>

\* finalizeAggregation: one transaction completes the three scoped runs with
\* the counts read before it, the cursor and the workflow run.
Finalize(w, status) ==
  /\ slice[w].phase \in {"finalize", "done"}
  /\ Finish(w, status)
  /\ agg' = [agg EXCEPT ![mine[w]] =
               [phase |-> "done", pos |-> slice[w].pos,
                status |-> [s \in Scope |-> status], counts |-> slice[w].counts]]
  /\ slice' = [slice EXCEPT ![w] = NoSlice]
  /\ UNCHANGED <<active, rows, steady>>

\* The catalog sync, an independent job, changes is_active under a run.
CatalogChange(b) ==
  /\ active' = IF b \in active THEN active \ {b} ELSE active \cup {b}
  /\ steady' = [r \in RunId |-> steady[r] \ {b}]
  /\ UNCHANGED <<wfVars, agg, rows, slice>>

\* Steps of an invocation that leave the job's rows alone.
Housekeeping(w) ==
  /\ \/ Begin(w)
     \/ \E r \in RunId : Reclaim(w, r)
     \/ Acquire(w)
     \/ Refused(w)
     \/ LoadNone(w)
     \/ Release(w)
     \/ NextSlice(w)
  /\ UNCHANGED jobVars

\* A statement of the slice fails for no reason of the model's, or the process
\* dies.  What a unique key rejects is no such failure: it can go on for ever.
Fail(w) ==
  /\ \/ Abort(w) /\ ~Rejected(w)
     \/ Crash(w)
  /\ slice' = [slice EXCEPT ![w] = NoSlice]
  /\ UNCHANGED <<active, agg, rows, steady>>

JobStep(w) ==
  \/ Housekeeping(w)
  \/ Claim(w)
  \/ \E r \in RunId : Load(w, r)
  \/ Advance(w)
  \/ InsertBatch(w)
  \/ \E status \in Visible : Finalize(w, status)

Time == Tick /\ UNCHANGED jobVars

AggNext ==
  \/ \E w \in Worker : JobStep(w) \/ Fail(w)
  \/ \E b \in Volatile : CatalogChange(b)
  \/ Time

AggSpec == AggInit /\ [][AggNext]_vars

\* The timer of the worker keeps firing and a process that runs keeps running,
\* time passes, and processes and the database do not fail for ever.
AggFairness ==
  /\ \A w \in Worker : WF_vars(JobStep(w))
  /\ WF_vars(Time)
  /\ <>[][~\E w \in Worker : Fail(w)]_vars

-----------------------------------------------------------------------------
Finished(r) == run[r].status \in Visible

\* getLatestSuccessfulAggregation (lib/ranking/repository.ts): the newest
\* succeeded run, provided its three scoped runs are visible; 0 for none.
LatestSuccessful ==
  LET done == {r \in RunId : Finished(r)}
  IN  IF done # {} /\ \A s \in Scope : agg[Max(done)].status[s] \in Visible
      THEN Max(done) ELSE 0

\* What the run has written agrees with its cursor, slice by slice, under
\* catalog changes, aborted slices, dead workers and resumed runs: behind the
\* cursor every brawler that was active throughout has its rows, ahead of it
\* nobody has any.
Behind(r, s, b) ==
  \/ agg[r].phase \in {"finalize", "done"}
  \/ s = "mode" /\ agg[r].phase \in {"overall", "matchup"}
  \/ s = "overall" /\ agg[r].phase = "matchup"
  \/ s = agg[r].phase /\ b <= agg[r].pos
RowsFollowCursor ==
  \A r \in 1..nruns, s \in Scope, b \in Brawler :
    IF Behind(r, s, b) THEN b \in steady[r] => rows[r][s][b] = 1
                       ELSE rows[r][s][b] = 0

\* A slice "re-runs exactly this batch -- never a partial or double write"
\* (lib/aggregation/sync.ts, PHASE5.md).
NoDoubleWrite ==
  \A r \in RunId, s \in Scope, b \in Brawler : rows[r][s][b] <= 1

\* What ranking reads is whole: every brawler active throughout the run exactly
\* once in every scope, and recorded counts that match the rows although they
\* are read before the completing transaction.
LatestIsWhole ==
  LatestSuccessful # 0 =>
    LET r == LatestSuccessful
    IN  /\ \A s \in Scope, b \in steady[r] : rows[r][s][b] = 1
        /\ agg[r].counts = CountRows(r)

\* Once a run can be read by ranking, no worker adds rows to it.
VisibleRowsImmutable ==
  [][\A r \in RunId : Finished(r) => rows'[r] = rows[r] /\ agg'[r] = agg[r]]_vars

\* The scoped runs and the workflow run succeed together or not at all.
ScopedRunsAgree ==
  \A r \in 1..nruns, s \in Scope :
    Finished(r) <=> agg[r].status[s] \in Visible

\* The rows, the cursor, the scoped runs and the workflow run never contradict each
\* other, at whatever statement a slice died, and what can be read is whole.
AggInv == AggTypeOK /\ RowsFollowCursor /\ ScopedRunsAgree /\ LatestIsWhole

\* A job never hangs: whatever crashed, and whoever left a lock row behind,
\* every run ends, completed by a later invocation or failed as stale.
EveryRunEnds ==
  \A r \in RunId : run[r].status = "running" ~> run[r].status \in Terminal

\* The job as its readers see it: the rows of a run that is not visible count
\* for nothing ("harmlessly invisible", lib/workflow.ts).
RunState(r) ==
  CASE run[r].status = "absent"  -> "absent"
    [] run[r].status = "running" -> "running"
    [] Finished(r)               -> "visible"
    [] OTHER                     -> "failed"
Job == INSTANCE AtomicJob WITH
         Part    <- Scope,
         Item    <- Brawler,
         started <- nruns,
         state   <- [r \in RunId |-> RunState(r)],
         demand  <- steady,
         output  <- [r \in RunId |-> IF Finished(r) THEN rows[r] ELSE NoRows]
\* Batches, cursors, crashes, resumed and reclaimed runs implement an atomic
\* job: output appears at once, whole, in the newest run only.
ImplementsAtomicJob == Job!Spec
=============================================================================
