------------------------------ MODULE Ranking ------------------------------
(***************************************************************************)
(* The ranking job of lib/ranking/sync.ts and the operator approval of     *)
(* lib/ranking/approval.ts, over the tables of lib/ranking/repository.ts.  *)
(* A run writes candidate rows batch by batch, scores them, then publishes *)
(* them as the one current snapshot, or holds them for an operator, or     *)
(* finds nothing worth publishing.                                         *)
(*                                                                         *)
(* Every job action is an action of Workflow with what the ranking code    *)
(* adds to it.  Approval takes no lock: it is a process of its own.        *)
(*                                                                         *)
(* What the tiers and scores of a candidate are is abstracted to a Value.  *)
(* Two values that differ are a significant change, two that differ by two *)
(* or more move more than a quarter of the tiers.                          *)
(***************************************************************************)
EXTENDS Workflow, FiniteSetsExt

CONSTANTS
  Operator,      \* operators that may run the approval command
  NBrawlers,     \* brawlers, numbered in the order of their ids
  BatchSize,     \* brawlers per slice, after clampBatch
  BelowFloor,    \* brawlers whose overall sample never meets the floor
  Modeless,      \* brawlers with no battle in a known game mode
  Volatile,      \* bound: brawlers the catalog sync may (de)activate
  Value          \* bound: contents a candidate may have

Brawler == 1..NBrawlers

ASSUME RankingAssumption ==
  /\ NBrawlers \in Nat
  /\ BatchSize \in Nat \ {0}
  /\ BelowFloor \subseteq Brawler
  /\ Modeless \subseteq Brawler
  /\ Volatile \subseteq Brawler
  /\ Value \subseteq Nat \ {0}

VARIABLES
  ready,     \* an aggregation is visible and a rule set active
  active,    \* brawlers with is_active = 1 in the catalog
  job,       \* per run: its cursor, candidate rows and their value
  rr,        \* per run: its ranking_runs row
  snap,      \* per run: its published_snapshots row
  slice,     \* per worker: what its slice has read and decided
  approving, \* per operator: the validated run it is about to publish
  steady     \* history: per run, the brawlers active since it started

jobVars == <<ready, active, job, rr, snap, slice, approving, steady>>
vars == <<wfVars, jobVars>>

Scope == {"brawlers", "matchups"}
Phase == Scope \cup {"finalize", "publish", "done"}

\* MUTANT: matchups are forgotten.
NextPhaseSkips == [brawlers |-> "finalize", matchups |-> "finalize"]

NextPhase == [brawlers |-> "matchups", matchups |-> "finalize"]
Plan == {"none", "hold", "no_change", "publish"}

NoCandidate == [phase |-> "brawlers", pos |-> 0, value |-> 0,
                rows |-> [s \in Scope |-> [b \in Brawler |-> 0]]]
NoRecord == [status |-> "none", hold |-> "none", evaluated |-> 0, published |-> 0]
NoSnapshot == [is |-> "none", items |-> {}, by |-> "nobody"]
NoSlice == [phase |-> "done", pos |-> 0, batch |-> {},
            plan |-> "none", recorded |-> FALSE]

RankTypeOK ==
  /\ TypeOK
  /\ ready \in BOOLEAN
  /\ active \subseteq Brawler
  /\ job \in [RunId -> [phase : Phase, pos : 0..NBrawlers, value : Value \cup {0},
                        rows : [Scope -> [Brawler -> Nat]]]]
  /\ rr \in [RunId -> [status : {"none", "running", "succeeded", "held"},
                       hold : {"none", "mass_movement_guard",
                               "no_significant_change"},
                       evaluated : Nat, published : Nat]]
  /\ snap \in [RunId -> [is : {"none", "current", "superseded"},
                         items : SUBSET Brawler,
                         by : {"nobody", "job", "operator"}]]
  /\ slice \in [Worker -> [phase : Phase, pos : 0..NBrawlers,
                           batch : SUBSET Brawler, plan : Plan,
                           recorded : BOOLEAN]]
  /\ approving \in [Operator -> 0..MaxRuns]
  /\ steady \in [RunId -> SUBSET Brawler]

RankInit ==
  /\ Init
  /\ ready \in BOOLEAN
  /\ active \in {A \in SUBSET Brawler : Brawler \ Volatile \subseteq A}
  /\ job = [r \in RunId |-> NoCandidate]
  /\ rr = [r \in RunId |-> NoRecord]
  /\ snap = [r \in RunId |-> NoSnapshot]
  /\ slice = [w \in Worker |-> NoSlice]
  /\ approving = [o \in Operator |-> 0]
  /\ steady = [r \in RunId |-> {}]

-----------------------------------------------------------------------------
\* MUTANT: paging by position in the list instead of by id.
BatchAtOffset(pos) ==
  {b \in active : LET rank == Cardinality({a \in active : a <= b})
                  IN  pos < rank /\ rank <= pos + BatchSize}

\* getActiveBrawlerIdBatch: the first BatchSize active ids above the cursor.
BatchAfter(pos) ==
  {b \in active : b > pos /\ Cardinality({a \in active : pos < a /\ a <= b})
                               <= BatchSize}

\* Overall rows of the run's candidate, a repeated brawler counted each time.
OverallRows(r) ==
  Cardinality(UNION {{b} \X (1..job[r].rows["brawlers"][b]) : b \in Brawler})

\* The brawlers a publication of r inserts: those with a row, above the floor.
Publishable(r) == {b \in Brawler \ BelowFloor : job[r].rows["brawlers"][b] > 0}

Published == {r \in RunId : snap[r].is # "none"}
Current == {r \in RunId : snap[r].is = "current"}

Apart(u, v) == IF u > v THEN u - v ELSE v - u

\* computeTierMoveRatio and exceedsMassMovementGuard of r against the current
\* snapshot.  Only brawlers ranked in both count as moved.
MassMovement(r) ==
  \E p \in Current : /\ Publishable(r) \cap snap[p].items # {}
                     /\ Apart(job[r].value, job[p].value) >= 2

\* hasSignificantChange.  A brawler that is no longer ranked is no change.
SignificantChange(r) ==
  \/ Published = {}
  \/ \E p \in Current :
       \/ ~(Publishable(r) \subseteq snap[p].items)
       \/ Publishable(r) # {} /\ job[r].value # job[p].value

\* The unique key of ranking_results has a nullable game_mode_id and NULLs
\* never conflict: a second batch is rejected only by rows of some mode.  The
\* rows of matchup_results have no mode and never conflict.
Conflict(r, s, batch) ==
  s = "brawlers" /\ \E b \in batch \ Modeless : job[r].rows[s][b] > 0

\* supersedeCurrentSnapshot.
Superseded(p) ==
  IF p \in Current THEN [snap[p] EXCEPT !.is = "superseded"] ELSE snap[p]

\* MUTANT: no unique key on a snapshot's brawlers.
CanPublishRepeated(r) == r \notin Published

\* No unique key rejects the publication of r.
CanPublish(r) ==
  /\ r \notin Published
  /\ \A b \in Publishable(r) : job[r].rows["brawlers"][b] = 1

\* createPublishedSnapshot, and an item for each brawler.
NewSnapshot(r, by) == [is |-> "current", items |-> Publishable(r), by |-> by]

\* The publication transaction of r: supersede, create, insert the items,
\* complete the ranking run.
Publication(r, by, hold, evaluated) ==
  /\ snap' = [p \in RunId |->
       IF p = r THEN NewSnapshot(r, by) ELSE Superseded(p)]
  /\ rr' = [rr EXCEPT ![r] =
       [status |-> "succeeded", hold |-> hold, evaluated |-> evaluated,
        published |-> Cardinality(Publishable(r))]]

-----------------------------------------------------------------------------
\* startRankingJob, first statement: the workflow run.
Claim(w) ==
  /\ StartRun(w, FALSE)
  /\ steady' = [steady EXCEPT ![nruns + 1] = active]
  /\ UNCHANGED <<ready, active, job, rr, snap, slice, approving>>

\* no_valid_aggregation or no_active_rule_set.
GiveUp(w) ==
  /\ FailStart(w)
  /\ ~ready
  /\ rr[mine[w]].status = "none"
  /\ UNCHANGED jobVars

\* createRankingRun, a statement of its own.
CreateRankingRun(w) ==
  /\ pc[w] = "started"
  /\ ready
  /\ rr[mine[w]].status = "none"
  /\ rr' = [rr EXCEPT ![mine[w]].status = "running"]
  /\ UNCHANGED <<wfVars, ready, active, job, snap, slice, approving, steady>>

\* The first cursor, another.  A crash before it leaves a running workflow run
\* that no slice can resume and, for good, a running ranking run.
WriteFirstCursor(w) ==
  /\ pc[w] = "started"
  /\ rr[mine[w]].status = "running"
  /\ FirstCursor(w)
  /\ UNCHANGED jobVars

\* The reads of a slice outside its transaction: the cursor and the batch.
Load(w, r) ==
  /\ LoadRun(w, r)
  /\ slice' = IF run[r].cursor
              THEN [slice EXCEPT ![w] =
                [NoSlice EXCEPT
                   !.phase = job[r].phase, !.pos = job[r].pos,
                   !.batch = IF job[r].phase \in Scope
                             THEN BatchAfter(job[r].pos) ELSE {}]]
              ELSE slice
  /\ UNCHANGED <<ready, active, job, rr, snap, approving, steady>>

MissingCursor(w) == FailMissing(w) /\ UNCHANGED jobVars

\* brawlersPhase and matchupsPhase with an empty batch.
Advance(w) ==
  /\ slice[w].phase \in Scope
  /\ slice[w].batch = {}
  /\ Progress(w)
  /\ job' = [job EXCEPT ![mine[w]].phase = NextPhase[slice[w].phase],
                        ![mine[w]].pos = 0]
  /\ slice' = [slice EXCEPT ![w] = NoSlice]
  /\ UNCHANGED <<ready, active, rr, snap, approving, steady>>

\* insertRankingResult and insertMatchupResult for each brawler of a batch.
WithRows(rows, batch) == [b \in Brawler |-> IF b \in batch THEN rows[b] + 1 ELSE rows[b]]

\* ... with a batch: its rows and the cursor commit together.
InsertBatch(w) ==
  LET r == mine[w]
      s == slice[w].phase
      batch == slice[w].batch
  IN  /\ s \in Scope
      /\ batch # {}
      /\ ~Conflict(r, s, batch)
      /\ Progress(w)
      /\ job' = [job EXCEPT ![r].phase = s, ![r].pos = Max(batch),
                            ![r].rows[s] = WithRows(@, batch)]
      /\ slice' = [slice EXCEPT ![w] = NoSlice]
      /\ UNCHANGED <<ready, active, rr, snap, approving, steady>>

\* finalizePhase: scores and tiers are a function of the candidate rows, so a
\* second execution stamps the same value.
FinalizeCandidate(w, v) ==
  LET r == mine[w]
  IN  /\ slice[w].phase = "finalize"
      /\ job[r].value \in {0, v}
      /\ Progress(w)
      /\ job' = [job EXCEPT ![r].phase = "publish", ![r].pos = 0, ![r].value = v]
      /\ slice' = [slice EXCEPT ![w] = NoSlice]
      /\ UNCHANGED <<ready, active, rr, snap, approving, steady>>

-----------------------------------------------------------------------------
\* The mass-movement guard comes first, then the no-change rule.
PlanFor(r) ==
  IF MassMovement(r) THEN "hold"
  ELSE IF SignificantChange(r) THEN "publish" ELSE "no_change"

\* publishPhase reads the candidate and the current snapshot, outside any
\* transaction, and chooses between holding, skipping and publishing.
Decide(w) ==
  /\ pc[w] = "work"
  /\ slice[w].phase \in {"publish", "done"}
  /\ slice[w].plan = "none"
  /\ slice' = [slice EXCEPT ![w].plan = PlanFor(mine[w])]
  /\ UNCHANGED <<wfVars, ready, active, job, rr, snap, approving, steady>>

\* MUTANT: the two reasons are swapped.
HoldReasonSwapped == [hold |-> "no_significant_change",
                      no_change |-> "mass_movement_guard"]

HoldReason == [hold |-> "mass_movement_guard",
               no_change |-> "no_significant_change"]

\* completeRankingRun for a hold or a skip: an UPDATE by id alone.
Record(w) ==
  LET r == mine[w]
      plan == slice[w].plan
  IN  /\ plan \in {"hold", "no_change"}
      /\ ~slice[w].recorded
      /\ rr' = [rr EXCEPT ![r] =
           [status |-> IF plan = "hold" THEN "held" ELSE "succeeded",
            hold |-> HoldReason[plan],
            evaluated |-> OverallRows(r), published |-> 0]]
      /\ slice' = [slice EXCEPT ![w].recorded = TRUE]
      /\ UNCHANGED <<wfVars, ready, active, job, snap, approving, steady>>

\* publishRankingRunFromCandidates of the job.
Publish(w) ==
  LET r == mine[w]
  IN  /\ slice[w].plan = "publish"
      /\ ~slice[w].recorded
      /\ CanPublish(r)
      /\ Publication(r, "job", "none", OverallRows(r))
      /\ slice' = [slice EXCEPT ![w].recorded = TRUE]
      /\ UNCHANGED <<wfVars, ready, active, job, approving, steady>>

\* The last transaction of the job, after the one that published or recorded.
FinishJob(w) ==
  /\ slice[w].recorded
  /\ Finish(w, IF slice[w].plan = "hold" THEN "held" ELSE "succeeded")
  /\ job' = [job EXCEPT ![mine[w]].phase = "done"]
  /\ slice' = [slice EXCEPT ![w] = NoSlice]
  /\ UNCHANGED <<ready, active, rr, snap, approving, steady>>

\* A unique key rejects the batch, or the publication of a run that has its
\* snapshot or a repeated brawler: rolled back, and the slice throws.
Rejected(w) ==
  /\ pc[w] = "work"
  /\ \/ slice[w].phase \in Scope /\ Conflict(mine[w], slice[w].phase, slice[w].batch)
     \/ slice[w].plan = "publish" /\ ~slice[w].recorded /\ ~CanPublish(mine[w])
Reject(w) ==
  /\ Rejected(w)
  /\ Abort(w)
  /\ slice' = [slice EXCEPT ![w] = NoSlice]
  /\ UNCHANGED <<ready, active, job, rr, snap, approving, steady>>

-----------------------------------------------------------------------------
\* approveHeldRanking up to its publication: every check on run r passes.
Validate(o, r) ==
  /\ approving[o] = 0
  /\ r \notin Published
  /\ rr[r].status = "held" /\ rr[r].hold = "mass_movement_guard"
  /\ active # {}
  /\ \A b \in active : job[r].rows["brawlers"][b] > 0
  /\ OverallRows(r) = Cardinality(active)
  /\ rr[r].evaluated = Cardinality(active)
  /\ \E b \in Brawler : job[r].rows["matchups"][b] > 0
  /\ Publishable(r) # {}
  /\ approving' = [approving EXCEPT ![o] = r]
  /\ UNCHANGED <<wfVars, ready, active, job, rr, snap, slice, steady>>

\* Its publication, which checks nothing again: only the unique keys can stop
\* it.  The catalog may have changed since, the evaluated count is the old one.
Approve(o) ==
  LET r == approving[o]
  IN  /\ r # 0
      /\ CanPublish(r)
      /\ Publication(r, "operator", "mass_movement_guard", rr[r].evaluated)
      /\ approving' = [approving EXCEPT ![o] = 0]
      /\ UNCHANGED <<wfVars, ready, active, job, slice, steady>>

\* It is a dry run, is rejected by a unique key, fails or is killed.
NotApproved(o) ==
  /\ approving[o] # 0
  /\ approving' = [approving EXCEPT ![o] = 0]
  /\ UNCHANGED <<wfVars, ready, active, job, rr, snap, slice, steady>>

-----------------------------------------------------------------------------
\* The first aggregation succeeds and the rule set is seeded; nothing in the
\* repository withdraws either.
GetReady ==
  /\ ready' = TRUE
  /\ UNCHANGED <<wfVars, active, job, rr, snap, slice, approving, steady>>

\* The catalog sync, an independent job, changes is_active under a run.
CatalogChange(b) ==
  /\ active' = IF b \in active THEN active \ {b} ELSE active \cup {b}
  /\ steady' = [r \in RunId |-> steady[r] \ {b}]
  /\ UNCHANGED <<wfVars, ready, job, rr, snap, slice, approving>>

\* Steps of an invocation that leave the job's rows alone.
Housekeeping(w) ==
  /\ \/ Begin(w)
     \/ \E r \in RunId : Reclaim(w, r)
     \/ Acquire(w)
     \/ Refused(w)
     \/ LoadNone(w)
     \/ Release(w)
     \/ NextSlice(w)
  /\ UNCHANGED jobVars

\* A statement of the slice fails for no reason of the model's, or the process
\* dies.  What a unique key rejects is no such failure: it can go on for ever.
Fail(w) ==
  /\ \/ Abort(w) /\ ~Rejected(w)
     \/ Crash(w)
  /\ slice' = [slice EXCEPT ![w] = NoSlice]
  /\ UNCHANGED <<ready, active, job, rr, snap, approving, steady>>

JobStep(w) ==
  \/ Housekeeping(w)
  \/ Claim(w)
  \/ GiveUp(w)
  \/ CreateRankingRun(w)
  \/ WriteFirstCursor(w)
  \/ \E r \in RunId : Load(w, r)
  \/ MissingCursor(w)
  \/ Advance(w)
  \/ InsertBatch(w)
  \/ \E v \in Value : FinalizeCandidate(w, v)
  \/ Decide(w)
  \/ Record(w)
  \/ Publish(w)
  \/ FinishJob(w)
  \/ Reject(w)

OperatorStep(o) ==
  \/ \E r \in RunId : Validate(o, r)
  \/ Approve(o)
  \/ NotApproved(o)

Time == Tick /\ UNCHANGED jobVars

RankNext ==
  \/ \E w \in Worker : JobStep(w) \/ Fail(w)
  \/ \E o \in Operator : OperatorStep(o)
  \/ \E b \in Volatile : CatalogChange(b)
  \/ GetReady
  \/ Time

RankSpec == RankInit /\ [][RankNext]_vars

\* The timer of the worker keeps firing and a process that runs keeps running,
\* time passes, and processes and the database do not fail for ever.
RankFairness ==
  /\ \A w \in Worker : WF_vars(JobStep(w))
  /\ WF_vars(Time)
  /\ <>[][~\E w \in Worker : Fail(w)]_vars

-----------------------------------------------------------------------------
\* What a reader of the site gets is whole: every brawler above the floor that
\* was active throughout the run, once, and the candidate it was published
\* from is never touched again, by a resumed run or by anyone.
PublishedIsWhole ==
  \A r \in Published :
    /\ snap[r].items = Publishable(r)
    /\ steady[r] \ BelowFloor \subseteq snap[r].items
    /\ \A s \in Scope, b \in steady[r] : job[r].rows[s][b] = 1
    /\ job[r].value # 0

\* Even when two slices overlap and both insert a batch, no brawler gets on the
\* site twice: the unique key of the published items rejects the candidate.
NoBrawlerTwice ==
  [][\A r \in Published' \ Published :
       \A b \in snap'[r].items : job[r].rows["brawlers"][b] = 1]_vars

\* Whatever crashed between the statements of the publish phase, the end of the
\* workflow run agrees with what became of the candidate: a held run waits for
\* an operator or was published, a succeeded one was published or recorded as
\* no change.
OutcomeRecorded ==
  \A r \in RunId :
    /\ run[r].status = "held" => rr[r].status = "held" \/ r \in Published
    /\ run[r].status = "succeeded" =>
         /\ rr[r].status = "succeeded"
         /\ r \in Published \/ rr[r].hold = "no_significant_change"

\* The site never goes back to older statistics by itself: only an operator
\* can replace the current snapshot by that of an older run.
OnlyApprovalGoesBack ==
  [][\A p \in Current, r \in Current' : r < p => snap'[r].by = "operator"]_vars

\* There is one current snapshot from the first publication on, and at no time
\* two: a rejected or rolled back publication leaves the previous one current.
AlwaysOneCurrent ==
  Cardinality(Current) = (IF Published = {} THEN 0 ELSE 1)

\* What the site shows is whole, there is one such snapshot, and the records of the
\* runs say what became of them.
RankInv == RankTypeOK /\ PublishedIsWhole /\ OutcomeRecorded /\ AlwaysOneCurrent

\* The ranking run of a snapshot says so: the publish phase "is one transaction"
\* (PHASE5.md) that creates the snapshot and completes its run.
PublishedRecordKept ==
  \A r \in Published :
    rr[r].status = "succeeded" /\ rr[r].published = Cardinality(snap[r].items)

\* A job never hangs: every run ends, whatever crashed, even when each of its
\* publications is rejected because an operator has published it.
EveryRunEnds ==
  \A r \in RunId : run[r].status = "running" ~> run[r].status \in Terminal
=============================================================================
