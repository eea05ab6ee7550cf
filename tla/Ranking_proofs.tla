--------------------------- MODULE Ranking_proofs ---------------------------
(***************************************************************************)
(* Proofs about Ranking, for any number of workers, operators, runs and     *)
(* brawlers, any batch size, any values and any change of the catalog.      *)
(* Types, and that no snapshot has a brawler twice, hold always; that what  *)
(* the site shows is whole needs the protocol's hypothesis SliceFitsTTL.    *)
(***************************************************************************)
EXTENDS Ranking, Workflow_proofs

\* Every step of the job is a step of the protocol, or leaves it alone.
LEMMA RankStepIsStep == [RankNext]_vars => [Next]_wfVars
<1> SUFFICES ASSUME [RankNext]_vars PROVE [Next]_wfVars
  OBVIOUS
<1>1. ASSUME NEW w \in Worker, JobStep(w)
      PROVE  [Next]_wfVars
  <2>1. CASE Housekeeping(w)
    BY <2>1 DEF Housekeeping, Next, Step
  <2>2. CASE Claim(w) \/ GiveUp(w) \/ WriteFirstCursor(w) \/ MissingCursor(w)
    BY <2>2 DEF Claim, GiveUp, WriteFirstCursor, MissingCursor, Next, Step
  <2>3. CASE \E r \in RunId : Load(w, r)
    BY <2>3 DEF Load, Next, Step
  <2>4. CASE Advance(w) \/ InsertBatch(w) \/ \E v \in Value : FinalizeCandidate(w, v)
    BY <2>4 DEF Advance, InsertBatch, FinalizeCandidate, Next, Step
  <2>5. CASE CreateRankingRun(w) \/ Decide(w) \/ Record(w) \/ Publish(w)
    BY <2>5 DEF CreateRankingRun, Decide, Record, Publish
  <2>6. CASE FinishJob(w)
    <3>1. \E status \in Terminal : Finish(w, status)
      BY <2>6 DEF FinishJob, Terminal
    <3> QED
      BY <3>1 DEF Next, Step
  <2>7. CASE Reject(w)
    BY <2>7 DEF Reject, Next
  <2> QED
    BY <1>1, <2>1, <2>2, <2>3, <2>4, <2>5, <2>6, <2>7 DEF JobStep
<1>2. CASE \E w \in Worker : Fail(w)
  BY <1>2 DEF Fail, Next
<1>3. CASE \/ \E o \in Operator : OperatorStep(o)
           \/ \E b \in Volatile : CatalogChange(b)
           \/ GetReady
  BY <1>3 DEF OperatorStep, Validate, Approve, NotApproved, CatalogChange, GetReady
<1>4. CASE Time
  BY <1>4 DEF Time, Next
<1>5. CASE UNCHANGED vars
  BY <1>5 DEF vars
<1> QED
  BY <1>1, <1>2, <1>3, <1>4, <1>5 DEF RankNext

-----------------------------------------------------------------------------
(* Types *)

Candidate == [phase : Phase, pos : 0..NBrawlers, value : Value \cup {0},
              rows : [Scope -> [Brawler -> Nat]]]
RunRecord == [status : {"none", "running", "succeeded", "held"},
              hold : {"none", "mass_movement_guard", "no_significant_change"},
              evaluated : Nat, published : Nat]
Snapshot == [is : {"none", "current", "superseded"}, items : SUBSET Brawler,
             by : {"nobody", "job", "operator"}]
Reading == [phase : Phase, pos : 0..NBrawlers, batch : SUBSET Brawler,
            plan : Plan, recorded : BOOLEAN]

\* The parts of the type invariant that are about the job.
JobTypes ==
  /\ ready \in BOOLEAN
  /\ active \in SUBSET Brawler
  /\ job \in [RunId -> Candidate]
  /\ rr \in [RunId -> RunRecord]
  /\ snap \in [RunId -> Snapshot]
  /\ slice \in [Worker -> Reading]
  /\ approving \in [Operator -> 0..MaxRuns]
  /\ steady \in [RunId -> SUBSET Brawler]

LEMMA RankTypes == RankTypeOK <=> TypeOK /\ JobTypes
BY DEF RankTypeOK, JobTypes, Candidate, RunRecord, Snapshot, Reading

\* The brawlers are finitely many.
LEMMA BrawlersFinite == \A S \in SUBSET Brawler : IsFiniteSet(S)
<1>1. IsFiniteSet(Brawler)
  BY RankingAssumption, FS_Interval DEF Brawler
<1> QED
  BY <1>1, FS_Subset

\* A batch is above the cursor and leaves out no active brawler below its end;
\* it is empty only when no active brawler is left.
LEMMA BatchIsNext ==
  ASSUME active \subseteq Brawler, NEW pos \in 0..NBrawlers
  PROVE  /\ BatchAfter(pos) \subseteq Brawler
         /\ \A b \in BatchAfter(pos) : b > pos
         /\ \A a \in active, b \in BatchAfter(pos) :
              pos < a /\ a <= b => a \in BatchAfter(pos)
         /\ BatchAfter(pos) = {} => \A a \in active : a <= pos
<1>1. IsFiniteSet(active) /\ active \in SUBSET Nat /\ active \subseteq Brawler
  BY BrawlersFinite DEF Brawler
<1>2. BatchAfter(pos) = FirstAbove(active, BatchSize, pos)
  BY DEF BatchAfter, FirstAbove
<1>3. BatchSize \in Nat \ {0} /\ pos \in Nat
  BY RankingAssumption
<1>4. /\ FirstAbove(active, BatchSize, pos) \subseteq active
      /\ \A b \in FirstAbove(active, BatchSize, pos) : b > pos
      /\ \A a \in active, b \in FirstAbove(active, BatchSize, pos) :
           pos < a /\ a <= b => a \in FirstAbove(active, BatchSize, pos)
      /\ FirstAbove(active, BatchSize, pos) = {} => \A a \in active : a <= pos
  BY <1>1, <1>3, BatchIsFirstAbove
<1> QED
  BY <1>1, <1>2, <1>4

\* The counts in a ranking_runs row are numbers.
LEMMA OverallRowsType ==
  ASSUME job \in [RunId -> Candidate], NEW r \in RunId
  PROVE  OverallRows(r) \in Nat
<1>1. IsFiniteSet(Brawler)
  BY BrawlersFinite
<1>2. "brawlers" \in Scope
  BY DEF Scope
<1>3. job[r].rows["brawlers"] \in [Brawler -> Nat]
  BY <1>2 DEF Candidate
<1>4. Cardinality(UNION {{b} \X (1..job[r].rows["brawlers"][b]) : b \in Brawler}) \in Nat
  <2> DEFINE f == job[r].rows["brawlers"]
  <2>1. f \in [Brawler -> Nat]
    BY <1>3
  <2> HIDE DEF f
  <2>2. Cardinality(UNION {{b} \X (1..f[b]) : b \in Brawler}) \in Nat
    BY <1>1, <2>1, CopiesCounted
  <2> QED
    BY <2>2 DEF f
<1> QED
  BY <1>4 DEF OverallRows

LEMMA PublishableType ==
  ASSUME NEW r
  PROVE  Publishable(r) \in SUBSET Brawler /\ Cardinality(Publishable(r)) \in Nat
<1>1. Publishable(r) \in SUBSET Brawler
  BY DEF Publishable
<1> QED
  BY <1>1, BrawlersFinite, FS_CardinalityType

LEMMA InitRankTypeOK == RankInit => RankTypeOK
<1> SUFFICES ASSUME RankInit PROVE RankTypeOK
  OBVIOUS
<1>1. TypeOK
  BY InitTypeOK DEF RankInit
<1>2. 0 \in 0..NBrawlers /\ "brawlers" \in Phase /\ "done" \in Phase
  BY RankingAssumption DEF Phase, Scope
<1>3. NoCandidate \in Candidate
  BY <1>2 DEF NoCandidate, Candidate
<1>4. NoRecord \in RunRecord /\ NoSnapshot \in Snapshot
  BY DEF NoRecord, NoSnapshot, RunRecord, Snapshot
<1>5. NoSlice \in Reading
  BY <1>2 DEF NoSlice, Reading, Plan
<1>6. 0 \in 0..MaxRuns
  BY WorkflowAssumption
<1>7. JobTypes
  BY <1>3, <1>4, <1>5, <1>6 DEF RankInit, JobTypes
<1> QED
  BY <1>1, <1>7, RankTypes

\* A slice that has ended keeps nothing of what it read.
LEMMA NoSliceType == NoSlice \in Reading
BY RankingAssumption DEF NoSlice, Reading, Plan, Phase, Scope

\* A publication, in which at most the run's own row need not be in the table.
LEMMA PublicationTypes ==
  ASSUME JobTypes, NEW r \in RunId, NEW by \in {"job", "operator"},
         NEW hold \in {"none", "mass_movement_guard"}, NEW evaluated \in Nat,
         Publication(r, by, hold, evaluated)
  PROVE  rr' \in [RunId -> RunRecord] /\ snap' \in [RunId -> Snapshot]
<1>1. NewSnapshot(r, by) \in Snapshot
  BY PublishableType DEF NewSnapshot, Snapshot
<1>2. \A p \in RunId : Superseded(p) \in Snapshot
  BY DEF Superseded, JobTypes, Snapshot
<1>3. [status |-> "succeeded", hold |-> hold, evaluated |-> evaluated,
       published |-> Cardinality(Publishable(r))] \in RunRecord
  BY PublishableType DEF RunRecord
<1> QED
  BY <1>1, <1>2, <1>3 DEF Publication, JobTypes

\* Outside the table of runs a publication changes no record.
LEMMA PublicationOfRun ==
  ASSUME JobTypes, NEW r \in 0..MaxRuns, NEW by \in {"job", "operator"},
         NEW hold \in {"none", "mass_movement_guard"}, NEW evaluated,
         r \in RunId => evaluated \in Nat,
         Publication(r, by, hold, evaluated)
  PROVE  rr' \in [RunId -> RunRecord] /\ snap' \in [RunId -> Snapshot]
<1>1. CASE r \in RunId
  BY <1>1, PublicationTypes
<1>2. CASE r \notin RunId
  <2>1. rr' = rr
    BY <1>2 DEF Publication, JobTypes
  <2>2. \A p \in RunId : Superseded(p) \in Snapshot
    BY DEF Superseded, JobTypes, Snapshot
  <2> QED
    BY <1>2, <2>1, <2>2 DEF Publication, JobTypes
<1> QED
  BY <1>1, <1>2

\* The transactions that write candidates.
LEMMA CandidateTypes ==
  ASSUME TypeOK, JobTypes, NEW w \in Worker,
         \/ Advance(w) \/ InsertBatch(w) \/ FinishJob(w)
         \/ \E v \in Value : FinalizeCandidate(w, v)
  PROVE  job' \in [RunId -> Candidate]
<1> USE DEF JobTypes
<1>0. PICK r : r = mine[w]
  OBVIOUS
<1>1. slice[w] \in Reading /\ 0 \in 0..NBrawlers
  BY RankingAssumption
<1>2. CASE Advance(w)
  <2>1. NextPhase[slice[w].phase] \in Phase
    BY <1>2 DEF Advance, NextPhase, Phase, Scope
  <2>2. ASSUME NEW q \in RunId
        PROVE  job'[q] = job[q] \/
               job'[q] = [job[q] EXCEPT !.phase = NextPhase[slice[w].phase], !.pos = 0]
    BY <1>2 DEF Advance
  <2>3. ASSUME NEW q \in RunId
        PROVE  job'[q] \in Candidate
    <3>1. job[q] \in Candidate
      OBVIOUS
    <3>2. [job[q] EXCEPT !.phase = NextPhase[slice[w].phase], !.pos = 0] \in Candidate
      BY <1>1, <2>1, <3>1 DEF Candidate
    <3> QED
      BY <2>2, <3>1, <3>2
  <2> QED
    BY <1>2, <2>3 DEF Advance
<1>3. CASE InsertBatch(w)
  <2> DEFINE s == slice[w].phase
             batch == slice[w].batch
  <2>1. s \in Scope /\ s \in Phase /\ batch # {} /\ batch \subseteq Brawler
    BY <1>1, <1>3 DEF InsertBatch, Reading
  <2>2. Max(batch) \in 0..NBrawlers
    <3>1. batch \subseteq 0..NBrawlers
      BY <2>1, RankingAssumption DEF Brawler
    <3> HIDE DEF batch
    <3> QED
      BY <2>1, <3>1, GreatestIsMax, RankingAssumption
  <2>3. job' = [job EXCEPT ![r].phase = s, ![r].pos = Max(batch),
                           ![r].rows[s] = WithRows(@, batch)]
    BY <1>0, <1>3 DEF InsertBatch
  <2> HIDE DEF s, batch
  <2>4. ASSUME NEW q \in RunId
        PROVE  job'[q] \in Candidate
    <3>1. job[q] \in Candidate /\ job[q].rows[s] \in [Brawler -> Nat]
      BY <2>1 DEF Candidate
    <3>2. WithRows(job[q].rows[s], batch) \in [Brawler -> Nat]
      BY <3>1 DEF WithRows
    <3>3. [job[q] EXCEPT !.phase = s, !.pos = Max(batch),
                         !.rows = [job[q].rows EXCEPT ![s] = WithRows(job[q].rows[s], batch)]]
             \in Candidate
      BY <2>1, <2>2, <3>1, <3>2 DEF Candidate
    <3>4. job'[q] = IF q = r
                    THEN [job[q] EXCEPT !.phase = s, !.pos = Max(batch),
                            !.rows = [job[q].rows EXCEPT ![s] = WithRows(job[q].rows[s], batch)]]
                    ELSE job[q]
      BY <2>3, <3>1 DEF Candidate
    <3> QED
      BY <3>1, <3>3, <3>4
  <2> QED
    BY <2>3, <2>4
<1>4. ASSUME NEW v \in Value, FinalizeCandidate(w, v)
      PROVE  job' \in [RunId -> Candidate]
  <2>1. ASSUME NEW q \in RunId
        PROVE  job'[q] = job[q] \/
               job'[q] = [job[q] EXCEPT !.phase = "publish", !.pos = 0, !.value = v]
    BY <1>4 DEF FinalizeCandidate
  <2>2. \A q \in RunId :
          [job[q] EXCEPT !.phase = "publish", !.pos = 0, !.value = v] \in Candidate
    BY ZenonT(30), <1>1 DEF Candidate, Phase
  <2>3. \A q \in RunId : job'[q] \in Candidate
    BY <2>1, <2>2
  <2> QED
    BY <1>4, <2>3 DEF FinalizeCandidate
<1>5. CASE FinishJob(w)
  <2>1. ASSUME NEW q \in RunId
        PROVE  job'[q] = job[q] \/ job'[q] = [job[q] EXCEPT !.phase = "done"]
    BY <1>5 DEF FinishJob
  <2>2. \A q \in RunId : [job[q] EXCEPT !.phase = "done"] \in Candidate
    BY DEF Candidate, Phase
  <2>3. \A q \in RunId : job'[q] \in Candidate
    BY <2>1, <2>2
  <2> QED
    BY <1>5, <2>3 DEF FinishJob
<1> QED
  BY <1>2, <1>3, <1>4, <1>5

LEMMA WorkerTypes ==
  ASSUME TypeOK, JobTypes, NEW w \in Worker, JobStep(w) \/ Fail(w)
  PROVE  JobTypes'
<1> USE DEF JobTypes
<1>0. mine[w] \in 0..MaxRuns /\ slice[w] \in Reading
  BY DEF TypeOK
<1>1. ASSUME slice' = [slice EXCEPT ![w] = NoSlice]
      PROVE  slice' \in [Worker -> Reading]
  BY <1>1, NoSliceType
<1>2. CASE Housekeeping(w) \/ GiveUp(w) \/ WriteFirstCursor(w) \/ MissingCursor(w)
  BY <1>2 DEF Housekeeping, GiveUp, WriteFirstCursor, MissingCursor, jobVars
<1>3. CASE Claim(w)
  BY <1>3 DEF Claim
<1>4. CASE CreateRankingRun(w)
  <2>1. \A q \in RunId : rr'[q] = rr[q] \/ rr'[q] = [rr[q] EXCEPT !.status = "running"]
    BY <1>4 DEF CreateRankingRun
  <2>2. \A q \in RunId : [rr[q] EXCEPT !.status = "running"] \in RunRecord
    BY DEF RunRecord
  <2>3. \A q \in RunId : rr'[q] \in RunRecord
    BY <2>1, <2>2
  <2>4. rr' \in [RunId -> RunRecord]
    BY <1>4, <2>3 DEF CreateRankingRun
  <2> QED
    BY <1>4, <2>4 DEF CreateRankingRun
<1>5. ASSUME NEW r \in RunId, Load(w, r)
      PROVE  JobTypes'
  <2>1. job[r].phase \in Phase /\ job[r].pos \in 0..NBrawlers
    BY DEF Candidate
  <2>2. (IF job[r].phase \in Scope THEN BatchAfter(job[r].pos) ELSE {}) \in SUBSET Brawler
    BY <2>1, BatchIsNext
  <2>3. [NoSlice EXCEPT !.phase = job[r].phase, !.pos = job[r].pos,
           !.batch = IF job[r].phase \in Scope THEN BatchAfter(job[r].pos) ELSE {}] \in Reading
    BY <2>1, <2>2 DEF NoSlice, Reading, Plan
  <2>4. slice' \in [Worker -> Reading]
    BY <1>5, <2>3 DEF Load
  <2> QED
    BY <1>5, <2>4 DEF Load
<1>6. CASE Advance(w) \/ InsertBatch(w) \/ FinishJob(w)
           \/ \E v \in Value : FinalizeCandidate(w, v)
  BY <1>1, <1>6, CandidateTypes DEF Advance, InsertBatch, FinishJob, FinalizeCandidate
<1>7. CASE Decide(w)
  <2>1. PlanFor(mine[w]) \in Plan
    BY DEF PlanFor, Plan
  <2>2. [slice[w] EXCEPT !.plan = PlanFor(mine[w])] \in Reading
    BY <1>0, <2>1 DEF Reading
  <2>3. slice' = [slice EXCEPT ![w] = [slice[w] EXCEPT !.plan = PlanFor(mine[w])]]
    BY <1>7 DEF Decide
  <2>4. slice' \in [Worker -> Reading]
    BY <2>2, <2>3
  <2> QED
    BY <1>7, <2>4 DEF Decide
<1>8. ASSUME slice' = [slice EXCEPT ![w].recorded = TRUE]
      PROVE  slice' \in [Worker -> Reading]
  <2>1. [slice[w] EXCEPT !.recorded = TRUE] \in Reading
    BY <1>0 DEF Reading
  <2> QED
    BY <1>8, <2>1
<1>9. CASE Record(w)
  <2>1. ASSUME NEW q \in RunId
        PROVE  rr'[q] \in RunRecord
    <3> DEFINE plan == slice[w].plan
               record == [status |-> IF plan = "hold" THEN "held" ELSE "succeeded",
                          hold |-> HoldReason[plan],
                          evaluated |-> OverallRows(mine[w]), published |-> 0]
    <3>1. plan \in {"hold", "no_change"}
      BY <1>9 DEF Record
    <3>2. HoldReason[plan] \in {"mass_movement_guard", "no_significant_change"}
      BY <3>1 DEF HoldReason
    <3>3. rr'[q] = IF q = mine[w] THEN record ELSE rr[q]
      BY <1>9 DEF Record
    <3>4. q = mine[w] => OverallRows(mine[w]) \in Nat
      BY OverallRowsType
    <3> QED
      BY <3>2, <3>3, <3>4 DEF RunRecord
  <2>2. rr' \in [RunId -> RunRecord]
    BY <1>9, <2>1 DEF Record
  <2> QED
    BY <1>8, <1>9, <2>2 DEF Record
<1>10. CASE Publish(w)
  <2>1. mine[w] \in RunId => OverallRows(mine[w]) \in Nat
    BY OverallRowsType
  <2>2. rr' \in [RunId -> RunRecord] /\ snap' \in [RunId -> Snapshot]
    BY <1>0, <1>10, <2>1, PublicationOfRun DEF Publish
  <2> QED
    BY <1>8, <1>10, <2>2 DEF Publish
<1>11. CASE Reject(w) \/ Fail(w)
  BY <1>1, <1>11 DEF Reject, Fail
<1> QED
  BY <1>2, <1>3, <1>4, <1>5, <1>6, <1>7, <1>9, <1>10, <1>11 DEF JobStep

LEMMA OperatorTypes ==
  ASSUME JobTypes, NEW o \in Operator, OperatorStep(o)
  PROVE  JobTypes'
<1> USE WorkflowAssumption DEF JobTypes
<1>1. ASSUME NEW r \in RunId, Validate(o, r)
      PROVE  JobTypes'
  BY <1>1 DEF Validate, RunId
<1>2. CASE Approve(o)
  <2>1. PICK r : r = approving[o] /\ r \in 0..MaxRuns
    OBVIOUS
  <2>2. r \in RunId => rr[r].evaluated \in Nat
    BY DEF RunRecord
  <2>3. rr' \in [RunId -> RunRecord] /\ snap' \in [RunId -> Snapshot]
    BY <1>2, <2>1, <2>2, PublicationOfRun DEF Approve
  <2> QED
    BY <1>2, <2>3 DEF Approve
<1>3. CASE NotApproved(o)
  BY <1>3 DEF NotApproved
<1> QED
  BY <1>1, <1>2, <1>3 DEF OperatorStep

LEMMA RankNextTypeOK == RankTypeOK /\ [RankNext]_vars => RankTypeOK'
<1> SUFFICES ASSUME RankTypeOK, [RankNext]_vars PROVE RankTypeOK'
  OBVIOUS
<1>1. TypeOK /\ JobTypes
  BY RankTypes
<1>2. TypeOK'
  BY <1>1, RankStepIsStep, NextTypeOK
<1>3. JobTypes'
  <2>1. CASE \E w \in Worker : JobStep(w) \/ Fail(w)
    BY <1>1, <2>1, WorkerTypes
  <2>2. CASE \E o \in Operator : OperatorStep(o)
    BY <1>1, <2>2, OperatorTypes
  <2>3. CASE \E b \in Volatile : CatalogChange(b)
    BY <1>1, <2>3, RankingAssumption DEF CatalogChange, JobTypes
  <2>4. CASE GetReady \/ Time \/ UNCHANGED vars
    BY <1>1, <2>4 DEF GetReady, Time, vars, jobVars, JobTypes
  <2> QED
    BY <2>1, <2>2, <2>3, <2>4 DEF RankNext
<1>4. RankTypeOK' <=> TypeOK' /\ JobTypes'
  BY DEF RankTypeOK, JobTypes, Candidate, RunRecord, Snapshot, Reading
<1> QED
  BY <1>2, <1>3, <1>4

\* The variables of the job have their types, with slices of any length.
THEOREM RankTypeCorrect == RankSpec => []RankTypeOK
  BY InitRankTypeOK, RankNextTypeOK, PTL DEF RankSpec

-----------------------------------------------------------------------------
(***************************************************************************)
(* The inductive invariant.  Nothing is recorded, held or published of a    *)
(* candidate before it is complete, and nothing writes one that is; so what *)
(* was published stays what is in the tables.  A slice's own record is still *)
(* there when it finishes its run, whatever an operator did in between.     *)
(***************************************************************************)
\* The candidate of a run is complete: it has all its rows and a value.
Scored(r) == job[r].phase \in {"publish", "done"}

\* A run that has not started has left no trace.
Untouched ==
  \A r \in RunId : r > nruns =>
    job[r] = NoCandidate /\ rr[r] = NoRecord /\ snap[r] = NoSnapshot

SteadyAreActive == \A r \in 1..nruns : steady[r] \subseteq active

\* Behind the cursor every brawler that was active throughout has its row, ahead
\* of it nobody has one, and nobody has two.
Behind(r, s, b) ==
  \/ job[r].phase = "finalize" \/ Scored(r)
  \/ s = "brawlers" /\ job[r].phase = "matchups"
  \/ s = job[r].phase /\ b <= job[r].pos
RowsFollowCursor ==
  \A r \in 1..nruns, s \in Scope, b \in Brawler :
    /\ job[r].rows[s][b] <= 1
    /\ IF Behind(r, s, b) THEN b \in steady[r] => job[r].rows[s][b] = 1
                          ELSE job[r].rows[s][b] = 0
ScoredHasValue == \A r \in RunId : Scored(r) => job[r].value # 0

\* Only complete candidates are recorded, validated or published.
JudgedIsScored ==
  \A r \in RunId :
    rr[r].status \in {"succeeded", "held"} \/ r \in Published \/ (\E o \in Operator : approving[o] = r)
      => Scored(r)

\* What is published is the candidate, which stays as it is.
ItemsAreCandidate == \A r \in Published : snap[r].items = Publishable(r)
OneCurrent ==
  /\ \A p, r \in Current : p = r
  /\ Published # {} => Current # {}

\* The run of a slice has been started and has not ended, unless as stale.
Busy == {"started", "missing", "work"}
SliceIsOpen ==
  \A w \in Worker : pc[w] \in Busy =>
    mine[w] \in 1..nruns /\ run[mine[w]].status \in {"running", "failed"}

\* What a slice has recorded is there when it finishes its run, although an
\* operator may have published the run in between.
HeldIn(r) == rr[r].status = "held" \/ r \in Published
SucceededIn(r) ==
  rr[r].status = "succeeded" /\ (r \in Published \/ rr[r].hold = "no_significant_change")
SliceIsCurrent ==
  \A w \in Worker :
    IF pc[w] = "work"
    THEN LET r == mine[w]
         IN  /\ slice[w].phase = job[r].phase /\ slice[w].pos = job[r].pos
             /\ slice[w].plan # "none" => Scored(r)
             /\ slice[w].recorded =>
                  /\ slice[w].plan # "none"
                  /\ IF slice[w].plan = "hold" THEN HeldIn(r) ELSE SucceededIn(r)
    ELSE slice[w].plan = "none" /\ ~slice[w].recorded
BatchIsCurrent ==
  \A w \in Worker : pc[w] = "work" /\ slice[w].phase \in Scope =>
    /\ \A b \in slice[w].batch : b > slice[w].pos
    /\ \A b \in steady[mine[w]] :
         b > slice[w].pos /\ (slice[w].batch = {} \/ \E c \in slice[w].batch : b <= c)
           => b \in slice[w].batch

CandidateInv == Untouched /\ SteadyAreActive /\ RowsFollowCursor /\ ScoredHasValue
SiteInv == JudgedIsScored /\ ItemsAreCandidate /\ OneCurrent /\ OutcomeRecorded
SliceInv == SliceIsOpen /\ SliceIsCurrent /\ BatchIsCurrent

RankJobInv == WorkflowInv /\ RankTypeOK /\ CandidateInv /\ SiteInv /\ SliceInv

LEMMA InitRankJobInv == RankInit => RankJobInv
<1> SUFFICES ASSUME RankInit PROVE RankJobInv
  OBVIOUS
<1>1. WorkflowInv /\ RankTypeOK
  BY InitInv, InitRankTypeOK DEF RankInit
<1>2. nruns = 0 /\ 1..nruns = {} /\ \A w \in Worker : pc[w] = "idle"
  BY DEF RankInit, Init
<1>3. Untouched /\ ScoredHasValue
  BY DEF RankInit, Untouched, ScoredHasValue, Scored, NoCandidate
<1>4. SteadyAreActive /\ RowsFollowCursor
  BY <1>2 DEF SteadyAreActive, RowsFollowCursor
<1>5. Published = {} /\ Current = {}
  BY DEF RankInit, NoSnapshot, Published, Current
<1>6. ItemsAreCandidate /\ OneCurrent
  BY <1>5 DEF ItemsAreCandidate, OneCurrent
<1>7. JudgedIsScored
  BY <1>5 DEF RankInit, JudgedIsScored, NoRecord, RunId
<1>8. OutcomeRecorded
  BY DEF RankInit, Init, Absent, OutcomeRecorded
<1>9. SliceInv
  BY <1>2 DEF RankInit, NoSlice, SliceInv, SliceIsOpen, SliceIsCurrent, BatchIsCurrent, Busy
<1> QED
  BY <1>1, <1>3, <1>4, <1>6, <1>7, <1>8, <1>9 DEF RankJobInv, CandidateInv, SiteInv

-----------------------------------------------------------------------------
\* A step that writes no candidate, no record and no snapshot, gives up runs at
\* most and gives no worker new work, keeps what there is to keep, whatever
\* happens to the catalog.
RankQuiet ==
  /\ UNCHANGED <<nruns, job, rr, snap>>
  /\ \A r \in RunId :
       \/ run'[r].status = run[r].status
       \/ run[r].status = "running" /\ run'[r].status = "failed"
  /\ \A o \in Operator : approving'[o] \in {0, approving[o]}
  /\ \A r \in RunId : steady'[r] \subseteq steady[r]
  /\ \A r \in 1..nruns : steady'[r] \subseteq active'
  /\ \A w \in Worker : pc'[w] \in Busy => pc'[w] = pc[w] /\ mine'[w] = mine[w]
  /\ \A w \in Worker :
       IF pc'[w] = "work" THEN slice'[w] = slice[w]
       ELSE slice'[w].plan = "none" /\ ~slice'[w].recorded

LEMMA QuietKeeps ==
  ASSUME TypeOK, CandidateInv, SiteInv, SliceInv, RankQuiet
  PROVE  CandidateInv' /\ SiteInv' /\ SliceInv'
<1> USE StartedRuns DEF RankQuiet, CandidateInv, SiteInv, SliceInv
<1>1. Untouched' /\ SteadyAreActive' /\ ScoredHasValue'
  BY DEF Untouched, SteadyAreActive, ScoredHasValue, Scored
<1>2. RowsFollowCursor'
  <2>1. \A r \in 1..nruns, s \in Scope, b \in Brawler : Behind(r, s, b)' <=> Behind(r, s, b)
    BY DEF Behind, Scored
  <2> QED
    BY <2>1 DEF RowsFollowCursor
<1>3. Published' = Published /\ Current' = Current
      /\ \A r : Publishable(r)' = Publishable(r) /\ (Scored(r)' <=> Scored(r))
  BY DEF Published, Current, Publishable, Scored
<1>4. ItemsAreCandidate' /\ OneCurrent'
  BY <1>3 DEF ItemsAreCandidate, OneCurrent
<1>5. JudgedIsScored'
  <2>1. \A r \in RunId, o \in Operator : approving'[o] = r => approving[o] = r
    BY DEF RunId
  <2> QED
    BY <1>3, <2>1 DEF JudgedIsScored
<1>6. OutcomeRecorded'
  BY <1>3 DEF OutcomeRecorded
<1>7. SliceIsOpen'
  BY DEF SliceIsOpen
<1>8. SliceIsCurrent'
  BY <1>3 DEF SliceIsCurrent, HeldIn, SucceededIn, Busy
<1>9. BatchIsCurrent'
  <2> SUFFICES ASSUME NEW w \in Worker, pc'[w] = "work", slice'[w].phase \in Scope
               PROVE  /\ \A b \in slice'[w].batch : b > slice'[w].pos
                      /\ \A b \in steady'[mine'[w]] :
                           b > slice'[w].pos /\ (slice'[w].batch = {} \/ \E c \in slice'[w].batch : b <= c)
                             => b \in slice'[w].batch
    BY DEF BatchIsCurrent
  <2>1. pc[w] = "work" /\ mine'[w] = mine[w] /\ slice'[w] = slice[w] /\ mine[w] \in RunId
    BY DEF SliceIsOpen, Busy
  <2>2. steady'[mine[w]] \subseteq steady[mine[w]]
    BY <2>1
  <2> QED
    BY <2>1, <2>2 DEF BatchIsCurrent
<1> QED
  BY <1>1, <1>2, <1>4, <1>5, <1>6, <1>7, <1>8, <1>9

\* Housekeeping, runs given up, failures, rejections, time, the catalog and
\* operators who do not approve are quiet.
LEMMA QuietSteps ==
  ASSUME RankTypeOK, SteadyAreActive, SliceIsOpen, SliceIsCurrent,
         \/ \E w \in Worker : \/ Housekeeping(w) \/ GiveUp(w) \/ WriteFirstCursor(w)
                              \/ MissingCursor(w) \/ Reject(w) \/ Fail(w)
         \/ \E o \in Operator : NotApproved(o)
         \/ \E b \in Volatile : CatalogChange(b)
         \/ GetReady \/ Time \/ UNCHANGED vars
  PROVE  RankQuiet
<1>0. TypeOK /\ JobTypes
  BY RankTypes
<1> USE <1>0, StartedRuns DEF Busy
\* The workers' part of it, for steps that leave the job alone,
<1>1. ASSUME UNCHANGED jobVars, nruns' = nruns,
             \A r \in RunId : \/ run'[r].status = run[r].status
                              \/ run[r].status = "running" /\ run'[r].status = "failed",
             \A w \in Worker : pc'[w] \in Busy => pc'[w] = pc[w] /\ mine'[w] = mine[w],
             \A w \in Worker : pc[w] = "work" => pc'[w] = "work"
      PROVE  RankQuiet
  BY <1>1 DEF jobVars, RankQuiet, JobTypes, SteadyAreActive, SliceIsCurrent
\* and for those that end a slice.
<1>2. ASSUME NEW w \in Worker, Abort(w) \/ Crash(w),
             slice' = [slice EXCEPT ![w] = NoSlice],
             UNCHANGED <<ready, active, job, rr, snap, approving, steady>>
      PROVE  RankQuiet
  <2>1. nruns' = nruns /\ run' = run /\ pc'[w] \notin Busy
    BY <1>2 DEF Abort, Crash, TypeOK
  <2>2. \A v \in Worker : v # w => pc'[v] = pc[v] /\ mine'[v] = mine[v] /\ slice'[v] = slice[v]
    BY <1>2 DEF Abort, Crash, TypeOK, JobTypes
  <2>3. slice'[w].plan = "none" /\ ~slice'[w].recorded
    BY <1>2 DEF NoSlice, JobTypes
  <2>4. \A v \in Worker : pc'[v] \in Busy => pc'[v] = pc[v] /\ mine'[v] = mine[v]
    BY <2>1, <2>2
  <2>5. \A v \in Worker : IF pc'[v] = "work" THEN slice'[v] = slice[v]
                          ELSE slice'[v].plan = "none" /\ ~slice'[v].recorded
    BY <2>1, <2>2, <2>3 DEF SliceIsCurrent
  <2>6. \A r \in 1..nruns : steady'[r] \subseteq active'
    BY <1>2 DEF SteadyAreActive
  <2> QED
    BY <1>2, <2>1, <2>4, <2>5, <2>6 DEF RankQuiet, JobTypes
<1>3. ASSUME NEW w \in Worker, Housekeeping(w)
      PROVE  RankQuiet
  <2>1. UNCHANGED jobVars /\ nruns' = nruns
    BY <1>3 DEF Housekeeping, Begin, Reclaim, Acquire, Refused, LoadNone, Release, NextSlice
  <2>2. ASSUME NEW r \in RunId
        PROVE  \/ run'[r].status = run[r].status
               \/ run[r].status = "running" /\ run'[r].status = "failed"
    <3>1. ASSUME NEW q \in RunId, Reclaim(w, q)
          PROVE  run'[r].status = run[r].status
                 \/ (run[r].status = "running" /\ run'[r].status = "failed")
      BY <3>1 DEF Reclaim, TypeOK, Run
    <3>2. run' = run \/ \E q \in RunId : Reclaim(w, q)
      BY SMTT(60), <1>3 DEF Housekeeping, Begin, Acquire, Refused, LoadNone, Release, NextSlice
    <3> QED
      BY <3>1, <3>2
  <2>3. ASSUME NEW v \in Worker
        PROVE  /\ pc'[v] \in Busy => pc'[v] = pc[v] /\ mine'[v] = mine[v]
               /\ pc[v] = "work" => pc'[v] = "work"
    BY <1>3
    DEF Housekeeping, Begin, Reclaim, Acquire, Refused, LoadNone, Release, NextSlice,
        Goto, TypeOK, Rests, OutOfRuns
  <2> QED
    BY SMTT(60), <1>1, <2>1, <2>2, <2>3
<1>4. ASSUME NEW w \in Worker, GiveUp(w) \/ MissingCursor(w)
      PROVE  RankQuiet
  <2>1. PICK err \in ErrorSummary :
          UNCHANGED jobVars /\ nruns' = nruns /\ run' = Completed(run, mine[w], "failed", err)
    BY <1>4 DEF GiveUp, MissingCursor, FailStart, FailMissing, ErrorSummary
  <2>2. run[mine[w]].status \in {"running", "failed"}
    BY <1>4 DEF GiveUp, MissingCursor, FailStart, FailMissing, Goto, SliceIsOpen
  <2>3. ASSUME NEW r \in RunId
        PROVE  \/ run'[r].status = run[r].status
               \/ run[r].status = "running" /\ run'[r].status = "failed"
    BY <2>1, <2>2 DEF Completed, TypeOK, Run
  <2>4. ASSUME NEW v \in Worker
        PROVE  /\ pc'[v] \in Busy => pc'[v] = pc[v] /\ mine'[v] = mine[v]
               /\ pc[v] = "work" => pc'[v] = "work"
    BY <1>4 DEF GiveUp, MissingCursor, FailStart, FailMissing, Goto, TypeOK
  <2> QED
    BY <1>1, <2>1, <2>3, <2>4
<1>5. ASSUME NEW w \in Worker, WriteFirstCursor(w)
      PROVE  RankQuiet
  <2>1. \A r \in RunId : run'[r].status = run[r].status
    BY <1>5 DEF WriteFirstCursor, FirstCursor, WithCursor, TypeOK, Run
  <2>2. ASSUME NEW v \in Worker
        PROVE  /\ pc'[v] \in Busy => pc'[v] = pc[v] /\ mine'[v] = mine[v]
               /\ pc[v] = "work" => pc'[v] = "work"
    BY <1>5 DEF WriteFirstCursor, FirstCursor, Goto, TypeOK
  <2> QED
    BY <1>1, <1>5, <2>1, <2>2 DEF WriteFirstCursor, FirstCursor
<1>6. ASSUME NEW w \in Worker, Reject(w) \/ Fail(w)
      PROVE  RankQuiet
  BY <1>2, <1>6 DEF Reject, Fail
<1>7. ASSUME NEW o \in Operator, NotApproved(o)
      PROVE  RankQuiet
  BY <1>7 DEF NotApproved, wfVars, RankQuiet, JobTypes, SteadyAreActive, SliceIsCurrent
<1>8. ASSUME NEW b \in Volatile, CatalogChange(b)
      PROVE  RankQuiet
  <2>1. UNCHANGED <<wfVars, job, rr, snap, slice, approving>>
    BY <1>8 DEF CatalogChange
  <2>2. \A r \in RunId : steady'[r] = steady[r] \ {b}
    BY <1>8 DEF CatalogChange
  <2>3. active \ {b} \subseteq active'
    BY <1>8 DEF CatalogChange
  <2>4. ASSUME NEW r \in 1..nruns
        PROVE  steady'[r] \subseteq active'
    BY <2>2, <2>3 DEF SteadyAreActive
  <2> QED
    BY <2>1, <2>2, <2>4 DEF RankQuiet, wfVars, SliceIsCurrent
<1>9. CASE GetReady
  BY <1>9 DEF GetReady, wfVars, RankQuiet, JobTypes, SteadyAreActive, SliceIsCurrent
<1>10. CASE Time
  <2>1. \A r \in RunId : run'[r].status = run[r].status
    BY <1>10 DEF Time, Tick, TypeOK, Run
  <2> QED
    BY <1>1, <1>10, <2>1 DEF Time, Tick
<1>11. CASE UNCHANGED vars
  BY <1>1, <1>11 DEF vars, wfVars
<1> QED
  BY <1>3, <1>4, <1>5, <1>6, <1>7, <1>8, <1>9, <1>10, <1>11

-----------------------------------------------------------------------------
(* A run starts and is read *)

\* With a TTL that fits, a worker that enters or leaves its work is the only one.
LEMMA OthersNotBusy ==
  ASSUME MutualExclusion, NEW w \in Worker, InSlice(w), NEW v \in Worker, v # w
  PROVE  pc[v] \notin Busy
BY DEF MutualExclusion, InSlice, Holding, Busy

\* A claim starts a run of which nothing is known yet.
LEMMA ClaimKeeps ==
  ASSUME RankJobInv, MutualExclusion, NEW w \in Worker, Claim(w)
  PROVE  CandidateInv' /\ SiteInv' /\ SliceInv'
<1>0. TypeOK /\ JobTypes
  BY RankTypes DEF RankJobInv
<1> USE <1>0, StartedRuns DEF RankJobInv, WorkflowInv, CandidateInv, SiteInv, SliceInv
<1>1. PICK n : n = nruns + 1
  OBVIOUS
<1>2. /\ pc[w] = "claim" /\ nruns' = n /\ n \in RunId
      /\ UNCHANGED <<ready, active, job, rr, snap, slice, approving>>
  BY <1>1, WorkflowAssumption DEF Claim, StartRun, Goto, RunId
<1>3. ASSUME NEW r \in RunId, r # n
      PROVE  run'[r] = run[r] /\ steady'[r] = steady[r]
  BY <1>1, <1>3 DEF Claim, StartRun, TypeOK
<1>4. run'[n].status = "running" /\ steady'[n] = active
  BY <1>1, <1>2 DEF Claim, StartRun, TypeOK, JobTypes, Started
<1>5. job[n] = NoCandidate /\ rr[n] = NoRecord /\ snap[n] = NoSnapshot
  BY <1>1, <1>2 DEF Untouched
<1>6. \A r \in 1..nruns' : r = n \/ (r # n /\ r \in 1..nruns /\ r \in RunId)
  BY <1>1, <1>2
<1>7. Untouched' /\ ScoredHasValue'
  BY <1>1, <1>2 DEF Untouched, ScoredHasValue, Scored
<1>8. SteadyAreActive'
  BY <1>2, <1>3, <1>4, <1>6 DEF SteadyAreActive
<1>9. RowsFollowCursor'
  <2> SUFFICES ASSUME NEW r \in 1..nruns', NEW s \in Scope, NEW b \in Brawler
               PROVE  /\ job'[r].rows[s][b] <= 1
                      /\ IF Behind(r, s, b)' THEN b \in steady'[r] => job'[r].rows[s][b] = 1
                         ELSE job'[r].rows[s][b] = 0
    BY DEF RowsFollowCursor
  <2>1. CASE r = n
    <3>1. ~Behind(r, s, b)'
      BY <1>2, <1>5, <2>1, RankingAssumption DEF Behind, Scored, NoCandidate, Brawler, Scope
    <3> QED
      BY <1>2, <1>5, <2>1, <3>1 DEF NoCandidate
  <2>2. CASE r # n
    <3>1. Behind(r, s, b)' <=> Behind(r, s, b)
      BY <1>2 DEF Behind, Scored
    <3> QED
      BY <1>2, <1>3, <1>6, <2>2, <3>1 DEF RowsFollowCursor
  <2> QED
    BY <2>1, <2>2
<1>10. Published' = Published /\ Current' = Current
       /\ \A r : Publishable(r)' = Publishable(r) /\ (Scored(r)' <=> Scored(r))
  BY <1>2 DEF Published, Current, Publishable, Scored
<1>11. ItemsAreCandidate' /\ OneCurrent' /\ JudgedIsScored'
  BY <1>2, <1>10 DEF ItemsAreCandidate, OneCurrent, JudgedIsScored
<1>12. OutcomeRecorded'
  BY <1>2, <1>3, <1>4, <1>10 DEF OutcomeRecorded
<1>13. /\ pc'[w] = "started" /\ mine'[w] = n
       /\ \A v \in Worker : v # w => pc'[v] \notin Busy
  <2>1. \A v \in Worker : v # w => pc[v] \notin Busy /\ pc'[v] = pc[v]
    BY <1>2, OthersNotBusy DEF InSlice, Holding, Claim, StartRun, Goto, TypeOK
  <2> QED
    BY <1>1, <2>1 DEF Claim, StartRun, Goto, TypeOK
<1>14. SliceIsOpen'
  BY <1>1, <1>2, <1>4, <1>13 DEF SliceIsOpen
<1>15. \A v \in Worker : pc'[v] # "work" /\ pc[v] # "work"
  BY <1>2, <1>13, OthersNotBusy DEF Busy, InSlice, Holding
<1>16. SliceIsCurrent' /\ BatchIsCurrent'
  BY <1>2, <1>15 DEF SliceIsCurrent, BatchIsCurrent
<1> QED
  BY <1>7, <1>8, <1>9, <1>11, <1>12, <1>14, <1>16

\* Candidates, statuses and snapshots stay, and so does what is said of them,
\* when only slices and records of runs that nobody has judged change.
LEMMA TablesKept ==
  ASSUME TypeOK, CandidateInv, SiteInv,
         UNCHANGED <<nruns, run, active, job, snap, approving, steady>>,
         \A r \in RunId : \/ rr'[r] = rr[r]
                          \/ /\ r <= nruns /\ run[r].status \notin {"held", "succeeded"}
                             /\ rr'[r].status \in {"succeeded", "held"} => Scored(r)
  PROVE  CandidateInv' /\ SiteInv'
<1> USE StartedRuns DEF CandidateInv, SiteInv
<1>1. Untouched' /\ SteadyAreActive' /\ ScoredHasValue'
  <2>1. \A r \in RunId : r > nruns => rr'[r] = rr[r]
    BY DEF RunId
  <2> QED
    BY <2>1 DEF Untouched, SteadyAreActive, ScoredHasValue, Scored
<1>2. RowsFollowCursor'
  <2>1. \A r, s, b : Behind(r, s, b)' <=> Behind(r, s, b)
    BY DEF Behind, Scored
  <2> QED
    BY <2>1 DEF RowsFollowCursor
<1>3. Published' = Published /\ Current' = Current
      /\ \A r : Publishable(r)' = Publishable(r) /\ (Scored(r)' <=> Scored(r))
  BY DEF Published, Current, Publishable, Scored
<1>4. ItemsAreCandidate' /\ OneCurrent'
  BY <1>3 DEF ItemsAreCandidate, OneCurrent
<1>5. JudgedIsScored'
  BY <1>3 DEF JudgedIsScored
<1>6. OutcomeRecorded'
  BY <1>3 DEF OutcomeRecorded
<1> QED
  BY <1>1, <1>2, <1>4, <1>5, <1>6

LEMMA CreateKeeps ==
  ASSUME RankJobInv, MutualExclusion, NEW w \in Worker, CreateRankingRun(w)
  PROVE  CandidateInv' /\ SiteInv' /\ SliceInv'
<1>0. TypeOK /\ JobTypes
  BY RankTypes DEF RankJobInv
<1> USE <1>0, StartedRuns DEF RankJobInv, SliceInv
<1>1. PICK n : n = mine[w]
  OBVIOUS
<1>2. n \in 1..nruns /\ run[n].status \in {"running", "failed"} /\ n \in RunId
  BY <1>1 DEF CreateRankingRun, SliceIsOpen, Busy
<1>3. \A r \in RunId : rr'[r] = rr[r] \/ (r = n /\ rr'[r].status = "running")
  BY <1>1 DEF CreateRankingRun, JobTypes, RunRecord
<1>4. UNCHANGED <<wfVars, ready, active, job, snap, slice, approving, steady>>
  BY DEF CreateRankingRun
<1>5. CandidateInv' /\ SiteInv'
  BY <1>2, <1>3, <1>4, TablesKept DEF wfVars
<1>6. SliceIsOpen'
  BY <1>4 DEF SliceIsOpen, wfVars
<1>7. \A v \in Worker : pc[v] # "work"
  BY OthersNotBusy DEF CreateRankingRun, InSlice, Holding, Busy
<1>8. SliceIsCurrent' /\ BatchIsCurrent'
  BY <1>4, <1>7 DEF SliceIsCurrent, BatchIsCurrent, wfVars
<1> QED
  BY <1>5, <1>6, <1>8

\* A slice that begins has read the cursor and the next batch of its run.
LEMMA LoadKeeps ==
  ASSUME RankJobInv, MutualExclusion, NEW w \in Worker, NEW r \in RunId, Load(w, r)
  PROVE  CandidateInv' /\ SiteInv' /\ SliceInv'
<1>0. TypeOK /\ JobTypes
  BY RankTypes DEF RankJobInv
<1> USE <1>0, StartedRuns DEF RankJobInv, WorkflowInv, SliceInv
<1>1. UNCHANGED <<nruns, run, active, job, rr, snap, approving, steady>>
  BY DEF Load, LoadRun
<1>2. CandidateInv' /\ SiteInv'
  BY <1>1, TablesKept
<1>3. r \in 1..nruns /\ run[r].status = "running"
  BY DEF Load, LoadRun, IsLatestRunning, RunningIsNewest, Running, RunId
<1>4. /\ pc[w] = "load" /\ mine'[w] = r
      /\ pc'[w] = "work" \/ pc'[w] = "missing"
      /\ pc'[w] = "work" <=> run[r].cursor
      /\ \A v \in Worker : v # w => pc'[v] = pc[v] /\ slice'[v] = slice[v]
  BY DEF Load, LoadRun, Goto, TypeOK, JobTypes
<1>5. \A v \in Worker : v # w => pc[v] \notin Busy
  BY <1>4, OthersNotBusy DEF InSlice, Holding
<1>6. SliceIsOpen'
  BY <1>1, <1>3, <1>4, <1>5 DEF SliceIsOpen
<1>7. slice'[w] = IF run[r].cursor
                  THEN [NoSlice EXCEPT !.phase = job[r].phase, !.pos = job[r].pos,
                          !.batch = IF job[r].phase \in Scope
                                    THEN BatchAfter(job[r].pos) ELSE {}]
                  ELSE slice[w]
  BY DEF Load, JobTypes
<1>8. pc'[w] = "work" =>
        /\ slice'[w].phase = job[r].phase /\ slice'[w].pos = job[r].pos
        /\ slice'[w].plan = "none" /\ ~slice'[w].recorded
        /\ job[r].phase \in Scope => slice'[w].batch = BatchAfter(job[r].pos)
  BY <1>4, <1>7 DEF NoSlice
<1>9. pc'[w] # "work" => slice'[w] = slice[w]
  BY <1>4, <1>7
<1>10. SliceIsCurrent'
  <2> SUFFICES ASSUME NEW v \in Worker
               PROVE  IF pc'[v] = "work"
                      THEN /\ slice'[v].phase = job[mine'[v]].phase
                           /\ slice'[v].pos = job[mine'[v]].pos
                           /\ slice'[v].plan = "none" /\ ~slice'[v].recorded
                      ELSE slice'[v].plan = "none" /\ ~slice'[v].recorded
    BY <1>1 DEF SliceIsCurrent
  <2>1. CASE v = w
    BY <1>4, <1>8, <1>9, <2>1 DEF SliceIsCurrent
  <2>2. CASE v # w
    BY <1>4, <1>5, <2>2 DEF SliceIsCurrent, Busy
  <2> QED
    BY <2>1, <2>2
<1>11. BatchIsCurrent'
  <2> SUFFICES ASSUME NEW v \in Worker, pc'[v] = "work", slice'[v].phase \in Scope
               PROVE  /\ \A b \in slice'[v].batch : b > slice'[v].pos
                      /\ \A b \in steady[mine'[v]] :
                           b > slice'[v].pos /\ (slice'[v].batch = {} \/ \E c \in slice'[v].batch : b <= c)
                             => b \in slice'[v].batch
    BY <1>1 DEF BatchIsCurrent
  <2>1. v = w
    BY <1>4, <1>5 DEF Busy
  <2> DEFINE pos == job[r].pos
  <2>2. pos \in 0..NBrawlers /\ active \subseteq Brawler
    BY DEF JobTypes, Candidate
  <2>3. steady[r] \subseteq active
    BY <1>3 DEF CandidateInv, SteadyAreActive
  <2>4. slice'[w].pos = pos /\ slice'[w].batch = BatchAfter(pos) /\ mine'[w] = r
    BY <1>4, <1>8, <2>1
  <2> HIDE DEF pos
  <2>5. \A b \in BatchAfter(pos) : b > pos
    BY <2>2, BatchIsNext
  <2>6. \A a \in active, b \in BatchAfter(pos) : pos < a /\ a <= b => a \in BatchAfter(pos)
    BY <2>2, BatchIsNext
  <2>7. BatchAfter(pos) = {} => \A a \in active : a <= pos
    BY <2>2, BatchIsNext
  <2>8. pos \in Int /\ \A a \in active : a \in Int
    BY <2>2, RankingAssumption DEF Brawler
  <2> QED
    BY <2>1, <2>3, <2>4, <2>5, <2>6, <2>7, <2>8
<1> QED
  BY <1>2, <1>6, <1>10, <1>11

-----------------------------------------------------------------------------
(* The candidate is written *)

\* When the one slice there is ends, nobody is at work.
LEMMA SliceEnds ==
  ASSUME TypeOK, JobTypes, MutualExclusion, SliceIsCurrent, NEW w \in Worker, NEW to,
         Goto(w, "work", to), to \notin Busy, slice' = [slice EXCEPT ![w] = NoSlice]
  PROVE  SliceInv'
<1>1. \A v \in Worker : v # w => pc[v] \notin Busy
  BY OthersNotBusy DEF Goto, InSlice, Holding
<1>2. \A v \in Worker : pc'[v] \notin Busy
  BY <1>1 DEF Goto, TypeOK
<1>3. \A v \in Worker : slice'[v].plan = "none" /\ ~slice'[v].recorded
  BY <1>1 DEF JobTypes, NoSlice, SliceIsCurrent, Busy
<1> QED
  BY <1>2, <1>3 DEF SliceInv, SliceIsOpen, SliceIsCurrent, BatchIsCurrent, Busy

\* A transaction writes the candidate of one run, which nobody has judged: the
\* invariant only has to be looked at for that one.
LEMMA CandidateWritten ==
  ASSUME TypeOK, JobTypes, CandidateInv, SiteInv, NEW r \in 1..nruns, ~Scored(r),
         UNCHANGED <<nruns, active, rr, snap, approving, steady>>,
         \A q \in RunId : run'[q].status = run[q].status,
         \A q \in RunId : q # r => job'[q] = job[q],
         Scored(r)' => job'[r].value # 0,
         \A s \in Scope, b \in Brawler :
           /\ job'[r].rows[s][b] <= 1
           /\ IF Behind(r, s, b)' THEN b \in steady[r] => job'[r].rows[s][b] = 1
              ELSE job'[r].rows[s][b] = 0
  PROVE  CandidateInv' /\ SiteInv'
<1> USE StartedRuns DEF CandidateInv, SiteInv
<1>1. Untouched' /\ SteadyAreActive' /\ ScoredHasValue'
  <2>1. \A q \in RunId : q > nruns => q # r
    BY DEF RunId
  <2>2. Untouched' /\ SteadyAreActive'
    BY <2>1 DEF Untouched, SteadyAreActive
  <2>3. \A q \in RunId : q # r => (Scored(q)' <=> Scored(q))
    BY DEF Scored
  <2> QED
    BY <2>2, <2>3 DEF ScoredHasValue
<1>2. RowsFollowCursor'
  <2> SUFFICES ASSUME NEW q \in 1..nruns, NEW s \in Scope, NEW b \in Brawler
               PROVE  /\ job'[q].rows[s][b] <= 1
                      /\ IF Behind(q, s, b)' THEN b \in steady[q] => job'[q].rows[s][b] = 1
                         ELSE job'[q].rows[s][b] = 0
    BY DEF RowsFollowCursor
  <2>1. CASE q = r
    BY <2>1
  <2>2. CASE q # r
    <3>1. job'[q] = job[q]
      BY <2>2
    <3>2. Behind(q, s, b)' <=> Behind(q, s, b)
      BY <3>1 DEF Behind, Scored
    <3> QED
      BY <3>1, <3>2 DEF RowsFollowCursor
  <2> QED
    BY <2>1, <2>2
<1>3. Published' = Published /\ Current' = Current /\ r \notin Published
  BY DEF Published, Current, JudgedIsScored
<1>4. \A q \in RunId : q # r => Publishable(q)' = Publishable(q) /\ (Scored(q)' <=> Scored(q))
  BY DEF Publishable, Scored
<1>5. ItemsAreCandidate' /\ OneCurrent'
  BY <1>3, <1>4 DEF ItemsAreCandidate, OneCurrent, Published
<1>6. JudgedIsScored'
  BY <1>3, <1>4 DEF JudgedIsScored
<1>7. OutcomeRecorded'
  BY <1>3 DEF OutcomeRecorded
<1> QED
  BY <1>1, <1>2, <1>5, <1>6, <1>7

\* What a slice that writes its candidate knows of it.
LEMMA AtWork ==
  ASSUME TypeOK, SliceInv, NEW w \in Worker, pc[w] = "work", NEW r, r = mine[w],
         slice[w].phase \notin {"publish", "done"}
  PROVE  /\ r \in 1..nruns /\ r \in RunId /\ ~Scored(r)
         /\ slice[w].phase = job[r].phase /\ slice[w].pos = job[r].pos
BY StartedRuns DEF SliceInv, SliceIsOpen, SliceIsCurrent, Busy, Scored

LEMMA AdvanceKeeps ==
  ASSUME RankJobInv, MutualExclusion, NEW w \in Worker, Advance(w)
  PROVE  CandidateInv' /\ SiteInv' /\ SliceInv'
<1>0. TypeOK /\ JobTypes
  BY RankTypes DEF RankJobInv
<1> USE <1>0, StartedRuns DEF RankJobInv
<1> DEFINE s == slice[w].phase
<1>1. PICK r : r = mine[w]
  OBVIOUS
<1>2. /\ s \in Scope /\ slice[w].batch = {} /\ Progress(w) /\ pc[w] = "work"
      /\ UNCHANGED <<nruns, active, rr, snap, approving, steady>>
  BY DEF Advance, Progress, Goto
<1>3. SliceInv'
  BY <1>2, SliceEnds DEF Advance, Progress, SliceInv, Busy
<1>4. /\ r \in 1..nruns /\ r \in RunId /\ ~Scored(r)
      /\ s = job[r].phase /\ slice[w].pos = job[r].pos
  BY <1>1, <1>2, AtWork DEF Scope
<1>5. \A b \in steady[r] : ~(b > job[r].pos)
  BY <1>1, <1>2, <1>4 DEF SliceInv, BatchIsCurrent
<1>6. /\ \A q \in RunId : q # r => job'[q] = job[q]
      /\ job'[r].phase = NextPhase[s] /\ job'[r].pos = 0
      /\ job'[r].rows = job[r].rows
  BY <1>1, <1>4 DEF Advance, JobTypes, Candidate
<1>7. \A q \in RunId : run'[q].status = run[q].status
  BY <1>2, ProgressKeepsStatus
<1> HIDE DEF s
<1>8. ~Scored(r)'
  BY <1>2, <1>6 DEF Scored, NextPhase, Scope
<1>9. ASSUME NEW t \in Scope, NEW b \in Brawler
      PROVE  /\ job'[r].rows[t][b] <= 1
             /\ IF Behind(r, t, b)' THEN b \in steady[r] => job'[r].rows[t][b] = 1
                ELSE job'[r].rows[t][b] = 0
  <2>1. job'[r].rows[t][b] = job[r].rows[t][b] /\ job[r].rows[t][b] <= 1
    BY <1>4, <1>6 DEF CandidateInv, RowsFollowCursor
  <2>2. IF Behind(r, t, b) THEN b \in steady[r] => job[r].rows[t][b] = 1
        ELSE job[r].rows[t][b] = 0
    BY <1>4 DEF CandidateInv, RowsFollowCursor
  <2>3. b \in steady[r] => b <= job[r].pos
    BY <1>4, <1>5, RankingAssumption DEF JobTypes, Candidate, Brawler
  <2>4. ~(b <= 0)
    BY DEF Brawler
  <2>5. CASE s = "brawlers"
    BY <1>4, <1>6, <1>8, <2>1, <2>2, <2>3, <2>4, <2>5 DEF Behind, NextPhase, Scope
  <2>6. CASE s = "matchups"
    BY <1>4, <1>6, <1>8, <2>1, <2>2, <2>3, <2>4, <2>6 DEF Behind, NextPhase, Scope
  <2> QED
    BY <1>2, <2>5, <2>6 DEF Scope
<1>10. CandidateInv' /\ SiteInv'
  BY <1>2, <1>4, <1>6, <1>7, <1>8, <1>9, CandidateWritten
<1> QED
  BY <1>3, <1>10

LEMMA InsertKeeps ==
  ASSUME RankJobInv, MutualExclusion, NEW w \in Worker, InsertBatch(w)
  PROVE  CandidateInv' /\ SiteInv' /\ SliceInv'
<1>0. TypeOK /\ JobTypes
  BY RankTypes DEF RankJobInv
<1> USE <1>0, StartedRuns DEF RankJobInv
<1> DEFINE s == slice[w].phase
           batch == slice[w].batch
<1>1. PICK r : r = mine[w]
  OBVIOUS
<1>2. /\ s \in Scope /\ batch # {} /\ batch \subseteq Brawler /\ Progress(w) /\ pc[w] = "work"
      /\ UNCHANGED <<nruns, active, rr, snap, approving, steady>>
  BY DEF InsertBatch, Progress, Goto, JobTypes, Reading
<1>3. SliceInv'
  BY <1>2, SliceEnds DEF InsertBatch, Progress, SliceInv, Busy
<1>4. /\ r \in 1..nruns /\ r \in RunId /\ ~Scored(r)
      /\ s = job[r].phase /\ slice[w].pos = job[r].pos
  BY <1>1, <1>2, AtWork DEF Scope
<1>5. /\ \A b \in batch : b > job[r].pos
      /\ \A b \in steady[r] : b > job[r].pos /\ (\E c \in batch : b <= c) => b \in batch
  BY <1>1, <1>2, <1>4 DEF SliceInv, BatchIsCurrent
<1>6. PICK top : top = Max(batch) /\ top \in batch /\ \A b \in batch : top >= b
  <2>1. batch \subseteq 0..NBrawlers
    BY <1>2, RankingAssumption DEF Brawler
  <2> HIDE DEF batch
  <2> QED
    BY <1>2, <2>1, GreatestIsMax, RankingAssumption
<1>7. job' = [job EXCEPT ![r].phase = s, ![r].pos = top, ![r].rows[s] = WithRows(@, batch)]
  BY <1>1, <1>6 DEF InsertBatch
<1>8. \A q \in RunId : run'[q].status = run[q].status
  BY <1>2, ProgressKeepsStatus
<1> HIDE DEF s, batch
<1>9. /\ \A q \in RunId : q # r => job'[q] = job[q]
      /\ job'[r].phase = s /\ job'[r].pos = top
      /\ job'[r].rows = [job[r].rows EXCEPT ![s] = WithRows(job[r].rows[s], batch)]
  BY <1>2, <1>4, <1>7 DEF JobTypes, Candidate
<1>10. ~Scored(r)'
  BY <1>4, <1>9 DEF Scored
<1>11. ASSUME NEW t \in Scope, NEW b \in Brawler
       PROVE  /\ job'[r].rows[t][b] <= 1
              /\ IF Behind(r, t, b)' THEN b \in steady[r] => job'[r].rows[t][b] = 1
                 ELSE job'[r].rows[t][b] = 0
  <2>1. job[r].rows[t][b] \in Nat /\ job[r].rows \in [Scope -> [Brawler -> Nat]]
    BY <1>4 DEF JobTypes, Candidate
  <2>2. /\ job[r].rows[t][b] <= 1
        /\ IF Behind(r, t, b) THEN b \in steady[r] => job[r].rows[t][b] = 1
           ELSE job[r].rows[t][b] = 0
    BY <1>4 DEF CandidateInv, RowsFollowCursor
  <2>3. job'[r].rows[t][b] = IF t = s /\ b \in batch THEN job[r].rows[t][b] + 1
                             ELSE job[r].rows[t][b]
    BY <1>2, <1>9, <2>1 DEF WithRows
  <2>4. b \in Int /\ top \in Int /\ job[r].pos \in Int
    BY <1>2, <1>4, <1>6, RankingAssumption DEF JobTypes, Candidate, Brawler
  <2>5. CASE t # s
    <3>1. Behind(r, t, b)' <=> Behind(r, t, b)
      BY <1>4, <1>9, <1>10, <2>5 DEF Behind
    <3> QED
      BY <2>2, <2>3, <2>5, <3>1
  <2>6. CASE t = s
    <3>1. Behind(r, t, b)' <=> b <= top
      BY <1>2, <1>9, <1>10, <2>6 DEF Behind, Scope
    <3>2. Behind(r, t, b) <=> b <= job[r].pos
      BY <1>2, <1>4, <2>6 DEF Behind, Scope
    <3>3. CASE b \in batch
      <4>1. b > job[r].pos /\ b <= top
        BY <1>5, <1>6, <2>4, <3>3
      <4>2. job[r].rows[t][b] = 0
        BY <2>2, <2>4, <2>6, <3>2, <4>1
      <4> QED
        BY <2>3, <2>6, <3>1, <3>3, <4>1, <4>2
    <3>4. CASE b \notin batch
      <4>1. top > job[r].pos
        BY <1>5, <1>6
      <4>2. b \in steady[r] /\ b <= top => b <= job[r].pos
        BY <1>5, <1>6, <2>4, <3>4
      <4> QED
        BY <2>2, <2>3, <2>4, <3>1, <3>2, <3>4, <4>1, <4>2
    <3> QED
      BY <3>3, <3>4
  <2> QED
    BY <2>5, <2>6
<1>12. CandidateInv' /\ SiteInv'
  BY <1>2, <1>4, <1>8, <1>9, <1>10, <1>11, CandidateWritten
<1> QED
  BY <1>3, <1>12

LEMMA FinalizeKeeps ==
  ASSUME RankJobInv, MutualExclusion, NEW w \in Worker, NEW v \in Value, FinalizeCandidate(w, v)
  PROVE  CandidateInv' /\ SiteInv' /\ SliceInv'
<1>0. TypeOK /\ JobTypes
  BY RankTypes DEF RankJobInv
<1> USE <1>0, StartedRuns DEF RankJobInv
<1>1. PICK r : r = mine[w]
  OBVIOUS
<1>2. /\ slice[w].phase = "finalize" /\ Progress(w) /\ pc[w] = "work"
      /\ UNCHANGED <<nruns, active, rr, snap, approving, steady>>
  BY DEF FinalizeCandidate, Progress, Goto
<1>3. SliceInv'
  BY <1>2, SliceEnds DEF FinalizeCandidate, Progress, SliceInv, Busy
<1>4. r \in 1..nruns /\ r \in RunId /\ ~Scored(r) /\ job[r].phase = "finalize"
  BY <1>1, <1>2, AtWork
<1>5. /\ \A q \in RunId : q # r => job'[q] = job[q]
      /\ job'[r].phase = "publish" /\ job'[r].value = v
      /\ job'[r].rows = job[r].rows
  BY <1>1, <1>4 DEF FinalizeCandidate, JobTypes, Candidate
<1>6. \A q \in RunId : run'[q].status = run[q].status
  BY <1>2, ProgressKeepsStatus
<1>7. v # 0
  BY RankingAssumption
<1>8. \A t \in Scope, b \in Brawler : Behind(r, t, b) /\ Behind(r, t, b)'
  BY <1>4, <1>5 DEF Behind, Scored
<1>9. ASSUME NEW t \in Scope, NEW b \in Brawler
      PROVE  /\ job'[r].rows[t][b] <= 1
             /\ IF Behind(r, t, b)' THEN b \in steady[r] => job'[r].rows[t][b] = 1
                ELSE job'[r].rows[t][b] = 0
  BY <1>4, <1>5, <1>8 DEF CandidateInv, RowsFollowCursor
<1>10. CandidateInv' /\ SiteInv'
  BY <1>2, <1>4, <1>5, <1>6, <1>7, <1>9, CandidateWritten
<1> QED
  BY <1>3, <1>10


-----------------------------------------------------------------------------
(* The candidate is judged *)

\* A plan is made of a complete candidate.
LEMMA DecideKeeps ==
  ASSUME RankJobInv, MutualExclusion, NEW w \in Worker, Decide(w)
  PROVE  CandidateInv' /\ SiteInv' /\ SliceInv'
<1>0. TypeOK /\ JobTypes
  BY RankTypes DEF RankJobInv
<1> USE <1>0, StartedRuns DEF RankJobInv, SliceInv
<1>1. PICK plan : plan = PlanFor(mine[w])
  OBVIOUS
<1>2. /\ pc[w] = "work" /\ slice[w].phase \in {"publish", "done"}
      /\ UNCHANGED <<wfVars, ready, active, job, rr, snap, approving, steady>>
      /\ slice' = [slice EXCEPT ![w].plan = plan]
  BY <1>1 DEF Decide
<1>3. CandidateInv' /\ SiteInv'
  BY <1>2, TablesKept DEF wfVars
<1>4. SliceIsOpen'
  BY <1>2 DEF SliceIsOpen, wfVars
<1>5. \A v \in Worker :
        /\ slice'[v].phase = slice[v].phase /\ slice'[v].pos = slice[v].pos
        /\ slice'[v].batch = slice[v].batch /\ slice'[v].recorded = slice[v].recorded
        /\ v # w => slice'[v] = slice[v]
  BY <1>2 DEF JobTypes, Reading
<1>6. ~slice[w].recorded /\ Scored(mine[w])
  BY <1>2 DEF Decide, SliceIsCurrent, Scored
<1>7. SliceIsCurrent'
  <2> SUFFICES ASSUME NEW v \in Worker
               PROVE  IF pc[v] = "work"
                      THEN /\ slice'[v].phase = job[mine[v]].phase
                           /\ slice'[v].pos = job[mine[v]].pos
                           /\ slice'[v].plan # "none" => Scored(mine[v])
                           /\ slice'[v].recorded =>
                                /\ slice'[v].plan # "none"
                                /\ IF slice'[v].plan = "hold" THEN HeldIn(mine[v])
                                                              ELSE SucceededIn(mine[v])
                      ELSE slice'[v].plan = "none" /\ ~slice'[v].recorded
    BY <1>2 DEF SliceIsCurrent, HeldIn, SucceededIn, Scored, Published, wfVars
  <2> QED
    BY <1>2, <1>5, <1>6 DEF SliceIsCurrent
<1>8. BatchIsCurrent'
  BY <1>2, <1>5 DEF BatchIsCurrent, wfVars
<1> QED
  BY <1>3, <1>4, <1>7, <1>8

\* The slice at work marks that it has recorded what became of its run.
LEMMA RecordedKeeps ==
  ASSUME TypeOK, JobTypes, SliceInv, MutualExclusion,
         NEW w \in Worker, pc[w] = "work", slice[w].plan # "none",
         slice' = [slice EXCEPT ![w].recorded = TRUE],
         UNCHANGED <<wfVars, job, steady>>,
         IF slice[w].plan = "hold" THEN HeldIn(mine[w])' ELSE SucceededIn(mine[w])'
  PROVE  SliceInv'
<1> USE DEF SliceInv
<1>1. SliceIsOpen'
  BY DEF SliceIsOpen, wfVars
<1>2. /\ slice'[w].phase = slice[w].phase /\ slice'[w].pos = slice[w].pos
      /\ slice'[w].batch = slice[w].batch /\ slice'[w].plan = slice[w].plan
      /\ \A v \in Worker : v # w => slice'[v] = slice[v] /\ pc[v] # "work"
  BY OthersNotBusy DEF JobTypes, Reading, InSlice, Holding, Busy
<1>3. UNCHANGED <<pc, mine, job, steady>>
  BY DEF wfVars
<1>4. SliceIsCurrent'
  <2> SUFFICES ASSUME NEW v \in Worker
               PROVE  IF pc'[v] = "work"
                      THEN /\ slice'[v].phase = job'[mine'[v]].phase
                           /\ slice'[v].pos = job'[mine'[v]].pos
                           /\ slice'[v].plan # "none" => Scored(mine[v])'
                           /\ slice'[v].recorded =>
                                /\ slice'[v].plan # "none"
                                /\ IF slice'[v].plan = "hold" THEN HeldIn(mine[v])'
                                                              ELSE SucceededIn(mine[v])'
                      ELSE slice'[v].plan = "none" /\ ~slice'[v].recorded
    BY DEF SliceIsCurrent
  <2>1. CASE v = w
    BY <1>2, <1>3, <2>1 DEF SliceIsCurrent, Scored
  <2>2. CASE v # w
    BY <1>2, <1>3, <2>2 DEF SliceIsCurrent
  <2> QED
    BY <2>1, <2>2
<1>5. BatchIsCurrent'
  BY <1>2, <1>3 DEF BatchIsCurrent
<1> QED
  BY <1>1, <1>4, <1>5

\* A hold or a skip.
LEMMA RecordKeeps ==
  ASSUME RankJobInv, MutualExclusion, NEW w \in Worker, Record(w)
  PROVE  CandidateInv' /\ SiteInv' /\ SliceInv'
<1>0. TypeOK /\ JobTypes
  BY RankTypes DEF RankJobInv
<1> USE <1>0, StartedRuns DEF RankJobInv
<1>1. PICK r : r = mine[w]
  OBVIOUS
<1>2. /\ slice[w].plan \in {"hold", "no_change"} /\ slice[w].plan # "none"
      /\ UNCHANGED <<wfVars, ready, active, job, snap, approving, steady>>
  BY DEF Record
<1>3. pc[w] = "work" /\ Scored(r)
  BY <1>1, <1>2 DEF SliceInv, SliceIsCurrent
<1>4. r \in 1..nruns /\ r \in RunId /\ run[r].status \in {"running", "failed"}
  BY <1>1, <1>3 DEF SliceInv, SliceIsOpen, Busy
<1>5. /\ \A q \in RunId : q # r => rr'[q] = rr[q]
      /\ rr'[r].status = (IF slice[w].plan = "hold" THEN "held" ELSE "succeeded")
      /\ slice[w].plan = "no_change" => rr'[r].hold = "no_significant_change"
  BY <1>1, <1>4 DEF Record, JobTypes, HoldReason
<1>6. CandidateInv' /\ SiteInv'
  BY <1>2, <1>3, <1>4, <1>5, TablesKept DEF wfVars
<1>7. IF slice[w].plan = "hold" THEN HeldIn(mine[w])' ELSE SucceededIn(mine[w])'
  BY <1>1, <1>2, <1>5 DEF HeldIn, SucceededIn, wfVars
<1>8. slice' = [slice EXCEPT ![w].recorded = TRUE]
  BY DEF Record
<1>9. SliceInv'
  BY <1>2, <1>3, <1>7, <1>8, RecordedKeeps
<1> QED
  BY <1>6, <1>9

\* A publication, by the job or by an operator, of a complete candidate.
LEMMA PublicationKeeps ==
  ASSUME TypeOK, JobTypes, CandidateInv, SiteInv, NEW r \in RunId, Scored(r),
         NEW by, NEW hold, NEW evaluated,
         CanPublish(r), Publication(r, by, hold, evaluated),
         UNCHANGED <<nruns, run, active, job, steady>>,
         \A o \in Operator : approving'[o] \in {0, approving[o]}
  PROVE  /\ CandidateInv' /\ SiteInv'
         /\ Published' = Published \cup {r} /\ Current' = {r} /\ snap'[r].by = by
         /\ rr'[r].status = "succeeded" /\ \A q \in RunId : q # r => rr'[q] = rr[q]
<1> USE StartedRuns DEF CandidateInv, SiteInv
<1>1. r \in 1..nruns
  BY DEF Untouched, Scored, NoCandidate, RunId, TypeOK
<1>2. /\ snap'[r] = NewSnapshot(r, by)
      /\ \A q \in RunId : q # r => snap'[q] = Superseded(q)
  BY DEF Publication
<1>3. rr'[r].status = "succeeded" /\ \A q \in RunId : q # r => rr'[q] = rr[q]
  BY DEF Publication, JobTypes
<1>4. \A q \in RunId : /\ Superseded(q).is # "current"
                       /\ Superseded(q).is = "none" <=> snap[q].is = "none"
                       /\ Superseded(q).items = snap[q].items
                       /\ snap[q].is = "none" => Superseded(q) = snap[q]
  BY DEF Superseded, Current, JobTypes, Snapshot
<1>5. snap'[r].is = "current" /\ snap'[r].items = Publishable(r) /\ snap'[r].by = by
  BY <1>2 DEF NewSnapshot
<1>6. Published' = Published \cup {r} /\ Current' = {r}
  BY <1>2, <1>4, <1>5 DEF Published, Current
<1>7. \A q : Publishable(q)' = Publishable(q) /\ (Scored(q)' <=> Scored(q))
  BY DEF Publishable, Scored
<1>8. Untouched' /\ SteadyAreActive' /\ ScoredHasValue'
  <2>1. \A q \in RunId : q > nruns => q # r
    BY <1>1 DEF RunId
  <2>2. Untouched'
    BY <1>2, <1>3, <1>4, <2>1 DEF Untouched, NoSnapshot
  <2> QED
    BY <1>7, <2>2 DEF SteadyAreActive, ScoredHasValue
<1>9. RowsFollowCursor'
  <2>1. \A q, s, b : Behind(q, s, b)' <=> Behind(q, s, b)
    BY DEF Behind, Scored
  <2> QED
    BY <2>1 DEF RowsFollowCursor
<1>10. OneCurrent'
  BY <1>6 DEF OneCurrent
<1>11. ItemsAreCandidate'
  <2> SUFFICES ASSUME NEW q \in Published' PROVE snap'[q].items = Publishable(q)
    BY <1>7 DEF ItemsAreCandidate
  <2>1. q = r \/ (q # r /\ q \in Published /\ q \in RunId)
    BY <1>6 DEF Published
  <2> QED
    BY <1>2, <1>4, <1>5, <2>1 DEF ItemsAreCandidate
<1>12. JudgedIsScored'
  <2> SUFFICES ASSUME NEW q \in RunId, q # r,
                      rr'[q].status \in {"succeeded", "held"} \/ q \in Published'
                        \/ (\E o \in Operator : approving'[o] = q)
               PROVE  Scored(q)
    BY <1>7 DEF JudgedIsScored
  <2>1. \A o \in Operator : approving'[o] = q => approving[o] = q
    BY DEF RunId
  <2> QED
    BY <1>3, <1>6, <2>1 DEF JudgedIsScored
<1>13. OutcomeRecorded'
  BY <1>3, <1>6 DEF OutcomeRecorded
<1> QED
  BY <1>3, <1>5, <1>6, <1>8, <1>9, <1>10, <1>11, <1>12, <1>13

LEMMA PublishKeeps ==
  ASSUME RankJobInv, MutualExclusion, NEW w \in Worker, Publish(w)
  PROVE  CandidateInv' /\ SiteInv' /\ SliceInv'
<1>0. TypeOK /\ JobTypes
  BY RankTypes DEF RankJobInv
<1> USE <1>0, StartedRuns DEF RankJobInv
<1>1. PICK r : r = mine[w]
  OBVIOUS
<1>2. /\ slice[w].plan = "publish"
      /\ UNCHANGED <<wfVars, ready, active, job, approving, steady>>
  BY DEF Publish
<1>3. pc[w] = "work" /\ Scored(r)
  BY <1>1, <1>2 DEF SliceInv, SliceIsCurrent
<1>4. r \in RunId
  BY <1>1, <1>3 DEF SliceInv, SliceIsOpen, Busy
<1>5. CanPublish(r) /\ \E ev : Publication(r, "job", "none", ev)
  BY <1>1 DEF Publish
<1>6. /\ CandidateInv' /\ SiteInv'
      /\ Published' = Published \cup {r} /\ rr'[r].status = "succeeded"
  BY <1>2, <1>3, <1>4, <1>5, PublicationKeeps DEF wfVars
<1>7. SucceededIn(mine[w])'
  BY <1>1, <1>2, <1>6 DEF SucceededIn, wfVars
<1>8. slice' = [slice EXCEPT ![w].recorded = TRUE]
  BY DEF Publish
<1>9. SliceInv'
  BY <1>2, <1>3, <1>7, <1>8, RecordedKeeps
<1> QED
  BY <1>6, <1>9

\* An operator publishes a run, whatever a slice is doing with it.
LEMMA ApproveKeeps ==
  ASSUME RankJobInv, NEW o \in Operator, Approve(o)
  PROVE  CandidateInv' /\ SiteInv' /\ SliceInv'
<1>0. TypeOK /\ JobTypes
  BY RankTypes DEF RankJobInv
<1> USE <1>0, StartedRuns, WorkflowAssumption DEF RankJobInv
<1>1. PICK r : r = approving[o]
  OBVIOUS
<1>2. /\ r # 0 /\ CanPublish(r) /\ r \in RunId
      /\ \E ev : Publication(r, "operator", "mass_movement_guard", ev)
      /\ UNCHANGED <<wfVars, ready, active, job, slice, steady>>
      /\ \A p \in Operator : approving'[p] \in {0, approving[p]}
  BY <1>1 DEF Approve, JobTypes, RunId
<1>3. Scored(r)
  BY <1>1, <1>2 DEF SiteInv, JudgedIsScored
<1>4. /\ CandidateInv' /\ SiteInv'
      /\ Published' = Published \cup {r} /\ rr'[r].status = "succeeded"
      /\ \A q \in RunId : q # r => rr'[q] = rr[q]
  BY <1>2, <1>3, PublicationKeeps DEF wfVars
<1>5. SliceIsOpen' /\ BatchIsCurrent'
  BY <1>2 DEF SliceInv, SliceIsOpen, BatchIsCurrent, wfVars
<1>6. \A q \in RunId : (HeldIn(q) => HeldIn(q)') /\ (SucceededIn(q) => SucceededIn(q)')
  BY <1>4 DEF HeldIn, SucceededIn
<1>7. SliceIsCurrent'
  <2> SUFFICES ASSUME NEW v \in Worker, pc[v] = "work"
               PROVE  /\ HeldIn(mine[v]) => HeldIn(mine[v])'
                      /\ SucceededIn(mine[v]) => SucceededIn(mine[v])'
    BY <1>2 DEF SliceInv, SliceIsCurrent, wfVars, Scored
  <2>1. PICK q : q = mine[v]
    OBVIOUS
  <2>2. q \in RunId /\ mine'[v] = mine[v]
    BY <1>2, <2>1 DEF SliceInv, SliceIsOpen, Busy, wfVars
  <2> QED
    BY <1>6, <2>1, <2>2 DEF HeldIn, SucceededIn
<1> QED
  BY <1>4, <1>5, <1>7 DEF SliceInv

\* Only a held run, whose candidate is complete, is validated.
LEMMA ValidateKeeps ==
  ASSUME RankJobInv, NEW o \in Operator, NEW r \in RunId, Validate(o, r)
  PROVE  CandidateInv' /\ SiteInv' /\ SliceInv'
<1>0. TypeOK /\ JobTypes
  BY RankTypes DEF RankJobInv
<1> USE <1>0, StartedRuns DEF RankJobInv, CandidateInv, SiteInv, SliceInv
<1>1. /\ rr[r].status = "held" /\ UNCHANGED <<wfVars, ready, active, job, rr, snap, slice, steady>>
      /\ \A p \in Operator : approving'[p] = r \/ approving'[p] = approving[p]
  BY DEF Validate, JobTypes
<1>2. Published' = Published /\ Current' = Current
      /\ \A q : Publishable(q)' = Publishable(q) /\ (Scored(q)' <=> Scored(q))
  BY <1>1 DEF Published, Current, Publishable, Scored
<1>3. Untouched' /\ SteadyAreActive' /\ ScoredHasValue'
  BY <1>1, <1>2 DEF Untouched, SteadyAreActive, ScoredHasValue, wfVars
<1>4. RowsFollowCursor'
  <2>1. \A q, s, b : Behind(q, s, b)' <=> Behind(q, s, b)
    BY <1>1 DEF Behind, Scored
  <2> QED
    BY <1>1, <2>1 DEF RowsFollowCursor, wfVars
<1>5. ItemsAreCandidate' /\ OneCurrent'
  BY <1>1, <1>2 DEF ItemsAreCandidate, OneCurrent
<1>6. JudgedIsScored'
  BY <1>1, <1>2 DEF JudgedIsScored
<1>7. OutcomeRecorded'
  BY <1>1, <1>2 DEF OutcomeRecorded, wfVars
<1>8. SliceInv'
  BY <1>1, <1>2 DEF SliceIsOpen, SliceIsCurrent, BatchIsCurrent, HeldIn, SucceededIn, wfVars
<1> QED
  BY <1>3, <1>4, <1>5, <1>6, <1>7, <1>8

\* The run ends as its slice has recorded it, operators or not.
LEMMA FinishKeeps ==
  ASSUME RankJobInv, MutualExclusion, NEW w \in Worker, FinishJob(w)
  PROVE  CandidateInv' /\ SiteInv' /\ SliceInv'
<1>0. TypeOK /\ JobTypes
  BY RankTypes DEF RankJobInv
<1> USE <1>0, StartedRuns DEF RankJobInv, CandidateInv, SiteInv
<1>1. PICK r : r = mine[w]
  OBVIOUS
<1>2. /\ slice[w].recorded /\ pc[w] = "work"
      /\ UNCHANGED <<nruns, active, rr, snap, approving, steady>>
  BY DEF FinishJob, Finish, Goto
<1>3. /\ Scored(r) /\ r \in 1..nruns /\ r \in RunId
      /\ IF slice[w].plan = "hold" THEN HeldIn(r) ELSE SucceededIn(r)
  BY <1>1, <1>2 DEF SliceInv, SliceIsOpen, SliceIsCurrent, Busy
<1>4. SliceInv'
  BY <1>2, SliceEnds DEF FinishJob, Finish, SliceInv, Busy
<1>5. /\ \A q \in RunId : q # r => job'[q] = job[q]
      /\ job'[r].phase = "done" /\ job'[r].rows = job[r].rows /\ job'[r].value = job[r].value
  BY <1>1, <1>3 DEF FinishJob, JobTypes, Candidate
<1>6. /\ \A q \in RunId : q # r => run'[q].status = run[q].status
      /\ run'[r].status = (IF slice[w].plan = "hold" THEN "held" ELSE "succeeded")
  <2>1. \A q \in RunId : q # r => WithCursor(r)[q] = run[q]
    BY DEF WithCursor, TypeOK
  <2>2. WithCursor(r) \in [RunId -> Run]
    BY <1>3, WithCursorType DEF TypeOK
  <2> HIDE DEF WithCursor
  <2>3. run' = Completed(WithCursor(r), r, IF slice[w].plan = "hold" THEN "held" ELSE "succeeded", "none")
    BY <1>1 DEF FinishJob, Finish
  <2> QED
    BY <1>3, <2>1, <2>2, <2>3 DEF Completed, Run
<1>7. /\ Published' = Published /\ Current' = Current
      /\ \A q \in RunId : Publishable(q)' = Publishable(q) /\ (Scored(q)' <=> Scored(q))
  <2>1. \A q \in RunId : job'[q].rows = job[q].rows
    BY <1>5
  <2>2. \A q \in RunId : Scored(q)' <=> Scored(q)
    BY <1>3, <1>5 DEF Scored
  <2> QED
    BY <1>2, <2>1, <2>2 DEF Published, Current, Publishable
<1>8. Untouched' /\ SteadyAreActive' /\ ScoredHasValue'
  <2>1. \A q \in RunId : q > nruns => q # r
    BY <1>3 DEF RunId
  <2> QED
    BY <1>2, <1>5, <1>7, <2>1 DEF Untouched, SteadyAreActive, ScoredHasValue
<1>9. RowsFollowCursor'
  <2>1. \A q \in 1..nruns, s \in Scope, b \in Brawler : Behind(q, s, b)' <=> Behind(q, s, b)
    BY <1>3, <1>5 DEF Behind, Scored
  <2>2. \A q \in 1..nruns : job'[q].rows = job[q].rows
    BY <1>5
  <2> QED
    BY <1>2, <2>1, <2>2 DEF RowsFollowCursor
<1>10. ItemsAreCandidate' /\ OneCurrent' /\ JudgedIsScored'
  BY <1>2, <1>7 DEF ItemsAreCandidate, OneCurrent, JudgedIsScored, Published
<1>11. OutcomeRecorded'
  BY <1>2, <1>3, <1>6, <1>7 DEF OutcomeRecorded, HeldIn, SucceededIn
<1> QED
  BY <1>4, <1>8, <1>9, <1>10, <1>11


-----------------------------------------------------------------------------
LEMMA NextRankJobInv ==
  ASSUME SliceFitsTTL, RankJobInv, [RankNext]_vars
  PROVE  RankJobInv'
<1> USE DEF RankJobInv
<1>1. WorkflowInv' /\ RankTypeOK'
  BY RankStepIsStep, NextInv, RankNextTypeOK
<1>2. TypeOK /\ MutualExclusion
  BY LockExcludes DEF WorkflowInv
<1>3. CandidateInv' /\ SiteInv' /\ SliceInv'
  <2>1. ASSUME NEW w \in Worker, JobStep(w)
        PROVE  CandidateInv' /\ SiteInv' /\ SliceInv'
    <3>1. CASE Housekeeping(w) \/ GiveUp(w) \/ WriteFirstCursor(w) \/ MissingCursor(w) \/ Reject(w)
      BY <1>2, <3>1, QuietSteps, QuietKeeps DEF CandidateInv, SliceInv
    <3>2. CASE Claim(w)
      BY <1>2, <3>2, ClaimKeeps
    <3>3. CASE CreateRankingRun(w)
      BY <1>2, <3>3, CreateKeeps
    <3>4. CASE \E r \in RunId : Load(w, r)
      BY <1>2, <3>4, LoadKeeps
    <3>5. CASE Advance(w)
      BY <1>2, <3>5, AdvanceKeeps
    <3>6. CASE InsertBatch(w)
      BY <1>2, <3>6, InsertKeeps
    <3>7. CASE \E v \in Value : FinalizeCandidate(w, v)
      BY <1>2, <3>7, FinalizeKeeps
    <3>8. CASE Decide(w)
      BY <1>2, <3>8, DecideKeeps
    <3>9. CASE Record(w)
      BY <1>2, <3>9, RecordKeeps
    <3>10. CASE Publish(w)
      BY <1>2, <3>10, PublishKeeps
    <3>11. CASE FinishJob(w)
      BY <1>2, <3>11, FinishKeeps
    <3> QED
      BY <2>1, <3>1, <3>2, <3>3, <3>4, <3>5, <3>6, <3>7, <3>8, <3>9, <3>10, <3>11 DEF JobStep
  <2>2. ASSUME NEW o \in Operator, OperatorStep(o)
        PROVE  CandidateInv' /\ SiteInv' /\ SliceInv'
    <3>1. CASE NotApproved(o)
      BY <1>2, <3>1, QuietSteps, QuietKeeps DEF CandidateInv, SliceInv
    <3> QED
      BY <2>2, <3>1, ValidateKeeps, ApproveKeeps DEF OperatorStep
  <2>3. CASE \/ \E w \in Worker : Fail(w)
             \/ \E b \in Volatile : CatalogChange(b)
             \/ GetReady \/ Time \/ UNCHANGED vars
    BY <1>2, <2>3, QuietSteps, QuietKeeps DEF CandidateInv, SliceInv
  <2> QED
    BY <2>1, <2>2, <2>3 DEF RankNext
<1> QED
  BY <1>1, <1>3

LEMMA RankJobInvHolds ==
  ASSUME SliceFitsTTL
  PROVE  RankSpec => []RankJobInv
<1>1. RankJobInv /\ [RankNext]_vars => RankJobInv'
  BY NextRankJobInv
<1> QED
  BY InitRankJobInv, <1>1, PTL DEF RankSpec

LEMMA SiteIsWhole ==
  ASSUME RankJobInv
  PROVE  RankInv
<1> USE DEF RankJobInv, CandidateInv, SiteInv
<1>0. TypeOK /\ JobTypes
  BY RankTypes
<1>1. ASSUME NEW r \in Published
      PROVE  /\ snap[r].items = Publishable(r)
             /\ steady[r] \ BelowFloor \subseteq snap[r].items
             /\ \A s \in Scope, b \in steady[r] : job[r].rows[s][b] = 1
             /\ job[r].value # 0
  <2>1. r \in RunId /\ Scored(r) /\ snap[r].items = Publishable(r)
    BY DEF Published, JudgedIsScored, ItemsAreCandidate
  <2>2. r \in 1..nruns
    BY <1>0, <2>1 DEF Untouched, Scored, NoCandidate, RunId, TypeOK
  <2>3. steady[r] \subseteq Brawler
    BY <1>0, <2>1 DEF JobTypes
  <2>4. \A s \in Scope, b \in steady[r] : job[r].rows[s][b] = 1
    BY <2>1, <2>2, <2>3 DEF RowsFollowCursor, Behind
  <2>5. steady[r] \ BelowFloor \subseteq Publishable(r)
    BY <2>3, <2>4 DEF Publishable, Scope
  <2> QED
    BY <2>1, <2>4, <2>5 DEF ScoredHasValue
<1>2. PublishedIsWhole
  BY <1>1 DEF PublishedIsWhole
<1>3. AlwaysOneCurrent
  <2>1. CASE Published = {}
    <3>1. Current = {}
      BY <2>1 DEF Published, Current
    <3> QED
      BY <2>1, <3>1, FS_EmptySet DEF AlwaysOneCurrent
  <2>2. CASE Published # {}
    <3>1. PICK r \in Current : Current = {r}
      <4>1. PICK r \in Current : TRUE
        BY <2>2 DEF OneCurrent
      <4> QED
        BY <4>1 DEF OneCurrent
    <3>2. Cardinality({r}) = 1
      BY FS_Singleton
    <3> QED
      BY <2>2, <3>1, <3>2 DEF AlwaysOneCurrent
  <2> QED
    BY <2>1, <2>2
<1> QED
  BY <1>2, <1>3 DEF RankInv

\* Whatever the site shows is the whole candidate of its run, there is one such
\* snapshot, and the records say what became of the runs, for any number of runs,
\* workers and operators.
THEOREM RankInvHolds ==
  ASSUME SliceFitsTTL
  PROVE  RankSpec => []RankInv
<1>1. RankJobInv => RankInv
  BY SiteIsWhole
<1> QED
  BY RankJobInvHolds, <1>1, PTL

\* The only steps that change what is current publish a run.
LEMMA PublicationSteps ==
  ASSUME [RankNext]_vars
  PROVE  \/ snap' = snap
         \/ \E w \in Worker : Publish(w)
         \/ \E o \in Operator : Approve(o)
<1>1. ASSUME NEW w \in Worker, JobStep(w), ~Publish(w)
      PROVE  snap' = snap
  BY <1>1
  DEF JobStep, Housekeeping, Claim, GiveUp, CreateRankingRun, WriteFirstCursor, Load,
      MissingCursor, Advance, InsertBatch, FinalizeCandidate, Decide, Record, FinishJob,
      Reject, jobVars
<1>2. ASSUME NEW o \in Operator, OperatorStep(o), ~Approve(o)
      PROVE  snap' = snap
  BY <1>2 DEF OperatorStep, Validate, NotApproved
<1>3. CASE \/ \E w \in Worker : Fail(w)
           \/ \E b \in Volatile : CatalogChange(b)
           \/ GetReady \/ Time \/ UNCHANGED vars
  BY <1>3 DEF Fail, CatalogChange, GetReady, Time, vars, jobVars
<1> QED
  BY SMTT(60), <1>1, <1>2, <1>3 DEF RankNext


\* A publication lets exactly its run appear, with what the candidate has.
LEMMA PublicationAdds ==
  ASSUME JobTypes, NEW r, NEW by, NEW hold, NEW evaluated,
         Publication(r, by, hold, evaluated)
  PROVE  /\ Published' \subseteq Published \cup {r} /\ Current' \subseteq {r}
         /\ r \in Published' => snap'[r].items = Publishable(r) /\ snap'[r].by = by
<1>1. \A q \in RunId : /\ Superseded(q).is # "current"
                       /\ Superseded(q).is = "none" <=> snap[q].is = "none"
  BY DEF Superseded, Current, JobTypes, Snapshot
<1>2. \A q \in RunId : snap'[q] = IF q = r THEN NewSnapshot(r, by) ELSE Superseded(q)
  BY DEF Publication
<1> QED
  BY <1>1, <1>2 DEF Published, Current, NewSnapshot

\* The job goes forward, an operator may go back.
LEMMA GoesBack ==
  ASSUME RankJobInv, [RankNext]_vars,
         NEW p \in Current, NEW r \in Current', r < p
  PROVE  snap'[r].by = "operator"
<1> USE DEF RankJobInv, SiteInv
<1>0. JobTypes /\ p \in RunId /\ r \in RunId
  BY RankTypes DEF Current
<1>1. CASE snap' = snap
  <2>1. p = r
    BY <1>1 DEF OneCurrent, Current
  <2> QED
    BY <1>0, <2>1 DEF RunId
<1>2. ASSUME NEW w \in Worker, Publish(w)
      PROVE  FALSE
  <2>1. PICK q : q = mine[w]
    OBVIOUS
  <2>2. \E ev : Publication(q, "job", "none", ev)
    BY <1>2, <2>1 DEF Publish
  <2>3. r = q
    BY <1>0, <2>2, PublicationAdds
  <2>4. pc[w] = "work"
    BY <1>2 DEF Publish, SliceInv, SliceIsCurrent
  <2>5. q = nruns
    BY <2>1, <2>4 DEF WorkflowInv, SliceIsOnNewest
  <2>6. Scored(p)
    BY <1>0 DEF JudgedIsScored, Current, Published
  <2>7. p <= nruns
    <3>1. p > nruns => job[p].phase = "brawlers"
      BY <1>0 DEF CandidateInv, Untouched, NoCandidate
    <3>2. nruns \in Nat /\ p \in Nat
      BY <1>0 DEF RunId, WorkflowInv, TypeOK
    <3> QED
      BY <2>6, <3>1, <3>2 DEF Scored
  <2> QED
    BY <1>0, <2>3, <2>5, <2>7 DEF RunId, WorkflowInv, TypeOK
<1>3. ASSUME NEW o \in Operator, Approve(o)
      PROVE  snap'[r].by = "operator"
  <2>1. PICK q : q = approving[o]
    OBVIOUS
  <2>2. \E ev : Publication(q, "operator", "mass_movement_guard", ev)
    BY <1>3, <2>1 DEF Approve
  <2>3. r = q /\ r \in Published'
    BY <1>0, <2>2, PublicationAdds DEF Current, Published
  <2> QED
    BY <1>0, <2>2, <2>3, PublicationAdds
<1> QED
  BY <1>1, <1>2, <1>3, PublicationSteps

\* The site goes back to an older run only when an operator publishes it: the run
\* of a job is newer than all that was published before.
THEOREM OnlyOperatorsGoBack ==
  ASSUME SliceFitsTTL
  PROVE  RankSpec => OnlyApprovalGoesBack
<1>1. RankJobInv /\ [RankNext]_vars =>
        [\A p \in Current, r \in Current' : r < p => snap'[r].by = "operator"]_vars
  BY GoesBack
<1> QED
  BY RankJobInvHolds, <1>1, PTL DEF RankSpec, OnlyApprovalGoesBack

\* What appears on the site was let through by the unique keys.
LEMMA NewlyPublished ==
  ASSUME RankTypeOK, [RankNext]_vars, NEW r \in Published' \ Published, NEW b \in snap'[r].items
  PROVE  job[r].rows["brawlers"][b] = 1
<1>0. JobTypes
  BY RankTypes
<1>1. snap' # snap
  BY DEF Published
<1>2. \E q, by, hold, ev : CanPublish(q) /\ Publication(q, by, hold, ev)
  BY <1>1, PublicationSteps DEF Publish, Approve
<1>3. PICK q, by, hold, ev : CanPublish(q) /\ Publication(q, by, hold, ev)
  BY <1>2
<1>4. r = q /\ snap'[r].items = Publishable(q)
  BY <1>0, <1>3, PublicationAdds
<1> QED
  BY <1>3, <1>4 DEF CanPublish

\* No brawler gets on the site twice, even when slices outlive their lock and
\* overlap: this needs the types alone.
THEOREM NoBrawlerIsPublishedTwice == RankSpec => NoBrawlerTwice
<1>1. RankTypeOK /\ [RankNext]_vars =>
        [\A r \in Published' \ Published :
           \A b \in snap'[r].items : job[r].rows["brawlers"][b] = 1]_vars
  BY NewlyPublished
<1> QED
  BY RankTypeCorrect, <1>1, PTL DEF RankSpec, NoBrawlerTwice
=============================================================================
