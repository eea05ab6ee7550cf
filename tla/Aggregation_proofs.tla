------------------------- MODULE Aggregation_proofs -------------------------
(***************************************************************************)
(* Proofs about Aggregation, for any number of workers, runs and brawlers,  *)
(* any batch size and any change of the catalog.  Types hold always; that   *)
(* rows follow the cursor, that what ranking reads is whole and final, and  *)
(* that the job implements AtomicJob, hold when a slice fits in the TTL of  *)
(* its lock row (without that, AggregationDoubleWrite shows two slices).    *)
(***************************************************************************)
EXTENDS Aggregation, Workflow_proofs

\* The workers of the job are those of the protocol.
LEMMA AggStepIsStep == [AggNext]_vars => [Next]_wfVars
<1> SUFFICES ASSUME [AggNext]_vars PROVE [Next]_wfVars
  OBVIOUS
<1>1. ASSUME NEW w \in Worker, JobStep(w) PROVE Step(w) \/ Abort(w)
  <2>1. CASE Housekeeping(w)
    BY <2>1 DEF Housekeeping, Step
  <2>2. CASE Claim(w)
    BY <2>2 DEF Claim, Step
  <2>3. ASSUME NEW r \in RunId, Load(w, r) PROVE Step(w)
    BY <2>3 DEF Load, Step
  <2>4. CASE Advance(w)
    BY <2>4 DEF Advance, Step
  <2>5. CASE InsertBatch(w)
    BY <2>5 DEF InsertBatch, Step
  <2>6. ASSUME NEW status \in Visible, Finalize(w, status) PROVE Step(w)
    BY <2>6 DEF Finalize, Step, Visible, Terminal
  <2> QED
    BY <1>1, <2>1, <2>2, <2>3, <2>4, <2>5, <2>6 DEF JobStep
<1>2. ASSUME NEW w \in Worker, Fail(w) PROVE Abort(w) \/ Crash(w)
  BY <1>2 DEF Fail
<1>3. ASSUME NEW b \in Volatile, CatalogChange(b) PROVE UNCHANGED wfVars
  BY <1>3 DEF CatalogChange
<1>4. CASE Time
  BY <1>4 DEF Time, Next
<1>5. CASE UNCHANGED vars
  BY <1>5 DEF vars
<1> QED
  BY <1>1, <1>2, <1>3, <1>4, <1>5 DEF AggNext, Next

-----------------------------------------------------------------------------
\* The brawlers are finitely many.
LEMMA BrawlersFinite == \A S \in SUBSET Brawler : IsFiniteSet(S)
<1>1. IsFiniteSet(Brawler)
  BY AggregationAssumption, FS_Interval DEF Brawler
<1> QED
  BY <1>1, FS_Subset

\* countAggregateRows counts: its figures are numbers.
LEMMA CountRowsType ==
  ASSUME rows \in [RunId -> [Scope -> [Brawler -> Nat]]], NEW r \in RunId
  PROVE  CountRows(r) \in [Scope -> Nat]
<1>1. IsFiniteSet(Brawler)
  BY BrawlersFinite
<1>2. ASSUME NEW s \in Scope
      PROVE  Cardinality(UNION {{b} \X (1..rows[r][s][b]) : b \in Brawler}) \in Nat
  <2>1. PICK f : f = rows[r][s]
    OBVIOUS
  <2>2. f \in [Brawler -> Nat]
    BY <2>1
  <2>3. Cardinality(UNION {{b} \X (1..f[b]) : b \in Brawler}) \in Nat
    BY ONLY <1>1, <2>2, CopiesCounted
  <2> QED
    BY <2>1, <2>3
<1> QED
  BY <1>2 DEF CountRows

\* A batch is above the cursor and leaves out no active brawler below its end;
\* it is empty only when no active brawler is left.
LEMMA BatchIsNext ==
  ASSUME active \subseteq Brawler, NEW pos \in 0..NBrawlers
  PROVE  /\ BatchAfter(pos) \subseteq Brawler
         /\ \A b \in BatchAfter(pos) : b > pos
         /\ \A a \in active, b \in BatchAfter(pos) :
              pos < a /\ a <= b => a \in BatchAfter(pos)
         /\ BatchAfter(pos) = {} => \A a \in active : a <= pos
<1>1. IsFiniteSet(active) /\ active \in SUBSET Nat /\ active \subseteq Brawler
  BY BrawlersFinite DEF Brawler
<1>2. BatchAfter(pos) = FirstAbove(active, BatchSize, pos)
  BY DEF BatchAfter, FirstAbove
<1>3. BatchSize \in Nat \ {0} /\ pos \in Nat
  BY AggregationAssumption
<1>4. /\ FirstAbove(active, BatchSize, pos) \subseteq active
      /\ \A b \in FirstAbove(active, BatchSize, pos) : b > pos
      /\ \A a \in active, b \in FirstAbove(active, BatchSize, pos) :
           pos < a /\ a <= b => a \in FirstAbove(active, BatchSize, pos)
      /\ FirstAbove(active, BatchSize, pos) = {} => \A a \in active : a <= pos
  BY <1>1, <1>3, BatchIsFirstAbove
<1> QED
  BY <1>1, <1>2, <1>4

-----------------------------------------------------------------------------
(* Types *)

\* Where a job can stand, and what a slice can have read.
Position == [phase : Phase, pos : 0..NBrawlers,
             status : [Scope -> AggStatus], counts : [Scope -> Nat]]
Reading == [phase : Phase, pos : 0..NBrawlers,
            batch : SUBSET Brawler, counts : [Scope -> Nat]]

LEMMA InitAggTypeOK == AggInit => AggTypeOK
<1> SUFFICES ASSUME AggInit PROVE AggTypeOK
  OBVIOUS
<1>1. TypeOK
  BY InitTypeOK DEF AggInit
<1>2. 0 \in 0..NBrawlers /\ 0 \in Nat /\ "running" \in AggStatus
      /\ "mode" \in Phase /\ "done" \in Phase
  BY AggregationAssumption DEF AggStatus, Phase, Scope
<1>3. agg \in [RunId -> Position]
  BY <1>2 DEF AggInit, FreshJob, NoCounts, Position
<1>4. rows \in [RunId -> [Scope -> [Brawler -> Nat]]]
  BY DEF AggInit, NoRows
<1>5. slice \in [Worker -> Reading]
  BY <1>2 DEF AggInit, NoSlice, NoCounts, Reading
<1>6. steady \in [RunId -> SUBSET Brawler] /\ active \subseteq Brawler
  BY DEF AggInit
<1> QED
  BY <1>1, <1>3, <1>4, <1>5, <1>6 DEF AggTypeOK, Position, Reading

\* A slice that has ended keeps nothing of what it read.
LEMMA NoSliceType == NoSlice \in Reading
  BY AggregationAssumption DEF NoSlice, NoCounts, Reading, Phase, Scope

LEMMA AggNextTypeOK == AggTypeOK /\ [AggNext]_vars => AggTypeOK'
<1> SUFFICES ASSUME AggTypeOK, [AggNext]_vars
             PROVE  AggTypeOK'
  OBVIOUS
<1>0. /\ TypeOK /\ active \in SUBSET Brawler
      /\ agg \in [RunId -> Position]
      /\ rows \in [RunId -> [Scope -> [Brawler -> Nat]]]
      /\ slice \in [Worker -> Reading]
      /\ steady \in [RunId -> SUBSET Brawler]
  BY DEF AggTypeOK, Position, Reading
<1>1. TypeOK'
  BY <1>0, AggStepIsStep, NextTypeOK
<1>2. SUFFICES /\ active' \in SUBSET Brawler
               /\ agg' \in [RunId -> Position]
               /\ rows' \in [RunId -> [Scope -> [Brawler -> Nat]]]
               /\ slice' \in [Worker -> Reading]
               /\ steady' \in [RunId -> SUBSET Brawler]
  BY <1>1, <1>2 DEF AggTypeOK, Position, Reading
<1>3. ASSUME NEW w \in Worker, slice' = [slice EXCEPT ![w] = NoSlice]
      PROVE  slice' \in [Worker -> Reading]
  BY <1>0, <1>3, NoSliceType
<1>4. ASSUME NEW w \in Worker, Housekeeping(w) \/ Fail(w)
      PROVE  /\ UNCHANGED <<active, agg, rows, steady>>
             /\ slice' \in [Worker -> Reading]
  BY <1>0, <1>3, <1>4 DEF Housekeeping, Fail, jobVars
<1>5. ASSUME NEW w \in Worker, Claim(w)
      PROVE  /\ UNCHANGED <<active, rows, slice>>
             /\ agg' \in [RunId -> Position]
             /\ steady' \in [RunId -> SUBSET Brawler]
  <2>1. FreshJob \in Position
    BY AggregationAssumption
    DEF FreshJob, NoCounts, Position, Phase, Scope, AggStatus
  <2> QED
    BY <1>0, <1>5, <2>1 DEF Claim
<1>6. ASSUME NEW w \in Worker, NEW r \in RunId, Load(w, r)
      PROVE  /\ UNCHANGED <<active, agg, rows, steady>>
             /\ slice' \in [Worker -> Reading]
  <2>1. agg[r].phase \in Phase /\ agg[r].pos \in 0..NBrawlers
    BY <1>0 DEF Position
  <2>2. BatchAfter(agg[r].pos) \subseteq Brawler
    BY <1>0, <2>1, BatchIsNext
  <2>3. CountRows(r) \in [Scope -> Nat] /\ NoCounts \in [Scope -> Nat]
    BY <1>0, CountRowsType DEF NoCounts
  <2>4. [phase  |-> agg[r].phase, pos |-> agg[r].pos,
         batch  |-> IF agg[r].phase \in Scope THEN BatchAfter(agg[r].pos) ELSE {},
         counts |-> IF agg[r].phase \in Scope THEN NoCounts ELSE CountRows(r)]
          \in Reading
    <3>1. (IF agg[r].phase \in Scope THEN BatchAfter(agg[r].pos) ELSE {}) \in SUBSET Brawler
      BY <2>2
    <3>2. (IF agg[r].phase \in Scope THEN NoCounts ELSE CountRows(r)) \in [Scope -> Nat]
      BY <2>3
    <3> QED
      BY <2>1, <3>1, <3>2 DEF Reading
  <2> QED
    BY <1>0, <1>6, <2>4 DEF Load
<1>7. ASSUME NEW w \in Worker, Advance(w)
      PROVE  /\ UNCHANGED <<active, rows, steady>>
             /\ agg' \in [RunId -> Position]
             /\ slice' \in [Worker -> Reading]
  <2>1. NextPhase[slice[w].phase] \in Phase /\ 0 \in 0..NBrawlers
    BY <1>7, AggregationAssumption DEF Advance, NextPhase, Phase, Scope
  <2>2. ASSUME NEW r \in RunId
        PROVE  agg'[r] \in Position
    <3>1. agg'[r] = IF r = mine[w]
                    THEN [agg[r] EXCEPT !.phase = NextPhase[slice[w].phase], !.pos = 0]
                    ELSE agg[r]
      BY <1>0, <1>7 DEF Advance
    <3>2. agg[r] \in Position
      BY <1>0
    <3>3. [agg[r] EXCEPT !.phase = NextPhase[slice[w].phase], !.pos = 0] \in Position
      BY <2>1, <3>2 DEF Position
    <3> QED
      BY <3>1, <3>2, <3>3
  <2>3. agg' \in [RunId -> Position]
    BY <1>0, <1>7, <2>2 DEF Advance
  <2> QED
    BY <1>3, <1>7, <2>3 DEF Advance
<1>8. ASSUME NEW w \in Worker, InsertBatch(w)
      PROVE  /\ UNCHANGED <<active, steady>>
             /\ agg' \in [RunId -> Position]
             /\ rows' \in [RunId -> [Scope -> [Brawler -> Nat]]]
             /\ slice' \in [Worker -> Reading]
  <2>1. CASE Rejected(w)
    BY <1>0, <1>3, <1>8, <2>1 DEF InsertBatch
  <2>2. CASE ~Rejected(w)
    <3> DEFINE r == mine[w]
               s == slice[w].phase
               batch == slice[w].batch
    <3>1. RowsAndCursor(r, s, batch) /\ s \in Scope /\ batch # {} /\ batch \subseteq Brawler
      BY <1>0, <1>8, <2>2 DEF InsertBatch, Reading
    <3>2. Max(batch) \in 0..NBrawlers
      <4>1. batch \subseteq 0..NBrawlers
        BY <3>1, AggregationAssumption DEF Brawler
      <4> HIDE DEF batch
      <4> QED
        BY <3>1, <4>1, GreatestIsMax, AggregationAssumption
    <3> HIDE DEF r, s, batch
    <3>3. ASSUME NEW q \in RunId
          PROVE  agg'[q] \in Position /\ rows'[q] \in [Scope -> [Brawler -> Nat]]
      <4>1. agg'[q] = IF q = r
                      THEN [agg[q] EXCEPT !.phase = s, !.pos = Max(batch)]
                      ELSE agg[q]
        BY <1>0, <3>1 DEF RowsAndCursor
      <4>2. agg[q] \in Position /\ s \in Phase
        BY <1>0, <3>1 DEF Phase
      <4>3. [agg[q] EXCEPT !.phase = s, !.pos = Max(batch)] \in Position
        BY <3>2, <4>2 DEF Position
      <4>4. agg'[q] \in Position
        BY <4>1, <4>2, <4>3
      <4>5. rows'[q] = IF q = r
                       THEN [rows[q] EXCEPT ![s] =
                               [b \in Brawler |-> IF b \in batch THEN rows[q][s][b] + 1
                                                  ELSE rows[q][s][b]]]
                       ELSE rows[q]
        BY <1>0, <3>1 DEF RowsAndCursor
      <4>6. rows'[q] \in [Scope -> [Brawler -> Nat]]
        BY <1>0, <3>1, <4>5
      <4> QED
        BY <4>4, <4>6
    <3>4. agg' \in [RunId -> Position] /\ rows' \in [RunId -> [Scope -> [Brawler -> Nat]]]
      BY <1>0, <3>1, <3>3 DEF RowsAndCursor
    <3> QED
      BY <1>3, <1>8, <3>4 DEF InsertBatch
  <2> QED
    BY <2>1, <2>2
<1>9. ASSUME NEW w \in Worker, NEW status \in Visible, Finalize(w, status)
      PROVE  /\ UNCHANGED <<active, rows, steady>>
             /\ agg' \in [RunId -> Position]
             /\ slice' \in [Worker -> Reading]
  <2>1. slice[w] \in Reading
    BY <1>0
  <2>2. [phase |-> "done", pos |-> slice[w].pos,
         status |-> [s \in Scope |-> status], counts |-> slice[w].counts] \in Position
    BY <2>1 DEF Reading, Position, Phase, AggStatus, Visible
  <2> QED
    BY <1>0, <1>3, <1>9, <2>2 DEF Finalize
<1>10. ASSUME NEW b \in Volatile, CatalogChange(b)
       PROVE  /\ UNCHANGED <<agg, rows, slice>>
              /\ active' \in SUBSET Brawler
              /\ steady' \in [RunId -> SUBSET Brawler]
  BY <1>0, <1>10, AggregationAssumption DEF CatalogChange
<1>11. CASE Time \/ UNCHANGED vars
  BY <1>0, <1>11 DEF Time, vars, jobVars
<1> QED
  BY <1>0, <1>4, <1>5, <1>6, <1>7, <1>8, <1>9, <1>10, <1>11 DEF AggNext, JobStep

\* The variables of the job have their types, whatever the TTL.
THEOREM AggTypeCorrect == AggSpec => []AggTypeOK
  BY InitAggTypeOK, AggNextTypeOK, PTL DEF AggSpec

-----------------------------------------------------------------------------
(***************************************************************************)
(* The inductive invariant: rows, cursor and the rows of the three scoped   *)
(* runs agree, and what a slice has read outside its transaction is still    *)
(* so, because no other slice can have written since.                       *)
(***************************************************************************)
Untouched == \A r \in RunId : r > nruns => rows[r] = NoRows

SteadyAreActive == \A r \in 1..nruns : steady[r] \subseteq active

\* The scoped runs are final, with the counts of the rows, when the run is.
FinishedIsDone ==
  \A r \in 1..nruns :
    /\ Finished(r) <=> agg[r].phase = "done"
    /\ Finished(r) => agg[r].counts = CountRows(r)

\* The cursor and the counts that a slice has read are those of now,
SliceIsCurrent ==
  \A w \in Worker : pc[w] = "work" =>
    LET r == mine[w]
    IN  /\ r \in 1..nruns /\ ~Finished(r)
        /\ slice[w].phase = agg[r].phase /\ slice[w].pos = agg[r].pos
        /\ slice[w].phase \notin Scope => slice[w].counts = CountRows(r)

\* and its batch is the next one: of the brawlers active since the run started,
\* it leaves out none between the cursor and its end.
BatchIsCurrent ==
  \A w \in Worker : pc[w] = "work" /\ slice[w].phase \in Scope =>
    /\ \A b \in slice[w].batch : b > slice[w].pos
    /\ \A b \in steady[mine[w]] :
         b > slice[w].pos /\ (slice[w].batch = {} \/ \E c \in slice[w].batch : b <= c)
           => b \in slice[w].batch

RowsInv ==
  /\ Untouched /\ SteadyAreActive
  /\ RowsFollowCursor /\ NoDoubleWrite
  /\ ScopedRunsAgree /\ FinishedIsDone
SliceInv == SliceIsCurrent /\ BatchIsCurrent

JobInv == WorkflowInv /\ AggTypeOK /\ RowsInv /\ SliceInv

LEMMA InitJobInv == AggInit => JobInv
<1> SUFFICES ASSUME AggInit PROVE JobInv
  OBVIOUS
<1>1. WorkflowInv /\ AggTypeOK
  BY InitInv, InitAggTypeOK DEF AggInit
<1>2. nruns = 0 /\ \A w \in Worker : pc[w] = "idle"
  BY DEF AggInit, Init
<1>3. Untouched /\ NoDoubleWrite
  BY DEF AggInit, Untouched, NoDoubleWrite, NoRows
<1>4. 1..nruns = {}
  BY <1>2
<1>5. SteadyAreActive /\ RowsFollowCursor /\ ScopedRunsAgree /\ FinishedIsDone
  BY <1>4 DEF SteadyAreActive, RowsFollowCursor, ScopedRunsAgree, FinishedIsDone
<1>6. SliceInv
  BY <1>2 DEF SliceInv, SliceIsCurrent, BatchIsCurrent
<1> QED
  BY <1>1, <1>3, <1>5, <1>6 DEF JobInv, RowsInv

-----------------------------------------------------------------------------
\* A step that writes no rows and no cursor, finishes no run and gives no
\* worker new work keeps what there is to keep, whatever happens to the catalog.
JobQuiet ==
  /\ UNCHANGED <<nruns, rows, agg>>
  /\ \A r \in RunId : Finished(r)' <=> Finished(r)
  /\ \A r \in RunId : steady'[r] \subseteq steady[r]
  /\ \A r \in 1..nruns : steady'[r] \subseteq active'
  /\ \A w \in Worker : pc'[w] = "work" =>
       pc[w] = "work" /\ mine'[w] = mine[w] /\ slice'[w] = slice[w]

LEMMA QuietKeepsRows ==
  ASSUME TypeOK, RowsInv, JobQuiet
  PROVE  RowsInv'
<1> USE StartedRuns DEF JobQuiet, RowsInv
<1>1. Untouched' /\ SteadyAreActive' /\ NoDoubleWrite'
  BY DEF Untouched, SteadyAreActive, NoDoubleWrite
<1>2. RowsFollowCursor'
  <2>1. \A r \in 1..nruns, s \in Scope, b \in Brawler : Behind(r, s, b)' <=> Behind(r, s, b)
    BY DEF Behind
  <2> QED
    BY <2>1 DEF RowsFollowCursor
<1>3. ScopedRunsAgree' /\ FinishedIsDone'
  BY DEF ScopedRunsAgree, FinishedIsDone, CountRows
<1> QED
  BY <1>1, <1>2, <1>3

LEMMA QuietKeepsSlices ==
  ASSUME TypeOK, SliceInv, JobQuiet
  PROVE  SliceInv'
<1> USE StartedRuns DEF JobQuiet, SliceInv
<1>1. SliceIsCurrent'
  BY DEF SliceIsCurrent, CountRows
<1>2. BatchIsCurrent'
  <2> SUFFICES ASSUME NEW w \in Worker, pc'[w] = "work", slice'[w].phase \in Scope
               PROVE  /\ \A b \in slice'[w].batch : b > slice'[w].pos
                      /\ \A b \in steady'[mine'[w]] :
                           b > slice'[w].pos /\ (slice'[w].batch = {} \/ \E c \in slice'[w].batch : b <= c)
                             => b \in slice'[w].batch
    BY DEF BatchIsCurrent
  <2>1. pc[w] = "work" /\ mine'[w] = mine[w] /\ slice'[w] = slice[w] /\ mine[w] \in RunId
    BY DEF SliceIsCurrent
  <2>2. steady'[mine[w]] \subseteq steady[mine[w]]
    BY <2>1
  <2> QED
    BY <2>1, <2>2 DEF BatchIsCurrent
<1> QED
  BY <1>1, <1>2

\* Housekeeping, failures, rejected batches, time and catalog changes are quiet.
LEMMA QuietSteps ==
  ASSUME AggTypeOK, SteadyAreActive,
         \/ \E w \in Worker : Housekeeping(w) \/ Fail(w) \/ (InsertBatch(w) /\ Rejected(w))
         \/ \E b \in Volatile : CatalogChange(b)
         \/ Time
         \/ UNCHANGED vars
  PROVE  JobQuiet
<1> USE DEF AggTypeOK
<1>0. TypeOK
  OBVIOUS
<1>1. ASSUME UNCHANGED <<nruns, rows, agg, active, steady>>,
             \A r \in RunId : Finished(r)' <=> Finished(r),
             \A w \in Worker : pc'[w] = "work" =>
               pc[w] = "work" /\ mine'[w] = mine[w] /\ slice'[w] = slice[w]
      PROVE  JobQuiet
  BY <1>1 DEF JobQuiet, SteadyAreActive
<1>2. ASSUME NEW w \in Worker, Housekeeping(w)
      PROVE  JobQuiet
  <2>1. UNCHANGED jobVars /\ nruns' = nruns
    BY <1>2 DEF Housekeeping, Begin, Reclaim, Acquire, Refused, LoadNone, Release, NextSlice
  <2>2. ASSUME NEW r \in RunId
        PROVE  Finished(r)' <=> Finished(r)
    <3>1. ASSUME NEW q \in RunId, Reclaim(w, q)
          PROVE  run'[r].status = run[r].status
                 \/ (run[r].status = "running" /\ run'[r].status = "failed")
      BY <1>0, <3>1 DEF Reclaim, TypeOK, Run
    <3>2. run' = run \/ \E q \in RunId : Reclaim(w, q)
      BY <1>2 DEF Housekeeping, Begin, Acquire, Refused, LoadNone, Release, NextSlice
    <3> QED
      BY <3>1, <3>2 DEF Finished, Visible
  <2>3. ASSUME NEW v \in Worker, pc'[v] = "work"
        PROVE  pc[v] = "work" /\ mine'[v] = mine[v]
    BY <1>0, <1>2, <2>3
    DEF Housekeeping, Begin, Reclaim, Acquire, Refused, LoadNone, Release, NextSlice,
        Goto, TypeOK
  <2> QED
    BY SMTT(60), <1>1, <2>1, <2>2, <2>3 DEF jobVars
<1>3. ASSUME NEW w \in Worker, Abort(w) \/ Crash(w),
             slice' = [slice EXCEPT ![w] = NoSlice],
             UNCHANGED <<active, agg, rows, steady>>
      PROVE  JobQuiet
  <2>1. nruns' = nruns /\ run' = run
    BY <1>3 DEF Abort, Crash
  <2>2. ASSUME NEW v \in Worker, pc'[v] = "work"
        PROVE  pc[v] = "work" /\ mine'[v] = mine[v] /\ slice'[v] = slice[v]
    BY <1>0, <1>3, <2>2 DEF Abort, Crash, TypeOK
  <2> QED
    BY <1>1, <1>3, <2>1, <2>2 DEF Finished
<1>4. ASSUME NEW w \in Worker, Fail(w) \/ (InsertBatch(w) /\ Rejected(w))
      PROVE  JobQuiet
  BY <1>3, <1>4 DEF Fail, InsertBatch
<1>5. ASSUME NEW b \in Volatile, CatalogChange(b)
      PROVE  JobQuiet
  <2>1. UNCHANGED <<wfVars, agg, rows, slice>>
    BY <1>5 DEF CatalogChange
  <2>2. ASSUME NEW r \in RunId
        PROVE  steady'[r] = steady[r] \ {b}
    BY <1>5 DEF CatalogChange
  <2>3. active \ {b} \subseteq active'
    BY <1>5 DEF CatalogChange
  <2>4. ASSUME NEW r \in 1..nruns
        PROVE  steady'[r] \subseteq active'
    BY <1>0, <2>2, <2>3, StartedRuns DEF SteadyAreActive
  <2> QED
    BY <2>1, <2>2, <2>4 DEF JobQuiet, wfVars, Finished
<1>6. CASE Time
  <2>1. UNCHANGED jobVars /\ UNCHANGED <<nruns, pc, mine>>
    BY <1>6 DEF Time, Tick
  <2>2. ASSUME NEW r \in RunId
        PROVE  Finished(r)' <=> Finished(r)
    BY <1>0, <1>6 DEF Time, Tick, Finished, TypeOK, Run
  <2> QED
    BY <1>1, <2>1, <2>2 DEF jobVars
<1>7. CASE UNCHANGED vars
  BY <1>1, <1>7 DEF vars, wfVars, jobVars, Finished
<1> QED
  BY <1>2, <1>4, <1>5, <1>6, <1>7

\* Claim and Load: no rows are written either.  A claim starts a run nobody
\* works on, a load reads what is then current.
LEMMA ClaimKeepsJobInv ==
  ASSUME JobInv, MutualExclusion, NEW w \in Worker, Claim(w)
  PROVE  RowsInv' /\ SliceInv'
<1> USE StartedRuns DEF JobInv, WorkflowInv
<1>1. /\ pc[w] = "claim" /\ nruns' = nruns + 1 /\ nruns + 1 \in RunId
      /\ UNCHANGED <<active, rows, slice>>
  BY WorkflowAssumption DEF Claim, StartRun, Goto, RunId
<1>2. ASSUME NEW r \in RunId, r # nruns + 1
      PROVE  run'[r] = run[r] /\ agg'[r] = agg[r] /\ steady'[r] = steady[r]
  BY <1>2 DEF Claim, StartRun, TypeOK, AggTypeOK
<1>3. /\ run'[nruns + 1].status = "running"
      /\ agg'[nruns + 1] = FreshJob /\ steady'[nruns + 1] = active
  BY <1>1 DEF Claim, StartRun, TypeOK, AggTypeOK, Started
<1>4. rows[nruns + 1] = NoRows
  BY <1>1 DEF RowsInv, Untouched
<1>5. Untouched' /\ SteadyAreActive' /\ NoDoubleWrite'
  <2>1. Untouched' /\ NoDoubleWrite'
    BY <1>1 DEF RowsInv, Untouched, NoDoubleWrite
  <2>2. ASSUME NEW r \in 1..nruns'
        PROVE  steady'[r] \subseteq active'
    BY <1>1, <1>2, <1>3 DEF RowsInv, SteadyAreActive
  <2> QED
    BY <2>1, <2>2 DEF SteadyAreActive
<1>6. ASSUME NEW r \in 1..nruns', r # nruns + 1
      PROVE  r \in 1..nruns /\ r \in RunId
  BY <1>1, <1>6
<1>7. RowsFollowCursor'
  <2> SUFFICES ASSUME NEW r \in 1..nruns', NEW s \in Scope, NEW b \in Brawler
               PROVE  IF Behind(r, s, b)' THEN b \in steady'[r] => rows'[r][s][b] = 1
                      ELSE rows'[r][s][b] = 0
    BY DEF RowsFollowCursor
  <2>1. CASE r = nruns + 1
    <3>1. ~Behind(r, s, b)'
      BY <1>3, <2>1, AggregationAssumption DEF Behind, FreshJob, Brawler
    <3> QED
      BY <1>1, <1>4, <2>1, <3>1 DEF NoRows
  <2>2. CASE r # nruns + 1
    <3>1. Behind(r, s, b)' <=> Behind(r, s, b)
      BY <1>2, <1>6, <2>2 DEF Behind
    <3> QED
      BY <1>1, <1>2, <1>6, <2>2, <3>1 DEF RowsInv, RowsFollowCursor
  <2> QED
    BY <2>1, <2>2
<1>8. ScopedRunsAgree' /\ FinishedIsDone'
  <2> SUFFICES ASSUME NEW r \in 1..nruns'
               PROVE  /\ \A s \in Scope : Finished(r)' <=> agg'[r].status[s] \in Visible
                      /\ Finished(r)' <=> agg'[r].phase = "done"
                      /\ Finished(r)' => agg'[r].counts = CountRows(r)'
    BY DEF ScopedRunsAgree, FinishedIsDone
  <2>1. CASE r = nruns + 1
    BY <1>3, <2>1 DEF Finished, Visible, FreshJob
  <2>2. CASE r # nruns + 1
    BY <1>1, <1>2, <1>6, <2>2
    DEF RowsInv, ScopedRunsAgree, FinishedIsDone, Finished, CountRows
  <2> QED
    BY <2>1, <2>2
<1>9. ASSUME NEW v \in Worker
      PROVE  pc'[v] # "work"
  BY <1>1, <1>9 DEF MutualExclusion, InSlice, Holding, Claim, StartRun, Goto, TypeOK
<1> QED
  BY <1>5, <1>7, <1>8, <1>9 DEF RowsInv, SliceInv, SliceIsCurrent, BatchIsCurrent

LEMMA LoadKeepsJobInv ==
  ASSUME JobInv, NEW w \in Worker, NEW r \in RunId, Load(w, r)
  PROVE  RowsInv' /\ SliceInv'
<1> USE StartedRuns DEF JobInv, WorkflowInv
<1>1. UNCHANGED <<lock, nruns, run, active, agg, rows, steady>>
  BY DEF Load, LoadRun
<1>2. RowsInv'
  <2>1. \A q \in RunId : (Finished(q)' <=> Finished(q)) /\ CountRows(q)' = CountRows(q)
    BY <1>1 DEF Finished, CountRows
  <2>2. \A q, s, b : Behind(q, s, b)' <=> Behind(q, s, b)
    BY <1>1 DEF Behind
  <2> QED
    BY <1>1, <2>1, <2>2
    DEF RowsInv, Untouched, SteadyAreActive, RowsFollowCursor, NoDoubleWrite,
        ScopedRunsAgree, FinishedIsDone
<1>3. r = nruns /\ run[r].status = "running"
  BY DEF Load, LoadRun, IsLatestRunning, RunningIsNewest, Running
<1>4. r \in 1..nruns /\ ~Finished(r)
  BY <1>3 DEF RunId, Finished, Visible
<1>5. /\ slice'[w].phase = agg[r].phase /\ slice'[w].pos = agg[r].pos
      /\ agg[r].phase \in Scope => slice'[w].batch = BatchAfter(agg[r].pos)
      /\ agg[r].phase \notin Scope => slice'[w].counts = CountRows(r)
  BY DEF Load, AggTypeOK
<1>6. \A v \in Worker : v # w => pc'[v] = pc[v] /\ mine'[v] = mine[v] /\ slice'[v] = slice[v]
  BY DEF Load, LoadRun, Goto, TypeOK, AggTypeOK
<1>7. mine'[w] = r
  BY DEF Load, LoadRun, TypeOK
<1>8. SliceIsCurrent'
  <2> SUFFICES ASSUME NEW v \in Worker, pc'[v] = "work"
               PROVE  /\ mine'[v] \in 1..nruns /\ ~Finished(mine'[v])
                      /\ slice'[v].phase = agg[mine'[v]].phase
                      /\ slice'[v].pos = agg[mine'[v]].pos
                      /\ slice'[v].phase \notin Scope => slice'[v].counts = CountRows(mine'[v])
    BY <1>1 DEF SliceIsCurrent, Finished, CountRows
  <2>1. CASE v = w
    BY <1>4, <1>5, <1>7, <2>1
  <2>2. CASE v # w
    BY <1>6, <2>2 DEF SliceInv, SliceIsCurrent
  <2> QED
    BY <2>1, <2>2
<1>9. BatchIsCurrent'
  <2> SUFFICES ASSUME NEW v \in Worker, pc'[v] = "work", slice'[v].phase \in Scope
               PROVE  /\ \A b \in slice'[v].batch : b > slice'[v].pos
                      /\ \A b \in steady[mine'[v]] :
                           b > slice'[v].pos /\ (slice'[v].batch = {} \/ \E c \in slice'[v].batch : b <= c)
                             => b \in slice'[v].batch
    BY <1>1 DEF BatchIsCurrent
  <2>1. CASE v = w
    <3> DEFINE pos == agg[r].pos
    <3>1. pos \in 0..NBrawlers /\ active \subseteq Brawler
      BY DEF AggTypeOK
    <3>2. steady[r] \subseteq active
      BY <1>4 DEF RowsInv, SteadyAreActive
    <3>3. slice'[w].pos = pos /\ slice'[w].batch = BatchAfter(pos) /\ mine'[w] = r
      BY <1>5, <1>7, <2>1
    <3> HIDE DEF pos
    <3>4. \A b \in BatchAfter(pos) : b > pos
      BY <3>1, BatchIsNext
    <3>5. \A a \in active, b \in BatchAfter(pos) : pos < a /\ a <= b => a \in BatchAfter(pos)
      BY <3>1, BatchIsNext
    <3>6. BatchAfter(pos) = {} => \A a \in active : a <= pos
      BY <3>1, BatchIsNext
    <3>7. \A a \in active : a \in Int /\ pos \in Int
      BY <3>1, AggregationAssumption DEF Brawler
    <3> QED
      BY <2>1, <3>2, <3>3, <3>4, <3>5, <3>6, <3>7
  <2>2. CASE v # w
    BY <1>6, <2>2 DEF SliceInv, BatchIsCurrent
  <2> QED
    BY <2>1, <2>2
<1> QED
  BY <1>2, <1>8, <1>9 DEF SliceInv

-----------------------------------------------------------------------------
(* The transactions of a slice *)

\* When the one slice there is leaves its work, nobody is at work.
LEMMA NobodyAtWork ==
  ASSUME TypeOK, MutualExclusion, NEW w \in Worker, NEW to,
         Goto(w, "work", to), to # "work"
  PROVE  SliceInv'
<1>1. ASSUME NEW v \in Worker PROVE pc'[v] # "work"
  BY DEF MutualExclusion, InSlice, Holding, Goto, TypeOK
<1> QED
  BY <1>1 DEF SliceInv, SliceIsCurrent, BatchIsCurrent

\* A transaction that writes rows or the cursor of its run, of the newest one,
\* leaves all other runs as they are.
LEMMA OtherRunsKept ==
  ASSUME AggTypeOK, NEW r \in 1..nruns, NEW q \in 1..nruns, q # r,
         nruns' = nruns, steady' = steady, active' = active,
         rows'[q] = rows[q], agg'[q] = agg[q], run'[q].status = run[q].status, RowsInv
  PROVE  /\ steady'[q] \subseteq active'
         /\ \A s \in Scope, b \in Brawler :
              IF Behind(q, s, b)' THEN b \in steady'[q] => rows'[q][s][b] = 1
              ELSE rows'[q][s][b] = 0
         /\ \A s \in Scope : Finished(q)' <=> agg'[q].status[s] \in Visible
         /\ Finished(q)' <=> agg'[q].phase = "done"
         /\ Finished(q)' => agg'[q].counts = CountRows(q)'
<1>1. Finished(q)' <=> Finished(q)
  BY DEF Finished
<1>2. CountRows(q)' = CountRows(q)
  BY DEF CountRows
<1>3. \A s \in Scope, b \in Brawler : Behind(q, s, b)' <=> Behind(q, s, b)
  BY DEF Behind
<1> QED
  BY <1>1, <1>2, <1>3
  DEF RowsInv, SteadyAreActive, RowsFollowCursor, ScopedRunsAgree, FinishedIsDone

\* So the invariant only has to be looked at for the run that is written.
LEMMA WrittenRunDecides ==
  ASSUME AggTypeOK, RowsInv, NEW r \in 1..nruns,
         nruns' = nruns, steady' = steady, active' = active,
         \A q \in RunId : q # r =>
           rows'[q] = rows[q] /\ agg'[q] = agg[q] /\ run'[q].status = run[q].status,
         \A s \in Scope, b \in Brawler :
           /\ rows'[r][s][b] <= 1
           /\ IF Behind(r, s, b)' THEN b \in steady[r] => rows'[r][s][b] = 1
              ELSE rows'[r][s][b] = 0,
         \A s \in Scope : Finished(r)' <=> agg'[r].status[s] \in Visible,
         Finished(r)' <=> agg'[r].phase = "done",
         Finished(r)' => agg'[r].counts = CountRows(r)'
  PROVE  RowsInv'
<1> USE StartedRuns DEF AggTypeOK
<1>1. Untouched'
  BY DEF RowsInv, Untouched
<1>2. NoDoubleWrite'
  BY DEF RowsInv, NoDoubleWrite
<1>3. SteadyAreActive'
  BY DEF RowsInv, SteadyAreActive
<1>4. \A q \in 1..nruns : q # r =>
        /\ rows'[q] = rows[q] /\ agg'[q] = agg[q] /\ run'[q].status = run[q].status
  OBVIOUS
<1>5. RowsFollowCursor'
  BY <1>4, OtherRunsKept DEF RowsFollowCursor
<1>6. ScopedRunsAgree' /\ FinishedIsDone'
  BY <1>4, OtherRunsKept DEF ScopedRunsAgree, FinishedIsDone
<1> QED
  BY <1>1, <1>2, <1>3, <1>5, <1>6 DEF RowsInv

LEMMA AdvanceKeepsJobInv ==
  ASSUME JobInv, MutualExclusion, NEW w \in Worker, Advance(w)
  PROVE  RowsInv' /\ SliceInv'
<1> USE StartedRuns DEF JobInv, WorkflowInv
<1> DEFINE s == slice[w].phase
<1>0. PICK r : r = mine[w]
  OBVIOUS
<1>1. /\ s \in Scope /\ slice[w].batch = {} /\ Progress(w)
      /\ UNCHANGED <<active, rows, steady>>
  BY DEF Advance
<1>2. SliceInv'
  BY <1>1, NobodyAtWork DEF Progress
<1>3. /\ r \in 1..nruns /\ r \in RunId /\ ~Finished(r)
      /\ s = agg[r].phase /\ slice[w].pos = agg[r].pos
      /\ \A b \in steady[r] : ~(b > agg[r].pos)
  BY <1>0, <1>1 DEF SliceInv, SliceIsCurrent, BatchIsCurrent, Progress, Goto
<1>4. /\ \A q \in RunId : q # r => agg'[q] = agg[q]
      /\ agg'[r].phase = NextPhase[s] /\ agg'[r].pos = 0
      /\ agg'[r].status = agg[r].status
  BY <1>0, <1>3 DEF Advance, AggTypeOK
<1>5. nruns' = nruns /\ \A q \in RunId : run'[q].status = run[q].status
  BY <1>1, ProgressKeepsStatus
<1> HIDE DEF s
<1>6. ASSUME NEW t \in Scope, NEW b \in Brawler
      PROVE  /\ rows'[r][t][b] <= 1
             /\ IF Behind(r, t, b)' THEN b \in steady[r] => rows'[r][t][b] = 1
                ELSE rows'[r][t][b] = 0
  <2>1. rows'[r][t][b] = rows[r][t][b] /\ rows[r][t][b] <= 1
    BY <1>1, <1>3 DEF RowsInv, NoDoubleWrite
  <2>2. IF Behind(r, t, b) THEN b \in steady[r] => rows[r][t][b] = 1
        ELSE rows[r][t][b] = 0
    BY <1>3 DEF RowsInv, RowsFollowCursor
  <2>3. b \in steady[r] => b <= agg[r].pos
    BY <1>3, AggregationAssumption DEF AggTypeOK, Brawler
  <2>4. ~(b <= 0)
    BY DEF Brawler
  <2>5. CASE s = "mode"
    BY <1>3, <1>4, <2>1, <2>2, <2>3, <2>4, <2>5 DEF Behind, NextPhase, Scope
  <2>6. CASE s = "overall"
    BY <1>3, <1>4, <2>1, <2>2, <2>3, <2>4, <2>6 DEF Behind, NextPhase, Scope
  <2>7. CASE s = "matchup"
    BY <1>3, <1>4, <2>1, <2>2, <2>3, <2>4, <2>7 DEF Behind, NextPhase, Scope
  <2> QED
    BY <1>1, <2>5, <2>6, <2>7 DEF Scope, s
<1>7. ~Finished(r)' /\ agg'[r].phase # "done"
  <2>1. NextPhase[s] # "done"
    BY <1>1 DEF NextPhase, Scope, s
  <2> QED
    BY <1>3, <1>4, <1>5, <2>1 DEF Finished
<1>8. \A t \in Scope : agg'[r].status[t] \notin Visible
  BY <1>3, <1>4 DEF RowsInv, ScopedRunsAgree
<1>9. \A q \in RunId : q # r =>
        rows'[q] = rows[q] /\ agg'[q] = agg[q] /\ run'[q].status = run[q].status
  BY <1>1, <1>4, <1>5
<1> QED
  BY <1>1, <1>2, <1>3, <1>5, <1>6, <1>7, <1>8, <1>9, WrittenRunDecides

LEMMA InsertKeepsJobInv ==
  ASSUME JobInv, MutualExclusion, NEW w \in Worker, InsertBatch(w), ~Rejected(w)
  PROVE  RowsInv' /\ SliceInv'
<1> USE StartedRuns DEF JobInv, WorkflowInv
<1>0. PICK r : r = mine[w]
  OBVIOUS
<1> DEFINE s == slice[w].phase
           batch == slice[w].batch
<1>1. /\ pc[w] = "work" /\ s \in Scope /\ batch # {}
      /\ Progress(w) /\ RowsAndCursor(r, s, batch)
      /\ UNCHANGED <<active, steady>>
  BY <1>0 DEF InsertBatch
<1>2. SliceInv'
  BY <1>1, NobodyAtWork DEF Progress
<1>3. /\ r \in 1..nruns /\ r \in RunId /\ ~Finished(r)
      /\ s = agg[r].phase /\ slice[w].pos = agg[r].pos
  BY <1>0, <1>1 DEF SliceInv, SliceIsCurrent
<1>4. /\ \A b \in batch : b > agg[r].pos
      /\ \A b \in steady[r], c \in batch : b > agg[r].pos /\ b <= c => b \in batch
  BY <1>0, <1>1, <1>3 DEF SliceInv, BatchIsCurrent
<1>5. batch \subseteq Brawler /\ batch \subseteq 0..NBrawlers
  BY AggregationAssumption DEF AggTypeOK, Brawler
<1>6. nruns' = nruns /\ \A q \in RunId : run'[q].status = run[q].status
  BY <1>1, ProgressKeepsStatus
<1> HIDE DEF s, batch
<1>7. Max(batch) \in batch /\ \A b \in batch : Max(batch) >= b
  BY <1>1, <1>5, GreatestIsMax, AggregationAssumption
<1>8. /\ \A q \in RunId : q # r => agg'[q] = agg[q] /\ rows'[q] = rows[q]
      /\ agg'[r].phase = s /\ agg'[r].pos = Max(batch)
      /\ agg'[r].status = agg[r].status
  BY <1>1, <1>3 DEF RowsAndCursor, AggTypeOK
<1>9. ASSUME NEW t \in Scope, NEW b \in Brawler
      PROVE  rows'[r][t][b] = IF t = s /\ b \in batch THEN rows[r][t][b] + 1
                              ELSE rows[r][t][b]
  BY <1>1, <1>3 DEF RowsAndCursor, AggTypeOK
<1>10. ASSUME NEW t \in Scope, NEW b \in Brawler
       PROVE  /\ rows'[r][t][b] <= 1
              /\ IF Behind(r, t, b)' THEN b \in steady[r] => rows'[r][t][b] = 1
                 ELSE rows'[r][t][b] = 0
  <2>1. rows[r][t][b] \in Nat /\ rows[r][t][b] <= 1
    BY <1>3 DEF RowsInv, NoDoubleWrite, AggTypeOK
  <2>2. IF Behind(r, t, b) THEN b \in steady[r] => rows[r][t][b] = 1
        ELSE rows[r][t][b] = 0
    BY <1>3 DEF RowsInv, RowsFollowCursor
  <2>3. b \in Int /\ agg[r].pos \in Int /\ Max(batch) \in Int
    <3>1. agg[r].pos \in 0..NBrawlers
      BY <1>3 DEF AggTypeOK
    <3>2. Max(batch) \in Brawler
      BY <1>5, <1>7
    <3> QED
      BY <3>1, <3>2 DEF Brawler
  <2>4. CASE t # s
    <3>1. Behind(r, t, b)' <=> Behind(r, t, b)
      BY <1>1, <1>3, <1>8, <2>4 DEF Behind, Scope, s
    <3> QED
      BY <1>9, <2>1, <2>2, <2>4, <3>1
  <2>5. CASE t = s
    <3>1. Behind(r, t, b) <=> b <= agg[r].pos
      BY <1>1, <1>3, <2>5 DEF Behind, Scope, s
    <3>2. Behind(r, t, b)' <=> b <= Max(batch)
      BY <1>1, <1>8, <2>5 DEF Behind, Scope, s
    <3>3. CASE b \in batch
      <4>1. rows[r][t][b] = 0 /\ b <= Max(batch)
        BY <1>4, <1>7, <2>2, <2>3, <3>1, <3>3
      <4> QED
        BY <1>9, <2>5, <3>2, <3>3, <4>1
    <3>4. CASE b \notin batch /\ b <= Max(batch)
      <4>1. b \in steady[r] => b <= agg[r].pos
        BY <1>4, <1>7, <2>3, <3>4
      <4> QED
        BY <1>9, <2>1, <2>2, <3>1, <3>2, <3>4, <4>1
    <3>5. CASE b \notin batch /\ ~(b <= Max(batch))
      <4>1. ~(b <= agg[r].pos)
        BY <1>4, <1>7, <2>3, <3>5
      <4> QED
        BY <1>9, <2>2, <3>1, <3>2, <3>5, <4>1
    <3> QED
      BY <3>3, <3>4, <3>5
  <2> QED
    BY <2>4, <2>5
<1>11. ~Finished(r)' /\ agg'[r].phase # "done"
  BY <1>1, <1>3, <1>6, <1>8 DEF Finished, Scope, s
<1>12. \A t \in Scope : agg'[r].status[t] \notin Visible
  BY <1>3, <1>8 DEF RowsInv, ScopedRunsAgree
<1>13. \A q \in RunId : q # r =>
         rows'[q] = rows[q] /\ agg'[q] = agg[q] /\ run'[q].status = run[q].status
  BY <1>6, <1>8
<1> QED
  BY <1>1, <1>2, <1>3, <1>6, <1>10, <1>11, <1>12, <1>13, WrittenRunDecides

LEMMA FinalizeKeepsJobInv ==
  ASSUME JobInv, MutualExclusion,
         NEW w \in Worker, NEW status \in Visible, Finalize(w, status)
  PROVE  RowsInv' /\ SliceInv'
<1> USE StartedRuns DEF JobInv, WorkflowInv
<1>0. PICK r : r = mine[w]
  OBVIOUS
<1>1. /\ slice[w].phase \in {"finalize", "done"} /\ Finish(w, status)
      /\ UNCHANGED <<active, rows, steady>>
  BY DEF Finalize
<1>2. SliceInv'
  BY <1>1, NobodyAtWork DEF Finish
<1>3. /\ r \in 1..nruns /\ r \in RunId /\ ~Finished(r)
      /\ slice[w].phase = agg[r].phase /\ slice[w].counts = CountRows(r)
  BY <1>0, <1>1 DEF SliceInv, SliceIsCurrent, Finish, Goto, Scope
<1>4. /\ nruns' = nruns /\ run'[r].status = status
      /\ \A q \in RunId : q # r => run'[q].status = run[q].status
  BY <1>0, <1>1, <1>3 DEF Finish, Completed, WithCursor, TypeOK, Run
<1>5. /\ \A q \in RunId : q # r => agg'[q] = agg[q]
      /\ agg'[r].phase = "done" /\ agg'[r].counts = CountRows(r)
      /\ \A s \in Scope : agg'[r].status[s] = status
  BY <1>0, <1>3 DEF Finalize, AggTypeOK
<1>6. CountRows(r)' = CountRows(r) /\ Finished(r)'
  BY <1>1, <1>4 DEF CountRows, Finished
<1>7. ASSUME NEW t \in Scope, NEW b \in Brawler
      PROVE  /\ rows'[r][t][b] <= 1
             /\ IF Behind(r, t, b)' THEN b \in steady[r] => rows'[r][t][b] = 1
                ELSE rows'[r][t][b] = 0
  <2>1. Behind(r, t, b) /\ Behind(r, t, b)'
    BY <1>1, <1>3, <1>5 DEF Behind
  <2> QED
    BY <1>1, <1>3, <2>1 DEF RowsInv, RowsFollowCursor, NoDoubleWrite
<1>8. \A q \in RunId : q # r =>
        rows'[q] = rows[q] /\ agg'[q] = agg[q] /\ run'[q].status = run[q].status
  BY <1>1, <1>4, <1>5
<1> QED
  BY <1>1, <1>2, <1>3, <1>4, <1>5, <1>6, <1>7, <1>8, WrittenRunDecides

-----------------------------------------------------------------------------
\* Every step keeps the inductive invariant.
LEMMA NextJobInv ==
  ASSUME SliceFitsTTL, JobInv, [AggNext]_vars
  PROVE  JobInv'
<1>1. WorkflowInv' /\ AggTypeOK'
  BY AggStepIsStep, NextInv, AggNextTypeOK DEF JobInv
<1>2. TypeOK /\ MutualExclusion
  BY LockExcludes DEF JobInv, WorkflowInv
<1>3. ASSUME JobQuiet PROVE RowsInv' /\ SliceInv'
  BY <1>2, <1>3, QuietKeepsRows, QuietKeepsSlices DEF JobInv
<1>4. ASSUME NEW w \in Worker, JobStep(w)
      PROVE  RowsInv' /\ SliceInv'
  <2>1. CASE Housekeeping(w) \/ (InsertBatch(w) /\ Rejected(w))
    BY <1>3, <2>1, QuietSteps DEF JobInv, RowsInv
  <2>2. CASE InsertBatch(w) /\ ~Rejected(w)
    BY <1>2, <2>2, InsertKeepsJobInv
  <2>3. CASE Claim(w)
    BY <1>2, <2>3, ClaimKeepsJobInv
  <2>4. ASSUME NEW r \in RunId, Load(w, r) PROVE RowsInv' /\ SliceInv'
    BY <2>4, LoadKeepsJobInv
  <2>5. CASE Advance(w)
    BY <1>2, <2>5, AdvanceKeepsJobInv
  <2>6. ASSUME NEW status \in Visible, Finalize(w, status) PROVE RowsInv' /\ SliceInv'
    BY <1>2, <2>6, FinalizeKeepsJobInv
  <2> QED
    BY <1>4, <2>1, <2>2, <2>3, <2>4, <2>5, <2>6 DEF JobStep
<1>5. CASE \/ \E w \in Worker : Fail(w)
           \/ \E b \in Volatile : CatalogChange(b)
           \/ Time
           \/ UNCHANGED vars
  <2>1. AggTypeOK /\ SteadyAreActive
    BY DEF JobInv, RowsInv
  <2>2. JobQuiet
    BY <1>5, <2>1, QuietSteps, Zenon
  <2> QED
    BY <1>1, <1>3, <2>2 DEF JobInv
<1> QED
  BY <1>1, <1>4, <1>5 DEF JobInv, AggNext

\* When a slice fits in the TTL, the inductive invariant always holds.
LEMMA JobInvHolds ==
  ASSUME SliceFitsTTL
  PROVE  AggSpec => []JobInv
<1>1. JobInv /\ [AggNext]_vars => JobInv'
  BY NextJobInv
<1> QED
  BY InitJobInv, <1>1, PTL DEF AggSpec

\* What ranking reads is the newest run that has finished: it is whole.
LEMMA LatestRunIsWhole ==
  ASSUME JobInv
  PROVE  LatestIsWhole
<1> SUFFICES ASSUME LatestSuccessful # 0
             PROVE  /\ \A s \in Scope, b \in steady[LatestSuccessful] :
                         rows[LatestSuccessful][s][b] = 1
                    /\ agg[LatestSuccessful].counts = CountRows(LatestSuccessful)
  BY DEF LatestIsWhole
<1> DEFINE done == {r \in RunId : Finished(r)}
<1>1. done # {} /\ LatestSuccessful = Max(done)
  BY DEF LatestSuccessful
<1>2. done \subseteq 0..MaxRuns /\ MaxRuns \in Nat
  BY WorkflowAssumption DEF RunId
<1>3. LatestSuccessful \in done
  <2> HIDE DEF done
  <2> QED
    BY <1>1, <1>2, GreatestIsMax
<1>4. PICK r \in RunId : r = LatestSuccessful /\ Finished(r)
  BY <1>3
<1>5. r \in 1..nruns
  BY <1>4, StartedRuns DEF JobInv, WorkflowInv, FutureRunsAbsent, Finished, Visible
<1>6. agg[r].phase = "done" /\ agg[r].counts = CountRows(r)
  BY <1>4, <1>5 DEF JobInv, RowsInv, FinishedIsDone
<1>7. \A s \in Scope, b \in Brawler : Behind(r, s, b)
  BY <1>6 DEF Behind
<1>8. \A s \in Scope, b \in steady[r] : rows[r][s][b] = 1
  BY <1>5, <1>7 DEF JobInv, RowsInv, RowsFollowCursor, AggTypeOK
<1> QED
  BY <1>4, <1>6, <1>8

\* The protocol's own invariant holds of the aggregation job: nothing that it
\* adds to the actions of Workflow gets in the way of the lock.
THEOREM AggWorkflowInv ==
  ASSUME SliceFitsTTL
  PROVE  AggSpec => [](WorkflowInv /\ MutualExclusion)
<1>1. JobInv => WorkflowInv /\ MutualExclusion
  BY LockExcludes DEF JobInv, WorkflowInv
<1> QED
  BY JobInvHolds, <1>1, PTL

\* Rows, cursor, scoped runs and workflow run never contradict each other,
\* wherever a slice died, and what ranking reads is whole.
THEOREM AggInvHolds ==
  ASSUME SliceFitsTTL
  PROVE  AggSpec => []AggInv
<1>1. JobInv => AggInv
  BY LatestRunIsWhole DEF JobInv, RowsInv, AggInv
<1> QED
  BY JobInvHolds, <1>1, PTL

\* No slice writes the rows of a brawler twice ("never a partial or double
\* write", lib/aggregation/sync.ts).
THEOREM NothingTwice ==
  ASSUME SliceFitsTTL
  PROVE  AggSpec => []NoDoubleWrite
<1>1. JobInv => NoDoubleWrite
  BY DEF JobInv, RowsInv
<1> QED
  BY JobInvHolds, <1>1, PTL

-----------------------------------------------------------------------------
(* Steps *)

\* A run that has finished is neither the one a slice works on nor a new one.
LEMMA FinishedKept ==
  ASSUME JobInv, [AggNext]_vars, NEW r \in RunId, Finished(r)
  PROVE  rows'[r] = rows[r] /\ agg'[r] = agg[r]
<1> USE DEF JobInv, AggTypeOK
<1>1. r \in 1..nruns /\ r # nruns + 1
  BY StartedRuns DEF WorkflowInv, FutureRunsAbsent, Finished, Visible
<1>2. ASSUME NEW w \in Worker, pc[w] = "work" PROVE mine[w] # r
  BY <1>2 DEF SliceInv, SliceIsCurrent
<1>3. ASSUME NEW w \in Worker, JobStep(w) PROVE rows'[r] = rows[r] /\ agg'[r] = agg[r]
  <2>1. CASE Housekeeping(w)
    BY <2>1 DEF Housekeeping, jobVars
  <2>2. CASE Claim(w)
    BY <1>1, <2>2 DEF Claim
  <2>3. ASSUME NEW q \in RunId, Load(w, q) PROVE rows'[r] = rows[r] /\ agg'[r] = agg[r]
    BY <2>3 DEF Load
  <2>4. CASE Advance(w)
    BY <1>2, <2>4 DEF Advance, Progress, Goto
  <2>5. CASE InsertBatch(w)
    BY <1>2, <2>5 DEF InsertBatch, RowsAndCursor
  <2>6. ASSUME NEW status \in Visible, Finalize(w, status)
        PROVE  rows'[r] = rows[r] /\ agg'[r] = agg[r]
    BY <1>2, <2>6 DEF Finalize, Finish, Goto
  <2> QED
    BY <1>3, <2>1, <2>2, <2>3, <2>4, <2>5, <2>6 DEF JobStep
<1>4. CASE \E w \in Worker : Fail(w)
  BY <1>4 DEF Fail
<1>5. CASE \E b \in Volatile : CatalogChange(b)
  BY <1>5 DEF CatalogChange
<1>6. CASE Time \/ UNCHANGED vars
  BY <1>6 DEF Time, vars, jobVars
<1> QED
  BY <1>3, <1>4, <1>5, <1>6 DEF AggNext

\* Once a run can be read by ranking, no worker adds rows to it.
THEOREM RowsStayAsRead ==
  ASSUME SliceFitsTTL
  PROVE  AggSpec => VisibleRowsImmutable
<1>1. JobInv /\ [AggNext]_vars =>
        [\A r \in RunId : Finished(r) => rows'[r] = rows[r] /\ agg'[r] = agg[r]]_vars
  BY FinishedKept
<1> QED
  BY JobInvHolds, <1>1, PTL DEF AggSpec, VisibleRowsImmutable


-----------------------------------------------------------------------------
(* Refinement: to its readers the job is an atomic one *)

\* A run that has been started has a row.
StartedPresent == \A r \in 1..nruns : run[r].status # "absent"

LEMMA NextStartedPresent ==
  ASSUME AggTypeOK, StartedPresent, [AggNext]_vars
  PROVE  StartedPresent'
<1> USE StartedRuns DEF AggTypeOK
<1>1. ASSUME nruns' = nruns,
             \A r \in RunId : run[r].status # "absent" => run'[r].status # "absent"
      PROVE  StartedPresent'
  BY <1>1 DEF StartedPresent
<1>2. ASSUME NEW w \in Worker, Claim(w)
      PROVE  StartedPresent'
  <2>1. nruns' = nruns + 1 /\ nruns + 1 \in RunId
    BY <1>2, WorkflowAssumption DEF Claim, StartRun, RunId
  <2>2. \A r \in RunId : run'[r] = IF r = nruns + 1 THEN Started(TRUE) ELSE run[r]
    BY <1>2 DEF Claim, StartRun, TypeOK
  <2>3. ASSUME NEW r \in 1..nruns' PROVE run'[r].status # "absent"
    <3>1. r = nruns + 1 \/ r \in 1..nruns
      BY <2>1
    <3> QED
      BY SMTT(30), <2>1, <2>2, <3>1 DEF StartedPresent, Started
  <2> QED
    BY <2>3 DEF StartedPresent
<1>3. ASSUME NEW w \in Worker, Housekeeping(w)
      PROVE  StartedPresent'
  <2>1. ASSUME NEW q \in RunId, Reclaim(w, q)
        PROVE  StartedPresent'
    <3>1. nruns' = nruns
      BY <2>1 DEF Reclaim
    <3>2. ASSUME NEW r \in RunId, run[r].status # "absent"
          PROVE  run'[r].status # "absent"
      BY <2>1, <3>2 DEF Reclaim, TypeOK, Run
    <3> QED
      BY <1>1, <3>1, <3>2
  <2> QED
    BY <1>1, <1>3, <2>1
    DEF Housekeeping, Begin, Acquire, Refused, LoadNone, Release, NextSlice
<1>4. ASSUME NEW w \in Worker, Progress(w)
      PROVE  StartedPresent'
  BY <1>1, <1>4, ProgressKeepsStatus
<1>5. ASSUME NEW w \in Worker, NEW status \in Visible, Finish(w, status)
      PROVE  StartedPresent'
  <2>1. ASSUME NEW r \in RunId, run[r].status # "absent"
        PROVE  run'[r].status # "absent"
    <3>1. run'[r].status = status \/ run'[r] = run[r]
      BY <1>5 DEF Finish, Completed, WithCursor, TypeOK, Run
    <3> QED
      BY <2>1, <3>1 DEF Visible
  <2> QED
    BY <1>1, <1>5, <2>1 DEF Finish
<1>6. ASSUME NEW w \in Worker, Abort(w) \/ Crash(w)
      PROVE  StartedPresent'
  BY <1>1, <1>6 DEF Abort, Crash
<1>7. ASSUME NEW w \in Worker, JobStep(w)
      PROVE  StartedPresent'
  BY <1>1, <1>2, <1>3, <1>4, <1>5, <1>6, <1>7
  DEF JobStep, Load, LoadRun, Advance, InsertBatch, Finalize
<1>8. CASE Time
  <2>1. \A r \in RunId : run'[r].status = run[r].status
    BY <1>8 DEF Time, Tick, TypeOK, Run
  <2> QED
    BY <1>1, <1>8, <2>1 DEF Time, Tick
<1>9. CASE \E b \in Volatile : CatalogChange(b)
  BY <1>1, <1>9 DEF CatalogChange, wfVars
<1>10. CASE UNCHANGED vars
  BY <1>1, <1>10 DEF vars, wfVars
<1> QED
  BY <1>6, <1>7, <1>8, <1>9, <1>10 DEF AggNext, Fail

\* What a reader makes of a run's status.
LEMMA RunStates ==
  ASSUME NEW r \in RunId
  PROVE  /\ RunState(r) = "visible" <=> Finished(r)
         /\ RunState(r) = "running" <=> run[r].status = "running"
         /\ RunState(r) = "absent" <=> run[r].status = "absent"
         /\ RunState(r) \in {"absent", "running", "visible", "failed"}
         /\ RunState(r)' = "visible" <=> Finished(r)'
         /\ RunState(r)' = "running" <=> run'[r].status = "running"
         /\ RunState(r)' = "absent" <=> run'[r].status = "absent"
         /\ RunState(r)' \in {"absent", "running", "visible", "failed"}
BY DEF RunState, Finished, Visible

LEMMA InitRefines == AggInit => Job!Init
<1> SUFFICES ASSUME AggInit PROVE Job!Init
  OBVIOUS
<1>1. \A r \in RunId : RunState(r) = "absent" /\ ~Finished(r)
  BY DEF AggInit, Init, Absent, RunState, Finished, Visible
<1>2. NoRows = Job!Nothing
  BY DEF NoRows, Job!Nothing
<1>3. steady \in [RunId -> SUBSET Brawler] /\ nruns = 0
  BY DEF AggInit, Init
<1> QED
  BY <1>1, <1>2, <1>3 DEF Job!Init

\* What readers see stands still when no status, no demand and no row of a
\* visible run changes.
LEMMA SeenUnchanged ==
  ASSUME UNCHANGED <<nruns, steady>>,
         \A r \in RunId : run'[r].status = run[r].status,
         \A r \in RunId : Finished(r) => rows'[r] = rows[r]
  PROVE  UNCHANGED Job!vars
<1>1. \A r \in RunId : RunState(r)' = RunState(r) /\ (Finished(r)' <=> Finished(r))
  BY DEF RunState, Finished
<1>2. [r \in RunId |-> RunState(r)]' = [r \in RunId |-> RunState(r)]
  BY <1>1
<1>3. [r \in RunId |-> IF Finished(r) THEN rows[r] ELSE NoRows]'
        = [r \in RunId |-> IF Finished(r) THEN rows[r] ELSE NoRows]
  BY <1>1
<1> QED
  BY <1>2, <1>3 DEF Job!vars

\* The claim of a fresh job is the start of a run,
LEMMA ClaimRefines ==
  ASSUME JobInv, NEW w \in Worker, Claim(w)
  PROVE  Job!Start
<1> USE StartedRuns DEF JobInv, AggTypeOK
<1>1. nruns' = nruns + 1 /\ nruns + 1 \in RunId /\ rows' = rows /\ pc[w] = "claim"
  BY WorkflowAssumption DEF Claim, StartRun, Goto, RunId
<1>2. \A r \in RunId : r # nruns + 1 => run'[r] = run[r] /\ steady'[r] = steady[r]
  BY DEF Claim, StartRun
<1>3. run'[nruns + 1].status = "running"
  BY <1>1 DEF Claim, StartRun, Started, TypeOK
<1>4. \A r \in RunId : RunState(r) # "running"
  BY <1>1, RunStates DEF WorkflowInv, NothingRunsAtClaim, Running
<1>5. [r \in RunId |-> RunState(r)]'
        = [[r \in RunId |-> RunState(r)] EXCEPT ![nruns + 1] = "running"]
  BY <1>1, <1>2, <1>3 DEF RunState, Finished, Visible
<1>6. \A r \in RunId : r > nruns => run[r].status = "absent"
  BY DEF WorkflowInv, FutureRunsAbsent
<1>7. \A r \in RunId : Finished(r)' <=> Finished(r)
  <2>1. ASSUME NEW r \in RunId, r = nruns + 1
        PROVE  ~Finished(r) /\ ~Finished(r)'
    <3>1. run[r].status = "absent"
      BY <1>6, <2>1
    <3> QED
      BY <1>3, <2>1, <3>1 DEF Finished, Visible
  <2>2. \A r \in RunId : r # nruns + 1 => (Finished(r)' <=> Finished(r))
    BY <1>2 DEF Finished
  <2> QED
    BY <2>1, <2>2
<1>8. [r \in RunId |-> IF Finished(r) THEN rows[r] ELSE NoRows]'
        = [r \in RunId |-> IF Finished(r) THEN rows[r] ELSE NoRows]
  BY <1>1, <1>7
<1>9. steady' \in [RunId -> SUBSET Brawler]
  BY DEF Claim
<1>10. ASSUME NEW r \in 1..nruns PROVE steady'[r] = steady[r]
  <2>1. r # nruns + 1 /\ r \in RunId
    BY SMTT(30)
  <2> QED
    BY <1>2, <2>1
<1> QED
  BY <1>1, <1>4, <1>5, <1>8, <1>9, <1>10 DEF Job!Start

\* that of a running run whose heartbeat is stale gives it up,
LEMMA ReclaimRefines ==
  ASSUME AggTypeOK, NEW w \in Worker, NEW r \in RunId, Reclaim(w, r), UNCHANGED jobVars
  PROVE  Job!Fail(r) \/ UNCHANGED Job!vars
<1> USE DEF AggTypeOK, jobVars
<1>1. CASE run[r].status = "running"
  <2>1. \A q \in RunId : q # r => run'[q] = run[q]
    BY <1>1 DEF Reclaim, TypeOK
  <2>2. run'[r].status = "failed" /\ nruns' = nruns
    BY <1>1 DEF Reclaim, TypeOK, Run
  <2>3. [q \in RunId |-> RunState(q)]'
          = [[q \in RunId |-> RunState(q)] EXCEPT ![r] = "failed"]
    BY <2>1, <2>2 DEF RunState, Finished, Visible
  <2>4. \A q \in RunId : Finished(q)' <=> Finished(q)
    BY <1>1, <2>1, <2>2 DEF Finished, Visible
  <2>5. [q \in RunId |-> IF Finished(q) THEN rows[q] ELSE NoRows]'
          = [q \in RunId |-> IF Finished(q) THEN rows[q] ELSE NoRows]
    BY <2>4
  <2>6. RunState(r) = "running"
    BY <1>1, RunStates
  <2> QED
    BY <2>2, <2>3, <2>5, <2>6 DEF Job!Fail
<1>2. CASE run[r].status # "running"
  <2>1. run' = run /\ nruns' = nruns
    BY <1>2 DEF Reclaim
  <2> QED
    BY <2>1, SeenUnchanged
<1> QED
  BY <1>1, <1>2

\* and the last transaction of the newest run shows its output, which is whole.
LEMMA FinalizeRefines ==
  ASSUME JobInv, StartedPresent, NEW w \in Worker, NEW status \in Visible, Finalize(w, status)
  PROVE  \E r \in RunId : Job!Complete(r)
<1> USE StartedRuns DEF JobInv, AggTypeOK
<1>0. PICK r : r = mine[w]
  OBVIOUS
<1>1. /\ pc[w] = "work" /\ slice[w].phase \in {"finalize", "done"}
      /\ UNCHANGED <<nruns, rows, steady>>
  BY DEF Finalize, Finish, Goto
<1>2. /\ r = nruns /\ r \in 1..nruns /\ r \in RunId /\ ~Finished(r)
      /\ agg[r].phase \in {"finalize", "done"}
  BY <1>0, <1>1 DEF WorkflowInv, SliceIsOnNewest, SliceInv, SliceIsCurrent
<1>3. \A q \in RunId : q # r => run'[q] = run[q]
  BY <1>0 DEF Finalize, Finish, Completed, WithCursor, TypeOK
<1>4. run'[r].status = status
  BY <1>0, <1>2 DEF Finalize, Finish, Completed, WithCursor, TypeOK, Run
<1>5. RunState(r) \in {"running", "failed"}
  BY <1>2, RunStates DEF StartedPresent
<1>6. [q \in RunId |-> RunState(q)]'
        = [[q \in RunId |-> RunState(q)] EXCEPT ![r] = "visible"]
  BY <1>2, <1>3, <1>4 DEF RunState, Finished, Visible
<1>7. \A q \in RunId : q # r => (Finished(q)' <=> Finished(q))
  BY <1>3 DEF Finished
<1>8. Finished(r)'
  BY <1>4 DEF Finished
<1>9. [q \in RunId |-> IF Finished(q) THEN rows[q] ELSE NoRows]'
        = [[q \in RunId |-> IF Finished(q) THEN rows[q] ELSE NoRows] EXCEPT ![r] = rows[r]]
  BY <1>1, <1>2, <1>7, <1>8
<1>10. rows[r] \in [Scope -> [Brawler -> 0..1]]
  BY <1>2 DEF RowsInv, NoDoubleWrite
<1>11. \A s \in Scope, b \in steady[r] : rows[r][s][b] = 1
  BY <1>2 DEF RowsInv, RowsFollowCursor, Behind
<1>12. Job!Complete(r)
  <2> DEFINE seen == [q \in RunId |-> IF Finished(q) THEN rows[q] ELSE NoRows]
  <2>1. seen' \in {[seen EXCEPT ![r] = out] : out \in [Scope -> [Brawler -> 0..1]]}
    BY <1>9, <1>10
  <2>2. seen'[r] = rows[r]
    BY <1>2, <1>9
  <2>3. \A s \in Scope, b \in steady[r] : seen'[r][s][b] = 1
    BY <1>11, <2>2
  <2>4. r = nruns /\ UNCHANGED <<nruns, steady>>
        /\ [q \in RunId |-> RunState(q)][r] \in {"running", "failed"}
    BY <1>1, <1>2, <1>5
  <2> QED
    BY <1>6, <2>1, <2>3, <2>4 DEF Job!Complete
<1> QED
  BY <1>2, <1>12

\* A brawler that leaves the catalog is wanted no longer.
LEMMA CatalogRefines ==
  ASSUME AggTypeOK, NEW b \in Volatile, CatalogChange(b)
  PROVE  Job!Relax
<1> USE DEF AggTypeOK, CatalogChange, wfVars
<1>1. [r \in RunId |-> RunState(r)]' = [r \in RunId |-> RunState(r)]
  BY DEF RunState, Finished
<1>2. [r \in RunId |-> IF Finished(r) THEN rows[r] ELSE NoRows]'
        = [r \in RunId |-> IF Finished(r) THEN rows[r] ELSE NoRows]
  BY DEF Finished
<1>3. steady' \in [RunId -> SUBSET Brawler] /\ \A r \in RunId : steady'[r] \subseteq steady[r]
  OBVIOUS
<1> QED
  BY <1>1, <1>2, <1>3 DEF Job!Relax

LEMMA NextRefines ==
  ASSUME JobInv, StartedPresent, [AggNext]_vars
  PROVE  [Job!Next]_(Job!vars)
<1> USE DEF JobInv, AggTypeOK
<1>1. ASSUME UNCHANGED <<nruns, steady>>,
             \A r \in RunId : run'[r].status = run[r].status
      PROVE  UNCHANGED Job!vars
  BY <1>1, FinishedKept, SeenUnchanged
<1>2. ASSUME NEW w \in Worker, Housekeeping(w)
      PROVE  [Job!Next]_(Job!vars)
  <2>1. ASSUME NEW r \in RunId, Reclaim(w, r)
        PROVE  [Job!Next]_(Job!vars)
    BY <1>2, <2>1, ReclaimRefines DEF Housekeeping, Job!Next
  <2>2. CASE UNCHANGED <<run, nruns>>
    BY <1>1, <1>2, <2>2 DEF Housekeeping, jobVars
  <2> QED
    BY <1>2, <2>1, <2>2
    DEF Housekeeping, Begin, Acquire, Refused, LoadNone, Release, NextSlice
<1>3. ASSUME NEW w \in Worker, Progress(w), steady' = steady
      PROVE  UNCHANGED Job!vars
  BY <1>1, <1>3, ProgressKeepsStatus
<1>4. ASSUME NEW w \in Worker, Abort(w) \/ Crash(w), steady' = steady
      PROVE  UNCHANGED Job!vars
  BY <1>1, <1>4 DEF Abort, Crash
<1>5. ASSUME NEW w \in Worker, NEW r \in RunId, Load(w, r)
      PROVE  UNCHANGED Job!vars
  BY <1>1, <1>5 DEF Load, LoadRun
<1>6. ASSUME NEW w \in Worker, JobStep(w)
      PROVE  [Job!Next]_(Job!vars)
  <2>1. CASE Claim(w)
    BY <2>1, ClaimRefines DEF Job!Next
  <2>2. CASE \E status \in Visible : Finalize(w, status)
    BY <2>2, FinalizeRefines DEF Job!Next
  <2> QED
    BY <1>2, <1>3, <1>4, <1>5, <1>6, <2>1, <2>2 DEF JobStep, Advance, InsertBatch
<1>7. CASE Time
  <2>1. \A r \in RunId : run'[r].status = run[r].status
    BY <1>7 DEF Time, Tick, TypeOK, Run
  <2> QED
    BY <1>1, <1>7, <2>1 DEF Time, Tick, jobVars
<1>8. CASE \E b \in Volatile : CatalogChange(b)
  BY <1>8, CatalogRefines DEF Job!Next
<1>9. CASE UNCHANGED vars
  BY <1>1, <1>9 DEF vars, wfVars, jobVars
<1> QED
  BY <1>4, <1>6, <1>7, <1>8, <1>9 DEF AggNext, Fail

\* Batches, cursors, crashes, resumed and reclaimed runs implement an atomic
\* job: output appears at once, whole, in the newest run only ("harmlessly
\* invisible" until then, lib/workflow.ts).
THEOREM AggImplementsJob ==
  ASSUME SliceFitsTTL
  PROVE  AggSpec => ImplementsAtomicJob
<1>1. AggInit => StartedPresent
  BY DEF AggInit, Init, StartedPresent
<1>2. JobInv => AggTypeOK
  BY DEF JobInv
<1> QED
  BY <1>1, <1>2, JobInvHolds, NextStartedPresent, InitRefines, NextRefines, PTL
  DEF AggSpec, ImplementsAtomicJob, Job!Spec

-----------------------------------------------------------------------------
(***************************************************************************)
(* Slices that outlive their lock overlap, and then it is the unique keys    *)
(* that count.  When they see every battle and the catalog stands still, a    *)
(* batch is all there or not there at all, and what ranking reads is whole     *)
(* all the same.                                                            *)
(***************************************************************************)
KeysSeeAll == PatchUnknown = {} /\ Volatile = {}

\* A cursor, of a run or read by a slice, is past a brawler of a scope.
Passed(at, s, b) ==
  \/ at.phase \in {"finalize", "done"}
  \/ s = "mode" /\ at.phase \in {"overall", "matchup"}
  \/ s = "overall" /\ at.phase = "matchup"
  \/ s = at.phase /\ b <= at.pos

DoneUpTo(r, at) == \A s \in Scope, b \in active : Passed(at, s, b) => rows[r][s][b] = 1
Complete(r) == \A s \in Scope, b \in active : rows[r][s][b] = 1

\* What a slice has read may be old, but all it is past is there.
SliceReads(w) ==
  /\ mine[w] \in RunId
  /\ DoneUpTo(mine[w], slice[w])
  /\ IF slice[w].phase \in Scope
     THEN slice[w].batch = BatchAfter(slice[w].pos)
     ELSE slice[w].counts = CountRows(mine[w])

OverlapInv ==
  /\ AggTypeOK /\ NoDoubleWrite
  /\ \A r \in RunId : steady[r] \subseteq active
  /\ \A r \in RunId : DoneUpTo(r, agg[r])
  /\ \A r \in RunId : Finished(r) => Complete(r) /\ agg[r].counts = CountRows(r)
  /\ \A w \in Worker : pc[w] = "work" => SliceReads(w)

LEMMA CompleteSlice ==
  ASSUME OverlapInv, NEW w \in Worker, pc[w] = "work", slice[w].phase \notin Scope
  PROVE  Complete(mine[w])
BY DEF OverlapInv, SliceReads, DoneUpTo, Passed, Complete, AggTypeOK, Phase

\* A step under which all that survives: rows are only added, never to a run
\* that has them all, and whatever cursor is written or read has its rows.
OverlapStep ==
  /\ active' = active /\ NoDoubleWrite'
  /\ \A r \in RunId : steady'[r] \subseteq active
  /\ \A r \in RunId, s \in Scope, b \in Brawler : rows[r][s][b] = 1 => rows'[r][s][b] = 1
  /\ \A r \in RunId : Complete(r) => rows'[r] = rows[r]
  /\ \A r \in RunId : \/ agg'[r] = agg[r]
                      \/ \A s \in Scope, b \in active :
                           Passed(agg'[r], s, b) => rows'[r][s][b] = 1
  /\ \A r \in RunId : Finished(r)' =>
       \/ Finished(r) /\ agg'[r].counts = agg[r].counts
       \/ Complete(r) /\ agg'[r].counts = CountRows(r)
  /\ \A w \in Worker : pc'[w] = "work" =>
       \/ pc[w] = "work" /\ mine'[w] = mine[w] /\ slice'[w] = slice[w]
       \/ SliceReads(w)'

LEMMA OverlapKept ==
  ASSUME OverlapInv, AggTypeOK', OverlapStep
  PROVE  OverlapInv'
<1>0. active \subseteq Brawler /\ active' = active
  BY DEF OverlapInv, AggTypeOK, OverlapStep
<1>1. ASSUME NEW r \in RunId, NEW at, DoneUpTo(r, at)
      PROVE  \A s \in Scope, b \in active : Passed(at, s, b) => rows'[r][s][b] = 1
  BY <1>0, <1>1 DEF DoneUpTo, OverlapStep
<1>2. ASSUME NEW r \in RunId, Complete(r)
      PROVE  Complete(r)' /\ CountRows(r)' = CountRows(r)
  <2>1. rows'[r] = rows[r]
    BY <1>2 DEF OverlapStep
  <2> QED
    BY <1>0, <1>2, <2>1 DEF Complete, CountRows
<1>3. ASSUME NEW r \in RunId PROVE DoneUpTo(r, agg[r])'
  <2>1. CASE agg'[r] = agg[r]
    <3>1. DoneUpTo(r, agg[r])
      BY DEF OverlapInv
    <3>2. \A s \in Scope, b \in active : Passed(agg[r], s, b) => rows'[r][s][b] = 1
      BY <1>1, <3>1
    <3> QED
      BY <1>0, <2>1, <3>2 DEF DoneUpTo
  <2>2. CASE \A s \in Scope, b \in active : Passed(agg'[r], s, b) => rows'[r][s][b] = 1
    BY <1>0, <2>2 DEF DoneUpTo
  <2> QED
    BY <2>1, <2>2 DEF OverlapStep
<1>4. ASSUME NEW r \in RunId, Finished(r)'
      PROVE  Complete(r)' /\ agg'[r].counts = CountRows(r)'
  BY <1>2, <1>4 DEF OverlapInv, OverlapStep
<1>5. ASSUME NEW w \in Worker, pc'[w] = "work" PROVE SliceReads(w)'
  <2>1. CASE pc[w] = "work" /\ mine'[w] = mine[w] /\ slice'[w] = slice[w]
    <3>1. SliceReads(w)
      BY <2>1 DEF OverlapInv
    <3>2. mine[w] \in RunId
          /\ \A s \in Scope, b \in active : Passed(slice[w], s, b) => rows'[mine[w]][s][b] = 1
      BY <1>1, <3>1 DEF SliceReads
    <3>3. DoneUpTo(mine[w], slice[w])'
      BY <1>0, <2>1, <3>2 DEF DoneUpTo
    <3>4. CASE slice[w].phase \in Scope
      BY <1>0, <2>1, <3>1, <3>2, <3>3, <3>4 DEF SliceReads, BatchAfter
    <3>5. CASE slice[w].phase \notin Scope
      <4>1. CountRows(mine[w])' = CountRows(mine[w])
        <5>1. PICK r \in RunId : r = mine[w]
          BY <3>2
        <5>2. Complete(r)
          BY <2>1, <3>5, <5>1, CompleteSlice
        <5>3. rows'[r] = rows[r]
          BY <5>2 DEF OverlapStep
        <5> QED
          BY <2>1, <5>1, <5>3 DEF CountRows
      <4> QED
        BY <2>1, <3>1, <3>2, <3>3, <3>5, <4>1 DEF SliceReads
    <3> QED
      BY <3>4, <3>5
  <2> QED
    BY <1>5, <2>1 DEF OverlapStep
<1> QED
  BY <1>0, <1>3, <1>4, <1>5 DEF OverlapInv, OverlapStep

LEMMA InitOverlap == AggInit => OverlapInv
<1> SUFFICES ASSUME AggInit PROVE OverlapInv
  OBVIOUS
<1>1. AggTypeOK
  BY InitAggTypeOK
<1>2. NoDoubleWrite /\ \A r \in RunId : steady[r] \subseteq active
  BY DEF AggInit, NoRows, NoDoubleWrite
<1>3. ASSUME NEW r \in RunId PROVE DoneUpTo(r, agg[r])
  <2>1. agg[r].phase = "mode" /\ agg[r].pos = 0
    BY DEF AggInit, FreshJob
  <2>2. active \subseteq 1..NBrawlers
    BY <1>1 DEF AggTypeOK, Brawler
  <2> QED
    BY <2>1, <2>2, AggregationAssumption DEF DoneUpTo, Passed
<1>4. \A r \in RunId : ~Finished(r)
  BY DEF AggInit, Init, Finished, Visible, Absent
<1>5. \A w \in Worker : pc[w] # "work"
  BY DEF AggInit, Init
<1> QED
  BY <1>1, <1>2, <1>3, <1>4, <1>5 DEF OverlapInv

\* A slice that has nothing to write in its scope moves on to the next one.
LEMMA AdvanceOverlaps ==
  ASSUME OverlapInv, NEW w \in Worker, Advance(w)
  PROVE  OverlapStep
<1> USE DEF OverlapInv, AggTypeOK
<1>0. PICK r : r = mine[w]
  OBVIOUS
<1>1. /\ pc[w] = "work" /\ slice[w].phase \in Scope /\ slice[w].batch = {}
      /\ UNCHANGED <<active, rows, steady, nruns>>
  BY DEF Advance, Progress, Goto
<1>2. r \in RunId /\ DoneUpTo(r, slice[w]) /\ BatchAfter(slice[w].pos) = {}
  BY <1>0, <1>1 DEF SliceReads
<1>3. \A q \in RunId : agg'[q].counts = agg[q].counts
  BY DEF Advance
<1>4. \A q \in RunId : q # r => agg'[q] = agg[q]
  BY <1>0 DEF Advance
<1>5. agg'[r].phase = NextPhase[slice[w].phase] /\ agg'[r].pos = 0
  BY <1>0, <1>2 DEF Advance
<1>6. \A b \in active : b <= slice[w].pos
  BY <1>2, BatchIsNext
<1>7. \A s \in Scope, b \in active : Passed(agg'[r], s, b) => Passed(slice[w], s, b)
  BY <1>1, <1>5, <1>6, AggregationAssumption DEF Passed, NextPhase, Scope, Brawler
<1>8. \A s \in Scope, b \in active : Passed(agg'[r], s, b) => rows'[r][s][b] = 1
  BY <1>1, <1>2, <1>7 DEF DoneUpTo
<1>9. \A q \in RunId : Finished(q)' => Finished(q)
  BY ProgressKeepsStatus DEF Advance, Finished
<1>10. \A v \in Worker : pc'[v] = "work" =>
         pc[v] = "work" /\ mine'[v] = mine[v] /\ slice'[v] = slice[v]
  BY DEF Advance, Progress, Goto, TypeOK
<1>11. NoDoubleWrite'
  BY <1>1 DEF NoDoubleWrite
<1> QED
  BY <1>1, <1>2, <1>3, <1>4, <1>8, <1>9, <1>10, <1>11 DEF OverlapStep

\* The read of a slice: all that its cursor is past is there, and of a run that
\* is past everything the counts are right for good.
LEMMA LoadOverlaps ==
  ASSUME OverlapInv, NEW w \in Worker, NEW r \in RunId, Load(w, r)
  PROVE  OverlapStep
<1> USE DEF OverlapInv, AggTypeOK
<1>1. UNCHANGED <<active, agg, rows, steady, nruns, run>>
  BY DEF Load, LoadRun
<1>2. \A v \in Worker : v # w /\ pc'[v] = "work" =>
        pc[v] = "work" /\ mine'[v] = mine[v] /\ slice'[v] = slice[v]
  BY DEF Load, LoadRun, Goto, TypeOK
<1>3. mine'[w] = r
  BY DEF Load, LoadRun, TypeOK
<1>4. /\ slice'[w].phase = agg[r].phase /\ slice'[w].pos = agg[r].pos
      /\ slice'[w].batch = IF agg[r].phase \in Scope THEN BatchAfter(agg[r].pos) ELSE {}
      /\ slice'[w].counts = IF agg[r].phase \in Scope THEN NoCounts ELSE CountRows(r)
  BY DEF Load
<1>5. DoneUpTo(mine[w], slice[w])'
  BY <1>1, <1>3, <1>4 DEF DoneUpTo, Passed
<1>6. SliceReads(w)'
  BY <1>1, <1>3, <1>4, <1>5 DEF SliceReads, BatchAfter, CountRows
<1>7. NoDoubleWrite' /\ \A q \in RunId : Finished(q)' <=> Finished(q)
  BY <1>1 DEF NoDoubleWrite, Finished
<1> QED
  BY <1>1, <1>2, <1>6, <1>7 DEF OverlapStep

\* A new run starts with its cursor before everything.
LEMMA ClaimOverlaps ==
  ASSUME OverlapInv, NEW w \in Worker, Claim(w)
  PROVE  OverlapStep
<1> USE DEF OverlapInv, AggTypeOK
<1>1. UNCHANGED <<active, rows, slice>> /\ nruns + 1 \in RunId
  BY WorkflowAssumption DEF Claim, StartRun, TypeOK, RunId
<1>2. \A r \in RunId : r # nruns + 1 => agg'[r] = agg[r] /\ steady'[r] = steady[r]
        /\ run'[r] = run[r]
  BY DEF Claim, StartRun, TypeOK
<1>3. /\ agg'[nruns + 1].phase = "mode" /\ agg'[nruns + 1].pos = 0
      /\ steady'[nruns + 1] = active
  BY <1>1 DEF Claim, FreshJob
<1>4. run'[nruns + 1].status = "running"
  BY <1>1 DEF Claim, StartRun, TypeOK, Started
<1>5. active \subseteq 1..NBrawlers
  BY DEF Brawler
<1>6. \A s \in Scope, b \in active : ~Passed(agg'[nruns + 1], s, b)
  BY <1>3, <1>5, AggregationAssumption DEF Passed
<1>7. \A q \in RunId : Finished(q)' => Finished(q) /\ agg'[q] = agg[q]
  BY <1>2, <1>4 DEF Finished, Visible
<1>8. \A v \in Worker : pc'[v] = "work" =>
        pc[v] = "work" /\ mine'[v] = mine[v] /\ slice'[v] = slice[v]
  BY <1>1 DEF Claim, StartRun, Goto, TypeOK
<1>9. NoDoubleWrite' /\ \A r \in RunId : steady'[r] \subseteq active
  BY <1>1, <1>2, <1>3 DEF NoDoubleWrite
<1> QED
  BY <1>1, <1>2, <1>6, <1>7, <1>8, <1>9 DEF OverlapStep

\* The keys let a batch in only if none of it is there; then all below its end is.
LEMMA InsertOverlaps ==
  ASSUME KeysSeeAll, OverlapInv, NEW w \in Worker, InsertBatch(w), ~Rejected(w)
  PROVE  OverlapStep
<1> USE DEF OverlapInv, AggTypeOK
<1>0. PICK r : r = mine[w]
  OBVIOUS
<1>a. PICK s : s = slice[w].phase
  OBVIOUS
<1>b. PICK batch : batch = slice[w].batch
  OBVIOUS
<1>1. /\ pc[w] = "work" /\ s \in Scope /\ batch # {}
      /\ Progress(w) /\ RowsAndCursor(r, s, batch)
      /\ UNCHANGED <<active, steady>>
  BY <1>0, <1>a, <1>b DEF InsertBatch
<1>2. r \in RunId /\ DoneUpTo(r, slice[w]) /\ batch = BatchAfter(slice[w].pos)
  BY <1>0, <1>a, <1>b, <1>1 DEF SliceReads
<1>3. slice[w].pos \in 0..NBrawlers /\ batch \subseteq active
      /\ batch \subseteq Brawler /\ batch \subseteq 0..NBrawlers
  <2>1. slice[w].pos \in 0..NBrawlers
    OBVIOUS
  <2>2. batch \subseteq active /\ active \subseteq Brawler
    BY <1>2 DEF BatchAfter
  <2>3. Brawler \subseteq 0..NBrawlers
    BY AggregationAssumption DEF Brawler
  <2> QED
    BY <2>1, <2>2, <2>3
<1>4. /\ \A b \in batch : b > slice[w].pos
      /\ \A a \in active, b \in batch : slice[w].pos < a /\ a <= b => a \in batch
  BY <1>2, <1>3, BatchIsNext
<1>5. Max(batch) \in batch /\ \A b \in batch : Max(batch) >= b
  BY <1>1, <1>3, GreatestIsMax, AggregationAssumption
<1>6. \A b \in batch : rows[r][s][b] = 0
  <2>1. \A b \in batch : ~(rows[r][s][b] > 0)
    BY <1>0, <1>a, <1>b, <1>1 DEF Rejected, Conflict, KeysSeeAll
  <2>2. \A b \in batch : rows[r][s][b] \in Nat
    BY <1>1, <1>2, <1>3
  <2> QED
    BY <2>1, <2>2
<1>7. /\ \A q \in RunId : q # r => agg'[q] = agg[q] /\ rows'[q] = rows[q]
      /\ agg'[r].phase = s /\ agg'[r].pos = Max(batch)
      /\ agg'[r].counts = agg[r].counts
  BY <1>1, <1>2 DEF RowsAndCursor
<1>8. ASSUME NEW t \in Scope, NEW b \in Brawler
      PROVE  rows'[r][t][b] = IF t = s /\ b \in batch THEN rows[r][t][b] + 1
                              ELSE rows[r][t][b]
  BY <1>1, <1>2 DEF RowsAndCursor
<1>9. ASSUME NEW t \in Scope, NEW b \in Brawler
      PROVE  /\ rows'[r][t][b] <= 1
             /\ rows[r][t][b] = 1 => rows'[r][t][b] = 1
  <2>1. rows[r][t][b] \in Nat /\ rows[r][t][b] <= 1
    BY <1>2 DEF NoDoubleWrite
  <2> QED
    BY <1>6, <1>8, <2>1
<1>10. NoDoubleWrite' /\ \A q \in RunId, t \in Scope, b \in Brawler :
                           rows[q][t][b] = 1 => rows'[q][t][b] = 1
  <2>1. ASSUME NEW q \in RunId, NEW t \in Scope, NEW b \in Brawler
        PROVE  rows'[q][t][b] <= 1 /\ (rows[q][t][b] = 1 => rows'[q][t][b] = 1)
    <3>1. CASE q = r
      BY <1>9, <3>1
    <3>2. CASE q # r
      <4>1. rows'[q] = rows[q]
        BY <1>7, <3>2
      <4>2. rows[q][t][b] <= 1
        BY <1>2 DEF NoDoubleWrite
      <4> QED
        BY <4>1, <4>2
    <3> QED
      BY <3>1, <3>2
  <2> QED
    BY <2>1 DEF NoDoubleWrite
<1>11. ~Complete(r)
  <2>1. Max(batch) \in active /\ rows[r][s][Max(batch)] = 0
    BY <1>3, <1>5, <1>6
  <2> QED
    BY <1>1, <2>1 DEF Complete
<1>12. ASSUME NEW t \in Scope, NEW b \in active, Passed(agg'[r], t, b)
       PROVE  rows'[r][t][b] = 1
  <2>0. b \in Brawler /\ b \in Int /\ Max(batch) \in Int /\ slice[w].pos \in Int
    <3>1. b \in Brawler /\ Max(batch) \in Brawler
      BY <1>3, <1>5
    <3>2. \A i \in Brawler \cup 0..NBrawlers : i \in Int
      BY AggregationAssumption DEF Brawler
    <3> QED
      BY <1>3, <3>1, <3>2
  <2>1. CASE Passed(slice[w], t, b)
    BY <1>2, <1>9, <2>0, <2>1 DEF DoneUpTo
  <2>2. CASE ~Passed(slice[w], t, b)
    <3>1. t = s /\ b <= Max(batch) /\ ~(b <= slice[w].pos)
      BY <1>a, <1>1, <1>7, <1>12, <2>2 DEF Passed, Scope
    <3>2. b \in batch
      BY <1>4, <1>5, <2>0, <3>1
    <3> QED
      BY <1>6, <1>8, <2>0, <3>1, <3>2
  <2> QED
    BY <2>1, <2>2
<1>13. \A q \in RunId : Finished(q)' => Finished(q)
  BY <1>1, ProgressKeepsStatus DEF Finished
<1>14. \A v \in Worker : pc'[v] = "work" =>
         pc[v] = "work" /\ mine'[v] = mine[v] /\ slice'[v] = slice[v]
  BY <1>1 DEF InsertBatch, Progress, Goto, TypeOK
<1>15. \A q \in RunId : agg'[q].counts = agg[q].counts
  BY <1>7
<1>16. \A q \in RunId : agg'[q] = agg[q] \/ \A t \in Scope, b \in active :
                          Passed(agg'[q], t, b) => rows'[q][t][b] = 1
  BY <1>7, <1>12
<1> QED
  BY <1>1, <1>7, <1>10, <1>11, <1>13, <1>14, <1>15, <1>16 DEF OverlapStep

\* A slice that completes its run has seen it complete, whoever else works on it.
LEMMA FinalizeOverlaps ==
  ASSUME OverlapInv, NEW w \in Worker, NEW status \in Visible, Finalize(w, status)
  PROVE  OverlapStep
<1> USE DEF OverlapInv, AggTypeOK
<1>0. PICK r : r = mine[w]
  OBVIOUS
<1>1. /\ pc[w] = "work" /\ slice[w].phase \notin Scope
      /\ UNCHANGED <<active, rows, steady>>
  BY DEF Finalize, Finish, Goto, Scope
<1>2. r \in RunId /\ Complete(r) /\ slice[w].counts = CountRows(r)
  BY <1>0, <1>1, CompleteSlice DEF SliceReads
<1>3. \A q \in RunId : q # r => agg'[q] = agg[q] /\ (Finished(q)' <=> Finished(q))
  BY <1>0 DEF Finalize, Finish, Completed, WithCursor, TypeOK, Finished
<1>4. agg'[r].counts = CountRows(r)
  BY <1>0, <1>2 DEF Finalize
<1>5. \A s \in Scope, b \in active : rows'[r][s][b] = 1
  BY <1>1, <1>2 DEF Complete
<1>6. \A v \in Worker : pc'[v] = "work" =>
        pc[v] = "work" /\ mine'[v] = mine[v] /\ slice'[v] = slice[v]
  BY <1>1 DEF Finalize, Finish, Goto, TypeOK
<1>7. NoDoubleWrite'
  BY <1>1 DEF NoDoubleWrite
<1> QED
  BY <1>1, <1>2, <1>3, <1>4, <1>5, <1>6, <1>7 DEF OverlapStep

LEMMA NextOverlaps ==
  ASSUME KeysSeeAll, OverlapInv, [AggNext]_vars
  PROVE  OverlapInv'
<1>0. AggTypeOK /\ AggTypeOK'
  BY AggNextTypeOK DEF OverlapInv
<1>1. SUFFICES OverlapStep
  BY <1>0, <1>1, OverlapKept
<1>2. ASSUME JobQuiet, active' = active
      PROVE  OverlapStep
  <2>1. NoDoubleWrite'
    BY <1>2 DEF JobQuiet, NoDoubleWrite, OverlapInv
  <2>2. \A r \in RunId : steady'[r] \subseteq active
    BY <1>2 DEF JobQuiet, OverlapInv
  <2>3. UNCHANGED <<rows, agg>>
    BY <1>2 DEF JobQuiet
  <2>4. \A r \in RunId : Finished(r)' => Finished(r)
    BY <1>2 DEF JobQuiet
  <2>5. \A w \in Worker : pc'[w] = "work" =>
          pc[w] = "work" /\ mine'[w] = mine[w] /\ slice'[w] = slice[w]
    BY <1>2 DEF JobQuiet
  <2> QED
    BY <1>2, <2>1, <2>2, <2>3, <2>4, <2>5 DEF OverlapStep
<1>3. SteadyAreActive
  BY <1>0, StartedRuns DEF OverlapInv, SteadyAreActive, AggTypeOK
<1>4. ASSUME NEW w \in Worker,
             Housekeeping(w) \/ Fail(w) \/ (InsertBatch(w) /\ Rejected(w))
      PROVE  OverlapStep
  <2>1. JobQuiet
    BY <1>0, <1>3, <1>4, QuietSteps
  <2>2. active' = active
    BY <1>4 DEF Housekeeping, Fail, InsertBatch, jobVars
  <2> QED
    BY <1>2, <2>1, <2>2
<1>5. CASE Time \/ UNCHANGED vars
  <2>1. JobQuiet
    BY <1>0, <1>3, <1>5, QuietSteps
  <2>2. active' = active
    BY <1>5 DEF Time, vars, jobVars
  <2> QED
    BY <1>2, <2>1, <2>2
<1>6. ASSUME NEW w \in Worker, JobStep(w)
      PROVE  OverlapStep
  <2>1. CASE Claim(w)
    BY <2>1, ClaimOverlaps
  <2>2. ASSUME NEW r \in RunId, Load(w, r) PROVE OverlapStep
    BY <2>2, LoadOverlaps
  <2>3. CASE Advance(w)
    BY <2>3, AdvanceOverlaps
  <2>4. CASE InsertBatch(w) /\ ~Rejected(w)
    BY <2>4, InsertOverlaps
  <2>5. ASSUME NEW status \in Visible, Finalize(w, status) PROVE OverlapStep
    BY <2>5, FinalizeOverlaps
  <2> QED
    BY <1>4, <1>6, <2>1, <2>2, <2>3, <2>4, <2>5 DEF JobStep
<1> QED
  BY <1>4, <1>5, <1>6 DEF AggNext, KeysSeeAll

\* The run that ranking reads has all its rows once, and the counts to match.
LEMMA CompleteIsWhole ==
  ASSUME OverlapInv
  PROVE  LatestIsWhole
<1> SUFFICES ASSUME LatestSuccessful # 0
             PROVE  /\ \A s \in Scope, b \in steady[LatestSuccessful] :
                         rows[LatestSuccessful][s][b] = 1
                    /\ agg[LatestSuccessful].counts = CountRows(LatestSuccessful)
  BY DEF LatestIsWhole
<1> DEFINE done == {r \in RunId : Finished(r)}
<1>1. done # {} /\ LatestSuccessful = Max(done)
  BY DEF LatestSuccessful
<1>2. done \subseteq 0..MaxRuns /\ MaxRuns \in Nat
  BY WorkflowAssumption DEF RunId
<1>3. LatestSuccessful \in done
  <2> HIDE DEF done
  <2> QED
    BY <1>1, <1>2, GreatestIsMax
<1>4. PICK r \in RunId : r = LatestSuccessful /\ Finished(r)
  BY <1>3
<1>5. Complete(r) /\ agg[r].counts = CountRows(r) /\ steady[r] \subseteq active
  BY <1>4 DEF OverlapInv
<1>6. \A s \in Scope, b \in steady[r] : rows[r][s][b] = 1
  BY <1>5 DEF Complete
<1> QED
  BY <1>4, <1>5, <1>6

\* Two slices on one run cannot spoil what ranking reads, however long they
\* take, as long as every battle has a patch and the catalog stands still: the
\* unique keys of the aggregate tables are enough.
THEOREM WholeWhenSlicesOverlap ==
  ASSUME KeysSeeAll
  PROVE  AggSpec => [](LatestIsWhole /\ NoDoubleWrite)
<1>1. OverlapInv /\ [AggNext]_vars => OverlapInv'
  BY NextOverlaps
<1>2. OverlapInv => LatestIsWhole /\ NoDoubleWrite
  BY CompleteIsWhole DEF OverlapInv
<1> QED
  BY InitOverlap, <1>1, <1>2, PTL DEF AggSpec
=============================================================================
