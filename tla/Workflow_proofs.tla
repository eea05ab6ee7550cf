-------------------------- MODULE Workflow_proofs --------------------------
(***************************************************************************)
(* Proofs about Workflow, for any number of workers, runs and any TTL.     *)
(* All of them go through WorkflowInv, which is inductive when one slice   *)
(* fits in the TTL of its lock row; type correctness needs no hypothesis.  *)
(***************************************************************************)
EXTENDS Workflow, FiniteSetsExt, Orders

\* Max finds the greatest.
LEMMA GreatestIsMax ==
  ASSUME NEW N \in Nat, NEW S \in SUBSET (0..N), S # {}
  PROVE  Max(S) \in S /\ \A y \in S : Max(S) >= y
BY GreatestNat DEF Max

-----------------------------------------------------------------------------

\* The program starts in a state of the right types.
LEMMA InitTypeOK == Init => TypeOK
  BY WorkflowAssumption
  DEF Init, TypeOK, Unlocked, Absent, Run, Status, ErrorSummary, PC, RunId

\* The two ways a slice changes a row keep the rows well-typed.
LEMMA WithCursorType ==
  ASSUME run \in [RunId -> Run], NEW r
  PROVE  WithCursor(r) \in [RunId -> Run]
<1>1. ASSUME NEW q \in RunId PROVE WithCursor(r)[q] \in Run
  <2>1. run[q] \in Run /\ 0 \in 0..(Stale + 1)
    BY WorkflowAssumption
  <2>2. WithCursor(r)[q] = IF q = r
                           THEN [run[q] EXCEPT !.cursor = TRUE, !.age = 0]
                           ELSE run[q]
    BY DEF WithCursor
  <2>3. [run[q] EXCEPT !.cursor = TRUE, !.age = 0] \in Run
    BY <2>1 DEF Run
  <2> QED
    BY <2>1, <2>2, <2>3
<1> QED
  BY <1>1 DEF WithCursor

\* completeWorkflowRun, and the update of a reclaim, leave a well-typed row.
LEMMA CompletedType ==
  ASSUME NEW f \in [RunId -> Run], NEW r,
         NEW status \in Terminal, NEW err \in ErrorSummary
  PROVE  Completed(f, r, status, err) \in [RunId -> Run]
<1>1. ASSUME NEW q \in RunId PROVE Completed(f, r, status, err)[q] \in Run
  <2>1. f[q] \in Run /\ 0 \in 0..(Stale + 1) /\ status \in Status
    BY WorkflowAssumption DEF Status
  <2>2. Completed(f, r, status, err)[q] =
          IF q = r
          THEN [f[q] EXCEPT !.status = status, !.err = err, !.age = 0]
          ELSE f[q]
    BY DEF Completed
  <2>3. [f[q] EXCEPT !.status = status, !.err = err, !.age = 0] \in Run
    BY <2>1 DEF Run
  <2> QED
    BY <2>1, <2>2, <2>3
<1> QED
  BY <1>1 DEF Completed

\* Each step, of the protocol, a failure or the clock, keeps the types.
LEMMA NextTypeOK == TypeOK /\ [Next]_wfVars => TypeOK'
<1> SUFFICES ASSUME TypeOK, [Next]_wfVars
             PROVE  TypeOK'
  OBVIOUS
<1> USE WorkflowAssumption DEF TypeOK, RunId, PC
<1>1. ASSUME NEW w \in Worker, Begin(w)
      PROVE  TypeOK'
  BY <1>1 DEF Begin, Rests, StaleRuns, Running
<1>2. ASSUME NEW w \in Worker, NEW r \in RunId, Reclaim(w, r)
      PROVE  TypeOK'
  <2>1. run' \in [RunId -> Run]
    <3>1. ASSUME run' = Completed(run, r, "failed", "stale_reclaimed")
          PROVE  run' \in [RunId -> Run]
      BY <3>1, CompletedType DEF Terminal, ErrorSummary
    <3> QED
      BY <1>2, <3>1 DEF Reclaim, Completed
  <2> QED
    BY <1>2, <2>1 DEF Reclaim
<1>3. ASSUME NEW w \in Worker, Acquire(w)
      PROVE  TypeOK'
  BY <1>3 DEF Acquire, Goto
<1>4. ASSUME NEW w \in Worker, Refused(w) \/ LoadNone(w) \/ NextSlice(w)
      PROVE  TypeOK'
  BY <1>4 DEF Refused, LoadNone, NextSlice, Goto
<1>5. ASSUME NEW w \in Worker, NEW r \in RunId, LoadRun(w, r)
      PROVE  TypeOK'
  BY <1>5 DEF LoadRun, Goto
<1>6. ASSUME NEW w \in Worker, NEW withCursor \in BOOLEAN, StartRun(w, withCursor)
      PROVE  TypeOK'
  BY SMTT(30), <1>6 DEF StartRun, Goto, Started, Run, Status, Terminal, ErrorSummary
<1>7. ASSUME NEW w \in Worker, FirstCursor(w) \/ Progress(w)
      PROVE  TypeOK'
  <2>1. run' \in [RunId -> Run]
    BY <1>7, WithCursorType DEF FirstCursor, Progress
  <2>2. /\ pc' = [pc EXCEPT ![w] = "sliced"]
        /\ mine' = [mine EXCEPT ![w] = 0]
        /\ UNCHANGED <<lock, nruns, elapsed, staleSeen>>
    BY <1>7 DEF FirstCursor, Progress, Goto
  <2> QED
    BY <2>1, <2>2
<1>8. ASSUME NEW w \in Worker, FailStart(w) \/ FailMissing(w)
      PROVE  TypeOK'
  <2>1. run' \in [RunId -> Run]
    <3>1. PICK err \in {"job_error", "missing_cursor"} :
            run' = Completed(run, mine[w], "failed", err)
      BY <1>8 DEF FailStart, FailMissing
    <3>2. err \in ErrorSummary /\ "failed" \in Terminal
      BY DEF Terminal, ErrorSummary
    <3> QED
      BY <3>1, <3>2, CompletedType
  <2>2. /\ pc' \in [Worker -> PC]
        /\ mine' = [mine EXCEPT ![w] = 0]
        /\ UNCHANGED <<lock, nruns, elapsed, staleSeen>>
    BY <1>8 DEF FailStart, FailMissing, Goto
  <2> QED
    BY <2>1, <2>2
<1>9. ASSUME NEW w \in Worker, NEW status \in Terminal, Finish(w, status)
      PROVE  TypeOK'
  <2>1. run' \in [RunId -> Run]
    BY <1>9, WithCursorType, CompletedType DEF Finish, ErrorSummary
  <2> QED
    BY <1>9, <2>1 DEF Finish, Goto
<1>10. ASSUME NEW w \in Worker, Abort(w)
       PROVE  TypeOK'
  BY <1>10 DEF Abort
<1>11. ASSUME NEW w \in Worker, Release(w)
       PROVE  TypeOK'
  BY <1>11 DEF Release, Unlocked
<1>12. ASSUME NEW w \in Worker, Crash(w)
       PROVE  TypeOK'
  <2>1. lock' \in [by : Worker \cup {NoOne, Dead}, left : -1..TTL]
    BY <1>12 DEF Crash
  <2>2. /\ pc' \in [Worker -> PC]
        /\ staleSeen' \in [Worker -> SUBSET RunId]
        /\ elapsed' \in [Worker -> 0..MaxSlice]
        /\ mine' \in [Worker -> 0..MaxRuns]
    BY <1>12 DEF Crash
  <2> QED
    BY <1>12, <2>1, <2>2 DEF Crash
<1>13. ASSUME Tick
       PROVE  TypeOK'
  <2>1. lock' \in [by : Worker \cup {NoOne, Dead}, left : -1..TTL]
    <3>1. CASE lock.by # NoOne /\ lock.left >= 0
      <4>1. lock' = [lock EXCEPT !.left = lock.left - 1]
        BY <1>13, <3>1 DEF Tick
      <4>2. lock.left - 1 \in -1..TTL
        BY <3>1
      <4> QED
        BY <4>1, <4>2
    <3>2. CASE ~(lock.by # NoOne /\ lock.left >= 0)
      BY <1>13, <3>2 DEF Tick
    <3> QED
      BY <3>1, <3>2
  <2>2. elapsed' \in [Worker -> 0..MaxSlice]
    <3>1. ASSUME NEW w \in Worker, InSlice(w)
          PROVE  elapsed[w] + 1 \in 0..MaxSlice
      BY <1>13, <3>1 DEF Tick
    <3> QED
      BY <1>13, <3>1 DEF Tick
  <2>3. run' \in [RunId -> Run]
    <3>1. ASSUME NEW r \in RunId PROVE run'[r] \in Run
      <4>1. run[r] \in Run /\ run[r].age \in 0..(Stale + 1)
        BY DEF Run
      <4>2. CASE run[r].status = "running" /\ run[r].age <= Stale
        <5>1. run'[r] = [run[r] EXCEPT !.age = run[r].age + 1]
          BY <1>13, <4>2 DEF Tick
        <5>2. run[r].age + 1 \in 0..(Stale + 1)
          BY <4>1, <4>2
        <5> QED
          BY <4>1, <5>1, <5>2 DEF Run
      <4>3. CASE ~(run[r].status = "running" /\ run[r].age <= Stale)
        BY <1>13, <4>1, <4>3 DEF Tick
      <4> QED
        BY <4>2, <4>3
    <3> QED
      BY <1>13, <3>1 DEF Tick
  <2> QED
    BY <1>13, <2>1, <2>2, <2>3 DEF Tick
<1>14. CASE UNCHANGED wfVars
  BY <1>14 DEF wfVars
<1> HIDE DEF TypeOK, RunId, PC
<1> HIDE WorkflowAssumption
<1> QED
  BY <1>1, <1>2, <1>3, <1>4, <1>5, <1>6, <1>7, <1>8, <1>9, <1>10, <1>11, <1>12,
     <1>13, <1>14 DEF Next, Step

\* Type correctness of the job protocol, whatever the TTL.
THEOREM TypeCorrect == Spec => []TypeOK
  BY InitTypeOK, NextTypeOK, PTL DEF Spec

-----------------------------------------------------------------------------
(* What jobs need to know of the protocol *)

\* Runs that have been started have a row.
LEMMA StartedRuns ==
  ASSUME TypeOK
  PROVE  nruns \in Nat /\ 1..nruns \subseteq RunId /\ \A r \in RunId : r > nruns \/ r \in 1..nruns
  BY WorkflowAssumption DEF TypeOK, RunId

\* A slice that goes on leaves the statuses of runs alone.
LEMMA ProgressKeepsStatus ==
  ASSUME TypeOK, NEW w \in Worker, Progress(w)
  PROVE  /\ nruns' = nruns
         /\ \A q \in RunId : run'[q].status = run[q].status
BY DEF Progress, WithCursor, TypeOK, Run

-----------------------------------------------------------------------------
\* A slice that fits in the TTL never sees its lock row expire.
LEMMA SliceKeepsLock ==
  ASSUME SliceFitsTTL, TypeOK, LockFollowsSlice, NEW w \in Worker, InSlice(w)
  PROVE  lock.by = w /\ ~Expired
<1>1. lock.by = w /\ elapsed[w] + lock.left = TTL
  BY DEF LockFollowsSlice
<1>2. elapsed[w] \in 0..MaxSlice /\ lock.left \in -1..TTL
  BY DEF TypeOK
<1> QED
  BY <1>1, <1>2, WorkflowAssumption DEF SliceFitsTTL, Expired

\* A lock row names one worker, so one worker has it.
LEMMA LockExcludes ==
  ASSUME LockFollowsSlice
  PROVE  MutualExclusion
  BY DEF LockFollowsSlice, MutualExclusion

\* Only Acquire brings a worker into a slice; the others keep the row of every
\* slice that goes on.
LEMMA NextLockFollowsSlice ==
  ASSUME SliceFitsTTL, TypeOK, LockFollowsSlice, [Next]_wfVars
  PROVE  LockFollowsSlice'
<1>1. ASSUME UNCHANGED <<lock, elapsed>>,
             \A v \in Worker : pc'[v] \in Holding => pc[v] \in Holding
      PROVE  LockFollowsSlice'
  BY <1>1 DEF LockFollowsSlice, InSlice, Holding
<1>2. ASSUME NEW w \in Worker,
             \/ Begin(w)
             \/ \E r \in RunId : Reclaim(w, r) \/ LoadRun(w, r)
             \/ Refused(w) \/ LoadNone(w) \/ NextSlice(w)
             \/ \E withCursor \in BOOLEAN : StartRun(w, withCursor)
             \/ FirstCursor(w) \/ FailStart(w) \/ FailMissing(w) \/ Progress(w)
             \/ \E status \in Terminal : Finish(w, status)
             \/ Abort(w)
      PROVE  LockFollowsSlice'
  <2>1. UNCHANGED <<lock, elapsed>>
    BY ZenonT(30), <1>2 DEF Begin, Reclaim, Refused, LoadNone, NextSlice, LoadRun, StartRun,
                FirstCursor, FailStart, FailMissing, Progress, Finish, Abort
  <2>2. ASSUME NEW v \in Worker, pc'[v] \in Holding
        PROVE  pc[v] \in Holding
    <3>1. CASE v = w
      BY ZenonT(30), <1>2, <2>2, <3>1
      DEF Begin, Reclaim, Refused, LoadNone, NextSlice, LoadRun, StartRun,
          FirstCursor, FailStart, FailMissing, Progress, Finish, Abort, Goto,
          Holding, TypeOK
    <3>2. CASE v # w
      BY <1>2, <2>2, <3>2
      DEF Begin, Reclaim, Refused, LoadNone, NextSlice, LoadRun, StartRun,
          FirstCursor, FailStart, FailMissing, Progress, Finish, Abort, Goto,
          Holding, TypeOK
    <3> QED
      BY <3>1, <3>2
  <2> QED
    BY SMTT(30), <1>1, <2>1, <2>2
<1>3. ASSUME NEW w \in Worker, Acquire(w)
      PROVE  LockFollowsSlice'
  <2>1. ASSUME NEW v \in Worker, InSlice(v)
        PROVE  FALSE
    BY <1>3, <2>1, SliceKeepsLock, WorkflowAssumption DEF Acquire
  <2>2. ASSUME NEW v \in Worker, InSlice(v)'
        PROVE  v = w
    BY <1>3, <2>1, <2>2 DEF Acquire, Goto, InSlice, TypeOK
  <2>3. lock'.by = w /\ elapsed'[w] + lock'.left = TTL
    BY <1>3, WorkflowAssumption DEF Acquire, TypeOK
  <2> QED
    BY <2>2, <2>3 DEF LockFollowsSlice
<1>4. ASSUME NEW w \in Worker, Release(w) \/ Crash(w)
      PROVE  LockFollowsSlice'
  <2>1. ASSUME NEW v \in Worker, InSlice(v)'
        PROVE  v # w /\ InSlice(v)
    BY <1>4, <2>1 DEF Release, Crash, InSlice, Holding, TypeOK
  <2>2. ASSUME NEW v \in Worker, InSlice(v)'
        PROVE  lock'.by = v /\ elapsed'[v] + lock'.left = TTL
    <3>1. lock.by = v /\ elapsed[v] + lock.left = TTL
      BY <2>1, <2>2 DEF LockFollowsSlice
    <3>2. lock' = lock /\ elapsed'[v] = elapsed[v]
      BY <1>4, <2>1, <2>2, <3>1 DEF Release, Crash, TypeOK
    <3> QED
      BY <3>1, <3>2
  <2> QED
    BY <2>2 DEF LockFollowsSlice
<1>5. ASSUME Tick
      PROVE  LockFollowsSlice'
  <2>1. ASSUME NEW v \in Worker, InSlice(v)'
        PROVE  lock'.by = v /\ elapsed'[v] + lock'.left = TTL
    <3>1. InSlice(v)
      BY <1>5, <2>1 DEF Tick, InSlice
    <3>2. lock.by = v /\ elapsed[v] + lock.left = TTL /\ elapsed[v] < MaxSlice
      BY <1>5, <3>1 DEF LockFollowsSlice, Tick
    <3>3. elapsed[v] \in Int /\ lock.left \in Int
      BY DEF TypeOK
    <3>4. lock.by # NoOne /\ lock.left >= 0
      BY <3>2, <3>3, WorkflowAssumption DEF SliceFitsTTL
    <3>5. lock' = [lock EXCEPT !.left = lock.left - 1]
      BY <1>5, <3>4 DEF Tick
    <3>6. elapsed'[v] = elapsed[v] + 1
      BY <1>5, <3>1 DEF Tick
    <3>7. lock'.by = lock.by /\ lock'.left = lock.left - 1
      BY <3>5 DEF TypeOK
    <3> QED
      BY <3>2, <3>3, <3>6, <3>7, WorkflowAssumption
  <2> QED
    BY <2>1 DEF LockFollowsSlice
<1>6. CASE UNCHANGED wfVars
  BY <1>6 DEF wfVars, LockFollowsSlice, InSlice
<1> QED
  BY <1>2, <1>3, <1>4, <1>5, <1>6 DEF Next, Step

-----------------------------------------------------------------------------
\* A step keeps the facts about runs when it makes no run run, touches no row
\* beyond the newest, and lets no other slice into the states that rely on what
\* it has read.
Quiet ==
  /\ nruns' = nruns
  /\ \A r \in RunId : run'[r].status = "running" => run[r].status = "running"
  /\ \A r \in RunId : r > nruns => run'[r].status = run[r].status
  /\ \A v \in Worker : pc'[v] = "claim" => pc[v] = "claim"
  /\ \A v \in Worker : pc'[v] \in {"started", "missing", "work"} =>
       pc[v] \in {"started", "missing", "work"} /\ mine'[v] = mine[v]

RunsInOrder ==
  NothingRunsAtClaim /\ FutureRunsAbsent /\ RunningIsNewest /\ SliceIsOnNewest

\* A quiet step, one that starts no run, revives none and moves no worker on to
\* another run, keeps the order of the runs.
LEMMA QuietKeepsOrder ==
  ASSUME RunsInOrder, Quiet
  PROVE  RunsInOrder'
<1>1. NothingRunsAtClaim'
  BY DEF RunsInOrder, Quiet, NothingRunsAtClaim, Running
<1>2. FutureRunsAbsent'
  BY DEF RunsInOrder, Quiet, FutureRunsAbsent
<1>3. RunningIsNewest'
  BY DEF RunsInOrder, Quiet, RunningIsNewest, Running
<1>4. SliceIsOnNewest'
  BY DEF RunsInOrder, Quiet, SliceIsOnNewest
<1> QED
  BY <1>1, <1>2, <1>3, <1>4 DEF RunsInOrder

\* Completing the run a slice is on, or moving its cursor, is quiet.
LEMMA SliceWriteQuiet ==
  ASSUME TypeOK, SliceIsOnNewest, NEW w \in Worker,
         pc[w] \in {"started", "missing", "work"},
         NEW to \in {"sliced", "release"}, pc' = [pc EXCEPT ![w] = to],
         mine' = [mine EXCEPT ![w] = 0], nruns' = nruns,
         NEW status \in Terminal, NEW err,
         \/ run' = WithCursor(mine[w])
         \/ run' = Completed(run, mine[w], status, err)
         \/ run' = Completed(WithCursor(mine[w]), mine[w], status, err)
  PROVE  Quiet
<1>1. mine[w] = nruns
  BY DEF SliceIsOnNewest
<1>2. ASSUME NEW r \in RunId
      PROVE  run'[r].status \in {run[r].status, status}
             /\ (r > nruns => run'[r].status = run[r].status)
  <2>1. CASE r = nruns
    BY <1>1, <2>1 DEF WithCursor, Completed, TypeOK, Run
  <2>2. CASE r # nruns
    BY <1>1, <2>2 DEF WithCursor, Completed, TypeOK, Run
  <2> QED
    BY <2>1, <2>2 DEF TypeOK, RunId
<1>3. \A v \in Worker : pc'[v] = "claim" => pc[v] = "claim"
  BY DEF TypeOK
<1>4. \A v \in Worker : pc'[v] \in {"started", "missing", "work"} =>
        pc[v] \in {"started", "missing", "work"} /\ mine'[v] = mine[v]
  BY DEF TypeOK
<1> QED
  BY <1>2, <1>3, <1>4 DEF Quiet, Terminal

\* Two steps are not quiet: LoadNone, which sees that nothing runs, and
\* StartRun, which relies on it; LoadRun reads the newest run.
LEMMA NextRunsInOrder ==
  ASSUME TypeOK, MutualExclusion, RunsInOrder, [Next]_wfVars
  PROVE  RunsInOrder'
<1>1. ASSUME NEW w \in Worker,
             \/ Begin(w) \/ Acquire(w) \/ Refused(w) \/ Abort(w) \/ Release(w)
             \/ NextSlice(w) \/ Crash(w)
      PROVE  Quiet
  <2>1. nruns' = nruns /\ run' = run
    BY <1>1 DEF Begin, Acquire, Refused, Abort, Release, NextSlice, Crash
  <2>2. ASSUME NEW v \in Worker,
               pc'[v] \in {"claim", "started", "missing", "work"}
        PROVE  pc'[v] = pc[v] /\ mine'[v] = mine[v]
    BY <1>1, <2>2
    DEF Begin, Acquire, Refused, Abort, Release, NextSlice, Crash, Goto, TypeOK
  <2> QED
    BY <2>1, <2>2 DEF Quiet
<1>2. ASSUME NEW w \in Worker, NEW r \in RunId, Reclaim(w, r)
      PROVE  Quiet
  <2>1. nruns' = nruns /\ pc' = pc /\ mine' = mine
    BY <1>2 DEF Reclaim
  <2>2. ASSUME NEW q \in RunId
        PROVE  /\ run'[q].status \in {run[q].status, "failed"}
               /\ run'[q].status # run[q].status => run[q].status = "running"
    BY <1>2, <2>2 DEF Reclaim, TypeOK, Run
  <2>3. \A q \in RunId : q > nruns => run[q].status # "running"
    BY DEF RunsInOrder, FutureRunsAbsent
  <2> QED
    BY <2>1, <2>2, <2>3 DEF Quiet
<1>3. ASSUME NEW w \in Worker, LoadNone(w)
      PROVE  RunsInOrder'
  <2>1. Running = {} /\ nruns' = nruns /\ run' = run /\ mine' = mine
        /\ pc' = [pc EXCEPT ![w] = "claim"]
    BY <1>3 DEF LoadNone, Goto
  <2>2. NothingRunsAtClaim' /\ RunningIsNewest'
    BY <2>1 DEF NothingRunsAtClaim, RunningIsNewest, Running
  <2>3. FutureRunsAbsent' /\ SliceIsOnNewest'
    BY <2>1 DEF RunsInOrder, FutureRunsAbsent, SliceIsOnNewest, TypeOK
  <2> QED
    BY <2>2, <2>3 DEF RunsInOrder
<1>4. ASSUME NEW w \in Worker, NEW r \in RunId, LoadRun(w, r)
      PROVE  RunsInOrder'
  <2>1. r = nruns
    BY <1>4 DEF LoadRun, IsLatestRunning, RunsInOrder, RunningIsNewest
  <2>2. /\ nruns' = nruns /\ run' = run /\ mine' = [mine EXCEPT ![w] = r]
        /\ \/ pc' = [pc EXCEPT ![w] = "work"]
           \/ pc' = [pc EXCEPT ![w] = "missing"]
    BY <1>4 DEF LoadRun, Goto
  <2>3. NothingRunsAtClaim'
    BY <2>2 DEF RunsInOrder, NothingRunsAtClaim, Running, TypeOK
  <2>4. FutureRunsAbsent' /\ RunningIsNewest'
    BY <2>2 DEF RunsInOrder, FutureRunsAbsent, RunningIsNewest, Running
  <2>5. SliceIsOnNewest'
    BY <2>1, <2>2 DEF RunsInOrder, SliceIsOnNewest, TypeOK
  <2> QED
    BY <2>3, <2>4, <2>5 DEF RunsInOrder
<1>5. ASSUME NEW w \in Worker, NEW withCursor \in BOOLEAN, StartRun(w, withCursor)
      PROVE  RunsInOrder'
  <2>1. Running = {} /\ pc[w] = "claim" /\ nruns + 1 \in RunId /\ nruns \in Int
    BY <1>5, WorkflowAssumption
    DEF StartRun, Goto, RunsInOrder, NothingRunsAtClaim, TypeOK, RunId
  <2>2. /\ nruns' = nruns + 1
        /\ run' = [run EXCEPT ![nruns + 1] = Started(withCursor)]
    BY <1>5 DEF StartRun
  <2>3. ASSUME NEW v \in Worker, v # w
        PROVE  pc'[v] = pc[v] /\ pc[v] \notin Holding
    BY <1>5, <2>1, <2>3
    DEF StartRun, Goto, MutualExclusion, InSlice, Holding, TypeOK
  <2>4. pc'[w] \in {"sliced", "started"}
        /\ (pc'[w] = "started" => mine'[w] = nruns + 1)
    BY <1>5 DEF StartRun, Goto, TypeOK
  <2>5. NothingRunsAtClaim'
    BY <2>3, <2>4 DEF NothingRunsAtClaim, Holding
  <2>6. FutureRunsAbsent' /\ RunningIsNewest'
    <3>1. ASSUME NEW r \in RunId, r # nruns + 1 PROVE run'[r] = run[r]
      BY <2>2, <3>1 DEF TypeOK
    <3> QED
      BY <2>1, <2>2, <3>1
      DEF RunsInOrder, FutureRunsAbsent, RunningIsNewest, Running, RunId
  <2>7. SliceIsOnNewest'
    BY <2>2, <2>3, <2>4 DEF SliceIsOnNewest, Holding
  <2> QED
    BY <2>5, <2>6, <2>7 DEF RunsInOrder
<1>6. ASSUME NEW w \in Worker,
             \/ FirstCursor(w) \/ FailStart(w) \/ FailMissing(w) \/ Progress(w)
             \/ \E status \in Terminal : Finish(w, status)
      PROVE  Quiet
  <2>1. SliceIsOnNewest /\ "failed" \in Terminal
    BY DEF RunsInOrder, Terminal
  <2>2. CASE FirstCursor(w)
    BY <2>1, <2>2, SliceWriteQuiet DEF FirstCursor, Goto
  <2>3. CASE FailStart(w)
    BY <2>1, <2>3, SliceWriteQuiet DEF FailStart, Goto
  <2>4. CASE FailMissing(w)
    BY <2>1, <2>4, SliceWriteQuiet DEF FailMissing, Goto
  <2>5. CASE Progress(w)
    BY <2>1, <2>5, SliceWriteQuiet DEF Progress, Goto
  <2>6. ASSUME NEW status \in Terminal, Finish(w, status)
        PROVE  Quiet
    BY <2>1, <2>6, SliceWriteQuiet DEF Finish, Goto
  <2> QED
    BY <1>6, <2>2, <2>3, <2>4, <2>5, <2>6
<1>7. ASSUME Tick
      PROVE  Quiet
  <2>1. nruns' = nruns /\ pc' = pc /\ mine' = mine
    BY <1>7 DEF Tick
  <2>2. \A r \in RunId : run'[r].status = run[r].status
    BY <1>7 DEF Tick, TypeOK, Run
  <2> QED
    BY <2>1, <2>2 DEF Quiet
<1>8. ASSUME UNCHANGED wfVars
      PROVE  Quiet
  BY <1>8 DEF wfVars, Quiet
<1> QED
  BY <1>1, <1>2, <1>3, <1>4, <1>5, <1>6, <1>7, <1>8, QuietKeepsOrder
  DEF Next, Step

-----------------------------------------------------------------------------
\* The inductive invariant holds when nothing was ever started,
LEMMA InitInv == Init => WorkflowInv
<1> SUFFICES ASSUME Init PROVE WorkflowInv
  OBVIOUS
<1>1. TypeOK
  BY InitTypeOK
<1>2. LockFollowsSlice /\ NothingRunsAtClaim /\ SliceIsOnNewest
  BY DEF Init, LockFollowsSlice, InSlice, Holding, NothingRunsAtClaim,
         SliceIsOnNewest
<1>3. FutureRunsAbsent /\ RunningIsNewest
  BY DEF Init, FutureRunsAbsent, RunningIsNewest, Running, Absent
<1> QED
  BY <1>1, <1>2, <1>3 DEF WorkflowInv

\* and every step keeps it, provided that a slice fits in the TTL.
LEMMA NextInv ==
  ASSUME SliceFitsTTL, WorkflowInv, [Next]_wfVars
  PROVE  WorkflowInv'
<1>1. TypeOK'
  BY NextTypeOK DEF WorkflowInv
<1>2. LockFollowsSlice'
  BY NextLockFollowsSlice DEF WorkflowInv
<1>3. MutualExclusion
  BY LockExcludes DEF WorkflowInv
<1>4. RunsInOrder'
  BY <1>3, NextRunsInOrder DEF WorkflowInv, RunsInOrder
<1> QED
  BY <1>1, <1>2, <1>4 DEF WorkflowInv, RunsInOrder

\* When a slice fits in the TTL, the inductive invariant always holds.
THEOREM InvariantHolds ==
  ASSUME SliceFitsTTL
  PROVE  Spec => []WorkflowInv
<1>1. WorkflowInv /\ [Next]_wfVars => WorkflowInv'
  BY NextInv
<1> QED
  BY InitInv, <1>1, PTL DEF Spec

\* ... no two workers are in a slice at once,
THEOREM OneSliceAtATime ==
  ASSUME SliceFitsTTL
  PROVE  Spec => []MutualExclusion
<1>1. WorkflowInv => MutualExclusion
  BY LockExcludes DEF WorkflowInv
<1> QED
  BY InvariantHolds, <1>1, PTL

\* ... only the newest run of the definition can be running,
THEOREM OneRunAtATime ==
  ASSUME SliceFitsTTL
  PROVE  Spec => []RunningIsNewest
<1>1. WorkflowInv => RunningIsNewest
  BY DEF WorkflowInv
<1> QED
  BY InvariantHolds, <1>1, PTL

\* ... and a slice commits into that run, reclaimed or not.
THEOREM SlicesOnNewestRun ==
  ASSUME SliceFitsTTL
  PROVE  Spec => []SliceIsOnNewest
<1>1. WorkflowInv => SliceIsOnNewest
  BY DEF WorkflowInv
<1> QED
  BY InvariantHolds, <1>1, PTL


-----------------------------------------------------------------------------
(* The lock row *)

\* An unreleased row goes away only when the worker that inserted it releases it,
\* which it does at the end of its slice, whether the row has expired or not.
LEMMA LockStep ==
  ASSUME TypeOK, [Next]_wfVars, lock.by \in Worker, lock'.by = NoOne
  PROVE  InSlice(lock.by) /\ pc'[lock.by] = "idle"
<1> USE WorkflowAssumption DEF TypeOK
<1>1. lock' # lock
  BY SMTT(30)
<1>2. ASSUME NEW w \in Worker, Step(w) \/ Abort(w) \/ Crash(w)
      PROVE  InSlice(lock.by) /\ pc'[lock.by] = "idle"
  <2>1. CASE Acquire(w)
    BY <2>1 DEF Acquire
  <2>2. CASE Release(w)
    BY <1>1, <2>2 DEF Release, OutOfRuns, InSlice, Holding
  <2>3. CASE Crash(w)
    BY <1>1, <2>3 DEF Crash
  <2> QED
    BY <1>1, <1>2, <2>1, <2>2, <2>3
    DEF Step, Begin, Reclaim, Refused, LoadNone, LoadRun, StartRun, FirstCursor,
        FailStart, FailMissing, Progress, Finish, NextSlice, Abort
<1>3. CASE Tick
  BY <1>3 DEF Tick
<1>4. CASE UNCHANGED wfVars
  BY <1>1, <1>4 DEF wfVars
<1> QED
  BY <1>2, <1>3, <1>4 DEF Next

\* The finally of a slice that outlived its own row leaves the row of its
\* successor alone (releaseWorkflowLock), for slices of any length.
THEOREM LockIsFreedByOwner == Spec => LockFreedByOwner
<1>1. TypeOK /\ [Next]_wfVars =>
        [lock.by \in Worker /\ lock'.by = NoOne =>
           InSlice(lock.by) /\ pc'[lock.by] = "idle"]_wfVars
  BY LockStep
<1> QED
  BY <1>1, TypeCorrect, PTL DEF Spec, LockFreedByOwner
=============================================================================
