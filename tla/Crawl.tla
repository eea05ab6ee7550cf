------------------------------- MODULE Crawl -------------------------------
(***************************************************************************)
(* The battle-log crawl of lib/ingestion/sync/battleLogCrawlSync.ts: a job *)
(* that leases due players a few at a time, fetches each one's battle log, *)
(* stores the battles nobody has stored yet and reschedules the player.    *)
(* With it, the crawl schedule of lib/ingestion/repository.ts, the fair    *)
(* selection of fairness.ts and the request budget of rateBudget.ts.       *)
(*                                                                         *)
(* Unlike the other jobs it holds no transaction around a slice: leases,   *)
(* budget, battles, schedule and cursor are statements of their own.       *)
(*                                                                         *)
(* Dates are abstracted to what has come: a player is due or not, backing  *)
(* off or not, the window of the budget is over or not.  Candidates of a   *)
(* stratum may so be leased in any order.  Fetch runs, raw snapshots,      *)
(* incidents, warnings and observed players are written here and read      *)
(* elsewhere: they are left out.                                           *)
(***************************************************************************)
EXTENDS Workflow, SequencesExt

CONSTANTS
  Player,         \* players with a schedule row
  Stratum,        \* of each player: region and trophy bracket, in key order
  Target,         \* batchSizeTarget: players one job processes
  SlicePlayers,   \* MAX_PLAYERS_PER_SLICE
  LeaseTTL,       \* DEFAULT_LEASE_SECONDS, in ticks
  Ceiling,        \* request_ceiling - reserved_for_priority of battle_log
  MaxFailures,    \* MAX_CONSECUTIVE_CRAWL_FAILURES
  MaxAttempts,    \* maxAttempts of a transient failure in retry.ts
  Battle,         \* battles played
  Log,            \* of each player: the battles in its log
  Unknown         \* battles with a brawler the catalog does not have

ASSUME CrawlAssumption ==
  /\ {Target, SlicePlayers, Ceiling} \subseteq Nat \ {0}
  /\ {LeaseTTL, MaxFailures, MaxAttempts} \subseteq Nat
  /\ Stratum \in [Player -> Nat]
  /\ Log \in [Player -> SUBSET Battle]
  /\ Unknown \subseteq Battle
  /\ IsFiniteSet(Player) /\ IsFiniteSet(Battle)

VARIABLES
  sched,    \* per player: its player_crawl_schedule row
  due,      \* the players whose next_due_at has passed
  budget,   \* the battle_log row of ingestion_rate_budgets
  stored,   \* normalized_battles
  cursor,   \* per run: the counters of its resume cursor
  slice,    \* per worker: what its slice has read and has still to do
  granted,  \* history: requests granted since the window started
  made      \* history: per run, requests made for it, counted up to Target

jobVars == <<sched, due, budget, stored, cursor, slice, granted, made>>
vars == <<wfVars, jobVars>>

Cursor == [processed : 0..Target, ingested : Nat]
NoCursor == [processed |-> 0, ingested |-> 0]
NoSlice == [at |-> "none", todo |-> <<>>, drained |-> FALSE, saw |-> FALSE,
            seen |-> {}, cursor |-> NoCursor]

Stages == {"none", "loaded", "drained", "budget", "reset", "consume", "fetch",
           "ingesting", "ingested", "wrote"}

Slice == [at : Stages, todo : Seq(Player), drained : BOOLEAN, saw : BOOLEAN,
          seen : SUBSET Battle, cursor : Cursor]

CrawlTypeOK ==
  /\ TypeOK
  /\ sched \in [Player -> [active : BOOLEAN, failures : 0..MaxFailures,
                           backoff : BOOLEAN, leased : BOOLEAN,
                           left : -1..LeaseTTL]]
  /\ due \subseteq Player
  /\ budget \in [over : BOOLEAN, used : 0..Ceiling]
  /\ stored \subseteq Battle
  /\ cursor \in [RunId -> Cursor]
  /\ slice \in [Worker -> Slice]
  /\ granted \in Nat
  /\ made \in [RunId -> 0..Target]

Idle == [active |-> TRUE, failures |-> 0, backoff |-> FALSE,
         leased |-> FALSE, left |-> 0]

CrawlInit ==
  /\ Init
  /\ sched = [p \in Player |-> Idle]
  /\ due = Player
  /\ budget = [over |-> FALSE, used |-> 0]
  /\ stored = {}
  /\ cursor = [r \in RunId |-> NoCursor]
  /\ slice = [w \in Worker |-> NoSlice]
  /\ granted = 0
  /\ made = [r \in RunId |-> 0]

-----------------------------------------------------------------------------
\* selectFairBatch: the strata that still have candidates, in the order of their
\* keys; `left' are the places of those candidates in the list.
Strata(candidates, left) == {Stratum[candidates[i]] : i \in left}
KeyAt(strata, at) == CHOOSE s \in strata : Cardinality({t \in strata : t < s}) = at

\* bucket.shift(): the first candidate of a stratum.
FirstOfStratum(candidates, left, key) == Min({i \in left : Stratum[candidates[i]] = key})

\* MUTANT: the cursor stays on the same stratum.
FairStepGreedy(candidates, size, f) ==
  LET key   == KeyAt(Strata(candidates, f.left), 0)
      first == FirstOfStratum(candidates, f.left, key)
  IN  IF Len(f.selected) >= size \/ f.left = {} THEN f
      ELSE [left     |-> f.left \ {first},
            cursor   |-> f.cursor,
            selected |-> Append(f.selected, candidates[first])]

\* One iteration of the while loop: the next stratum gives its first candidate,
\* and when it was its last one, the round goes on at its place.
FairStep(candidates, size, f) ==
  LET strata == Strata(candidates, f.left)
      at     == f.cursor % Cardinality(strata)
      first  == FirstOfStratum(candidates, f.left, KeyAt(strata, at))
      rest   == Strata(candidates, f.left \ {first})
  IN  IF Len(f.selected) >= size \/ f.left = {} THEN f
      ELSE [left     |-> f.left \ {first},
            cursor   |-> IF rest = strata THEN f.cursor + 1
                         ELSE IF rest = {} THEN 0 ELSE at % Cardinality(rest),
            selected |-> Append(f.selected, candidates[first])]

\* What the loop has after each iteration: it may stop before the last.
FairLoop(candidates, size) ==
  LET loop[i \in 0..size] ==
        IF i = 0 THEN [left |-> DOMAIN candidates, cursor |-> 0, selected |-> <<>>]
        ELSE FairStep(candidates, size, loop[i - 1])
  IN  loop

FairBatch(candidates, size) == FairLoop(candidates, size)[size].selected

\* A due row that selectAndLeaseDuePlayers may lease, after it has cleared the
\* leases whose expires_at has passed.
Candidate(p) ==
  /\ sched[p].active
  /\ ~sched[p].backoff
  /\ sched[p].leased => sched[p].left < 0

Candidates == {p \in due : Candidate(p)}

\* MUTANT: a slice leases its fill near the target too.
RoomFixed(w) == SlicePlayers

Room(w) == IF Target - slice[w].cursor.processed < SlicePlayers
           THEN Target - slice[w].cursor.processed ELSE SlicePlayers

-----------------------------------------------------------------------------
Now(w) == Head(slice[w].todo)

\* recordCrawlOutcome ends with the lease, whoever holds it.
Unleased(row) == [row EXCEPT !.leased = FALSE, !.left = 0]

Failed(row, backoff) ==
  [Unleased(row) EXCEPT
     !.failures = IF @ < MaxFailures THEN @ + 1 ELSE @, !.backoff = backoff]
Succeeded(row) == [Unleased(row) EXCEPT !.failures = 0, !.backoff = FALSE]
Deactivated(row) == [Unleased(row) EXCEPT !.active = FALSE]

At(w, stage) == pc[w] = "work" /\ slice[w].at = stage

\* The slice goes on with stage next, or with the next player.
Go(w, next) == slice' = [slice EXCEPT ![w].at = next]
Onward(row, counts) ==
  [row EXCEPT !.at = "budget", !.todo = Tail(@), !.saw = FALSE, !.seen = {},
              !.cursor = counts]
GoOn(w, counts) == slice' = [slice EXCEPT ![w] = Onward(@, counts)]

\* The claim: run, then cursor, without a transaction ...
Claim(w) == StartRun(w, FALSE) /\ UNCHANGED jobVars
WriteFirstCursor(w) == FirstCursor(w) /\ UNCHANGED jobVars

\* ... unless the source or the endpoint is missing or disabled.
NoPrerequisites(w) ==
  /\ Goto(w, "claim", "release")
  /\ UNCHANGED <<lock, nruns, run, mine, elapsed, staleSeen, jobVars>>

Load(w, r) ==
  /\ LoadRun(w, r)
  /\ slice' = IF run[r].cursor
              THEN [slice EXCEPT ![w] =
                     [NoSlice EXCEPT !.at = "loaded", !.cursor = cursor[r]]]
              ELSE slice
  /\ UNCHANGED <<sched, due, budget, stored, cursor, granted, made>>

MissingCursor(w) == FailMissing(w) /\ UNCHANGED jobVars

\* The source or the endpoint was disabled in the middle of the job.
LosePrerequisites(w) ==
  /\ At(w, "loaded")
  /\ slice[w].cursor.processed < Target
  /\ Goto(w, "work", "release")
  /\ run' = Completed(run, mine[w], "failed", "job_error")
  /\ mine' = [mine EXCEPT ![w] = 0]
  /\ slice' = [slice EXCEPT ![w] = NoSlice]
  /\ UNCHANGED <<lock, nruns, elapsed, staleSeen>>
  /\ UNCHANGED <<sched, due, budget, stored, cursor, granted, made>>

\* The leasing transaction, over the candidates in the order of their due
\* dates.  SKIP LOCKED makes a row that another worker is leasing at that
\* moment no candidate, as if its transaction had committed.
Lease(w, candidates) ==
  LET chosen == FairBatch(candidates, Room(w))
  IN  /\ At(w, "loaded")
      /\ slice[w].cursor.processed < Target
      /\ sched' = [p \in Player |->
           IF p \in ToSet(chosen) THEN [sched[p] EXCEPT !.leased = TRUE,
                                                        !.left = LeaseTTL]
           ELSE IF sched[p].left < 0 THEN Unleased(sched[p]) ELSE sched[p]]
      /\ slice' = [slice EXCEPT
           ![w].at = IF chosen = <<>> THEN "drained" ELSE "budget",
           ![w].todo = chosen,
           ![w].drained = Len(chosen) < Room(w)]
      /\ UNCHANGED <<wfVars, due, budget, stored, cursor, granted, made>>

-----------------------------------------------------------------------------
\* tryConsumeBudget: the SELECT of the row ...
ReadBudget(w) ==
  /\ At(w, "budget")
  /\ slice[w].todo # <<>>
  /\ slice' = [slice EXCEPT ![w].at = IF budget.over THEN "reset" ELSE "consume",
                            ![w].saw = budget.over]
  /\ UNCHANGED <<wfVars, sched, due, budget, stored, cursor, granted, made>>

\* MUTANT: the reset does not look at window_started_at.
ResetMatchesAlways(w) == TRUE

\* The UPDATE that starts a new window matches the window_started_at read: it
\* does nothing when another worker has started one since.
ResetMatches(w) == slice[w].saw
ResetWindow(w) ==
  /\ At(w, "reset")
  /\ IF ResetMatches(w)
     THEN /\ budget' = [over |-> FALSE, used |-> 0]
          /\ granted' = IF budget.over THEN 0 ELSE granted
          /\ slice' = [v \in Worker |->
               [slice[v] EXCEPT !.saw = FALSE,
                                !.at = IF v = w THEN "consume" ELSE @]]
     ELSE Go(w, "consume") /\ UNCHANGED <<budget, granted>>
  /\ UNCHANGED <<wfVars, sched, due, stored, cursor, made>>

\* ... and the UPDATE that takes one request, if one is left.
Consume(w) ==
  /\ At(w, "consume")
  /\ budget.used < Ceiling
  /\ budget' = [budget EXCEPT !.used = @ + 1]
  /\ granted' = granted + 1
  /\ Go(w, "fetch")
  /\ UNCHANGED <<wfVars, sched, due, stored, cursor, made>>

\* None is left: failure_retryable with no delay, and on to the next player.
Deny(w) ==
  /\ At(w, "consume")
  /\ budget.used >= Ceiling
  /\ sched' = [sched EXCEPT ![Now(w)] = Failed(@, FALSE)]
  /\ GoOn(w, slice[w].cursor)
  /\ UNCHANGED <<wfVars, due, budget, stored, cursor, granted, made>>

\* A request goes through the proxy and counts as processed.
Counted(w) == [slice[w].cursor EXCEPT !.processed = @ + 1]
Request(w) ==
  /\ At(w, "fetch")
  /\ made' = [made EXCEPT ![mine[w]] = IF @ < Target THEN @ + 1 ELSE @]

\* How classifyHttpStatus and validateProxyEnvelope judge a failed answer.
\* Repeatable are a 429, which may be tried as often as the limit allows, and
\* an envelope that is not valid.
Answer == {"transient", "repeatable", "permanent"}

\* decideRetry, and the limit on consecutive failures.
Dies(answer, count) ==
  \/ answer = "permanent"
  \/ answer = "transient" /\ count >= MaxAttempts
  \/ count >= MaxFailures

\* It fails; the next attempt may be due at once, or after a backoff.
FetchFails(w, answer, backoff) ==
  LET p == Now(w)
  IN  /\ Request(w)
      /\ sched' = [sched EXCEPT ![p] =
                    IF Dies(answer, sched[p].failures + 1)
                    THEN Deactivated(@) ELSE Failed(@, backoff)]
      /\ GoOn(w, Counted(w))
      /\ UNCHANGED <<wfVars, due, budget, stored, cursor, granted>>

\* It succeeds, and the transaction over the battles of the log begins: it
\* reads which of them it has to insert.
FetchSucceeds(w) ==
  /\ Request(w)
  /\ slice' = [slice EXCEPT ![w] =
       [@ EXCEPT !.at = "ingesting", !.seen = stored, !.cursor = Counted(w)]]
  /\ UNCHANGED <<wfVars, sched, due, budget, stored, cursor, granted>>

-----------------------------------------------------------------------------
\* Battles with a brawler the catalog does not have are quarantined.
ToInsert(w) == Log[Now(w)] \ (slice[w].seen \cup Unknown)

\* The unique battle_key rejects a battle that was stored since.
DuplicateKey(w) == ToInsert(w) \cap stored # {}

\* It inserts them.
Ingest(w) ==
  /\ At(w, "ingesting")
  /\ ~DuplicateKey(w)
  /\ stored' = stored \cup ToInsert(w)
  /\ slice' = [slice EXCEPT
       ![w].at = "ingested",
       ![w].seen = {},
       ![w].cursor.ingested = @ + Cardinality(ToInsert(w))]
  /\ UNCHANGED <<wfVars, sched, due, budget, cursor, granted, made>>

\* recordCrawlOutcome of a success: due again in two or twelve hours.
RecordSuccess(w) ==
  /\ At(w, "ingested")
  /\ sched' = [sched EXCEPT ![Now(w)] = Succeeded(@)]
  /\ due' = due \ {Now(w)}
  /\ GoOn(w, slice[w].cursor)
  /\ UNCHANGED <<wfVars, budget, stored, cursor, granted, made>>

\* All leased players are done: the cursor and the heartbeat are written.
WriteCursor(w) ==
  /\ At(w, "budget")
  /\ slice[w].todo = <<>>
  /\ run' = WithCursor(mine[w])
  /\ cursor' = [cursor EXCEPT ![mine[w]] = slice[w].cursor]
  /\ Go(w, "wrote")
  /\ UNCHANGED <<lock, nruns, pc, mine, elapsed, staleSeen>>
  /\ UNCHANGED <<sched, due, budget, stored, granted, made>>

\* MUTANT: only the target ends the job, and a slice without players goes on.
CompleteAtTarget(w) ==
  slice[w].at \in {"loaded", "wrote"} /\ slice[w].cursor.processed >= Target

\* The target is met or the queue drained.
Complete(w) ==
  \/ slice[w].at = "drained"
  \/ slice[w].at \in {"loaded", "wrote"} /\ slice[w].cursor.processed >= Target
  \/ slice[w].at = "wrote" /\ slice[w].drained

\* finalizeBattleLog: the run is completed, in a statement of its own.
Finalize(w) ==
  /\ pc[w] = "work"
  /\ Complete(w)
  /\ Finish(w, "succeeded")
  /\ slice' = [slice EXCEPT ![w] = NoSlice]
  /\ UNCHANGED <<sched, due, budget, stored, cursor, granted, made>>

EndSlice(w) ==
  /\ At(w, "wrote")
  /\ ~Complete(w)
  /\ Goto(w, "work", "sliced")
  /\ mine' = [mine EXCEPT ![w] = 0]
  /\ slice' = [slice EXCEPT ![w] = NoSlice]
  /\ UNCHANGED <<lock, nruns, run, elapsed, staleSeen>>
  /\ UNCHANGED <<sched, due, budget, stored, cursor, granted, made>>

-----------------------------------------------------------------------------
\* runBattleLogCrawlBatch catches what a slice throws and fails the latest
\* running run of the definition, whoever works on it.
AbortDriver(w) ==
  /\ pc[w] \in {"load", "claim", "started", "missing", "work"}
  /\ pc' = [pc EXCEPT ![w] = "aborted"]
  /\ mine' = [mine EXCEPT ![w] = 0]
  /\ run' = [r \in RunId |->
               IF IsLatestRunning(r)
               THEN Completed(run, r, "failed", "job_error")[r] ELSE run[r]]
  /\ UNCHANGED <<lock, nruns, elapsed, staleSeen>>

Rejected(w) == At(w, "ingesting") /\ DuplicateKey(w)
Reject(w) ==
  /\ Rejected(w)
  /\ Abort(w) \/ AbortDriver(w)
  /\ slice' = [slice EXCEPT ![w] = NoSlice]
  /\ UNCHANGED <<sched, due, budget, stored, cursor, granted, made>>

\* A statement of the slice fails, or the process dies.
Fail(w) ==
  /\ \/ (Abort(w) \/ AbortDriver(w)) /\ ~Rejected(w)
     \/ Crash(w)
  /\ slice' = [slice EXCEPT ![w] = NoSlice]
  /\ UNCHANGED <<sched, due, budget, stored, cursor, granted, made>>

Housekeeping(w) ==
  /\ \/ Begin(w)
     \/ \E r \in RunId : Reclaim(w, r)
     \/ Acquire(w)
     \/ Refused(w)
     \/ LoadNone(w)
     \/ Release(w)
     \/ NextSlice(w)
  /\ UNCHANGED jobVars

JobStep(w) ==
  \/ Housekeeping(w)
  \/ Claim(w)
  \/ WriteFirstCursor(w)
  \/ NoPrerequisites(w)
  \/ \E r \in RunId : Load(w, r)
  \/ MissingCursor(w)
  \/ LosePrerequisites(w)
  \/ \E candidates \in SetToSeqs(Candidates) : Lease(w, candidates)
  \/ ReadBudget(w)
  \/ ResetWindow(w)
  \/ Consume(w)
  \/ Deny(w)
  \/ \E answer \in Answer, backoff \in BOOLEAN : FetchFails(w, answer, backoff)
  \/ FetchSucceeds(w)
  \/ Ingest(w)
  \/ RecordSuccess(w)
  \/ WriteCursor(w)
  \/ Finalize(w)
  \/ EndSlice(w)
  \/ Reject(w)

\* Time passes for lock, heartbeats and leases.
Time ==
  /\ Tick
  /\ sched' = [p \in Player |->
       IF sched[p].leased /\ sched[p].left >= 0
       THEN [sched[p] EXCEPT !.left = @ - 1] ELSE sched[p]]
  /\ UNCHANGED <<due, budget, stored, cursor, slice, granted, made>>

\* Hours pass: a player is due, a backoff ends, the window is over.
ComeDue(p) ==
  /\ p \notin due
  /\ due' = due \cup {p}
  /\ UNCHANGED <<wfVars, sched, budget, stored, cursor, slice, granted, made>>
BackoffEnds(p) ==
  /\ sched[p].backoff
  /\ sched' = [sched EXCEPT ![p].backoff = FALSE]
  /\ UNCHANGED <<wfVars, due, budget, stored, cursor, slice, granted, made>>
WindowElapses ==
  /\ ~budget.over
  /\ budget' = [budget EXCEPT !.over = TRUE]
  /\ UNCHANGED <<wfVars, sched, due, stored, cursor, slice, granted, made>>

CrawlNext ==
  \/ \E w \in Worker : JobStep(w) \/ Fail(w)
  \/ Time
  \/ \E p \in Player : ComeDue(p) \/ BackoffEnds(p)
  \/ WindowElapses

CrawlSpec == CrawlInit /\ [][CrawlNext]_vars

\* The scheduler keeps calling, a process that runs keeps running, time passes
\* and windows end, and processes and the database do not fail for ever.
CrawlFairness ==
  /\ \A w \in Worker : WF_vars(JobStep(w))
  /\ WF_vars(Time)
  /\ WF_vars(WindowElapses)
  /\ <>[][~\E w \in Worker : Fail(w)]_vars

FairCrawlSpec == CrawlSpec /\ CrawlFairness

-----------------------------------------------------------------------------
\* Leases keep two slices off the same player ("no double-lease across
\* concurrent runs", PHASE4.md) even when the lock does not: when a slice
\* outlives its lock row but not its leases.
OneCrawlPerPlayer ==
  \A v, w \in Worker : v # w => ToSet(slice[v].todo) \cap ToSet(slice[w].todo) = {}

\* "Concurrent callers can never both succeed past the ceiling"
\* (rateBudget.ts): not even when several of them find the window over and
\* each resets the counter.
BudgetKept == granted <= Ceiling

\* What the runs say they have ingested, up to one of them.
IngestedUpTo[n \in 0..MaxRuns] ==
  IF n = 0 THEN 0 ELSE IngestedUpTo[n - 1] + cursor[n].ingested

\* A cursor never claims more than was done: requests that were made, whatever
\* was denied, and battles that are stored, each counted for one run only,
\* whichever of two overlapping slices wrote the cursor last.
CursorCovered ==
  /\ \A r \in RunId : cursor[r].processed <= made[r]
  /\ IngestedUpTo[MaxRuns] <= Cardinality(stored)

\* Whatever overlaps, expires and fails, what the crawl has recorded was done, once,
\* and within its limits.
CrawlInv == CrawlTypeOK /\ OneCrawlPerPlayer /\ BudgetKept /\ CursorCovered

\* A lease is fair: "one candidate per stratum per round" (fairness.ts).  No
\* stratum gets two players more than one that has players left, the batch is
\* filled, and a longer stratum is an earlier one.
LeaseIsFair ==
  [][\A w \in Worker :
       slice[w].at = "loaded" /\ slice'[w].at \in {"budget", "drained"} =>
         LET leased == ToSet(slice'[w].todo)
             Got(s) == Cardinality({p \in leased : Stratum[p] = s})
         IN  /\ leased \subseteq Candidates
             /\ Len(slice'[w].todo) = Cardinality(leased)
             /\ leased # Candidates => Len(slice'[w].todo) = Room(w)
             /\ \A p \in leased, q \in Candidates \ leased :
                  \/ Got(Stratum[p]) <= Got(Stratum[q])
                  \/ /\ Got(Stratum[p]) = Got(Stratum[q]) + 1
                     /\ Stratum[p] < Stratum[q]]_vars

\* Every run ends, whatever crashed, was denied or rejected: unless slices
\* overlap again and again, when one can undo the cursor of the other.
EveryRunEnds ==
  <>[]MutualExclusion =>
    \A r \in RunId : []<>(run[r].status # "running")
=============================================================================
