------------------------------ MODULE Families ------------------------------
(***************************************************************************)
(* Which rows the families of lib/retention/graph.ts take, and in which order. *)
(* A family archives old rows of one table, its anchors, with their children,   *)
(* proves the archive, and deletes what it holds, children first.  Families    *)
(* are separate, but their tables refer to each other: an observation to a      *)
(* battle and to a fetch, a fetch to a run and to the fetch it repeats.  The     *)
(* database rejects a deletion that would leave a reference dangling, and a     *)
(* planner skips some of the rows for which it would; the rest it offers again   *)
(* and again.  An archive in detail, its damage and two verifications, is in     *)
(* Archive and Retention; here it is one step to make and one to prove.         *)
(*                                                                         *)
(* Rows are numbered in the order of their ids.  Time is in half-years.         *)
(***************************************************************************)
EXTENDS Integers, Sequences, FiniteSets

CONSTANTS
    Row,
    Table,          \* Table[r]
    Refs,           \* <<r, s>>: row r has a foreign key to row s
    Scenario,       \* sequences of sets of rows, each of which comes at once
    InUse,          \* rows that are open when they arrive
    Failed,         \* workflow runs that fail
    BatchSize,      \* anchors in an archive
    LastArrival, MaxNow

\* GRAPH_FAMILIES: the table of the anchors, the time they stay, and the children
\* in the order of their deletion.
Family(anchor, hot, children) == [anchor |-> anchor, hot |-> hot, children |-> children]
Families ==
    [battle_graph |-> Family("battle", 2, <<"participant", "team", "observation">>),
     battle_observations |-> Family("observation", 1, <<>>),
     workflow_audit |-> Family("workflow_run", 2, <<"workflow_step">>),
     fetch_audit |-> Family("fetch_run", 2, <<>>),
     observed_players |-> Family("observed_player", 1, <<>>),
     crawl_batches |-> Family("crawl_batch", 1, <<>>),
     detected_changes |-> Family("detected_change", 2, <<>>),
     data_incidents |-> Family("incident", 2, <<>>),
     normalized_snapshots |-> Family("snapshot", 2, <<>>),
     player_name_history |-> Family("name", 2, <<>>)]
ArchiveOnly == {"player_name_history"}
Extended == 4       \* half-years that a failed run stays

ChildrenOf(f) == {Families[f].children[i] : i \in DOMAIN Families[f].children}
Going == {Families[f].anchor : f \in DOMAIN Families \ ArchiveOnly}
            \cup UNION {ChildrenOf(f) : f \in DOMAIN Families}

\* What stays for ever (players, the names of players) refers to nothing but what
\* a planner skips for its sake.
ASSUME FamiliesAssumption ==
    /\ Row \subseteq Nat /\ IsFiniteSet(Row) /\ Refs \subseteq Row \X Row
    /\ Scenario \subseteq Seq(SUBSET Row)
    /\ BatchSize \in Nat \ {0} /\ LastArrival \in Nat /\ MaxNow \in Nat
    /\ MaxNow >= LastArrival + Extended
    /\ \A ref \in Refs :
        Table[ref[1]] \notin Going => Table[ref[2]] = "fetch_run" \/ Table[ref[2]] \notin Going

VARIABLES
    now,
    coming,         \* the scenario, which never changes
    arrived,        \* how many of its sets have come
    rows,           \* those in the database
    since,          \* since[r]: the time that its age counts from
    open,           \* running, accepted, unresolved, incomplete or actively crawled
    late,           \* children that came after an archive of their anchor
    archives,
    op              \* the operation that has the lock

familyVars == <<now, coming, arrived, rows, since, open, late, archives, op>>

NoOperation(at) == [at |-> at, family |-> "", anchors |-> {}, left |-> <<>>]

FamiliesInit ==
    /\ now = 0 /\ coming \in Scenario /\ arrived = 0
    /\ rows = {} /\ open = {} /\ late = {} /\ archives = {}
    /\ since = [r \in Row |-> 0]
    /\ op = NoOperation("idle")

RefersTo(s, r) == s \in rows /\ <<s, r>> \in Refs
Age(r) == now - since[r]

-----------------------------------------------------------------------------
(* The rest of the system *)

Tick ==
    /\ now < MaxNow
    /\ now' = now + 1
    /\ UNCHANGED <<coming, arrived, rows, since, open, late, archives, op>>

\* A job inserts rows: of a crawl, of a catalog sync.
Arrive ==
    /\ arrived < Len(coming) /\ now <= LastArrival
    /\ LET new == coming[arrived + 1]
       IN  /\ \A r \in new : \A s \in Row : <<r, s>> \in Refs => s \in rows \cup new
           /\ rows' = rows \cup new
           /\ since' = [r \in Row |-> IF r \in new THEN now ELSE since[r]]
           /\ open' = open \cup (new \cap InUse)
           /\ late' = late \cup {r \in new : \E a \in archives, s \in Row :
                        /\ <<r, s>> \in Refs /\ s \in a.anchors
                        /\ Table[r] \in ChildrenOf(a.family)}
    /\ arrived' = arrived + 1
    /\ UNCHANGED <<now, coming, archives, op>>

\* A run or a batch ends, an incident is resolved, a snapshot is superseded, a
\* player is no longer crawled.  The age of batches and incidents counts from then.
Close(r) ==
    /\ r \in open /\ now <= LastArrival
    /\ open' = open \ {r}
    /\ since' = IF Table[r] \in {"crawl_batch", "incident"} THEN [since EXCEPT ![r] = now] ELSE since
    /\ UNCHANGED <<now, coming, arrived, rows, late, archives, op>>

\* A player is crawled again.
Reopen(r) ==
    /\ r \in rows \ open /\ Table[r] = "observed_player" /\ now <= LastArrival
    /\ open' = open \cup {r}
    /\ UNCHANGED <<now, coming, arrived, rows, since, late, archives, op>>

-----------------------------------------------------------------------------
(* planFamily *)

\* MUTANT: the comparison the wrong way round.
OldNotYet(f, r) == Age(r) < Families[f].hot

Old(f, r) == Age(r) >= Families[f].hot

\* A row of one of these tables refers to r.
ReferredFrom(tables, r) == \E s \in rows : <<s, r>> \in Refs /\ Table[s] \in tables

PlanBattleGraph(r) == Old("battle_graph", r)

\* Observations of an old battle are left to battle_graph.
PlanBattleObservations(r) ==
    /\ Old("battle_observations", r)
    /\ \A b \in Row : <<r, b>> \in Refs /\ Table[b] = "battle" => ~PlanBattleGraph(b)

\* Runs that have ended, failed ones longer; locks and fetches keep them.
PlanWorkflowAudit(r) ==
    /\ r \notin open
    /\ Age(r) >= IF r \in Failed THEN Extended ELSE Families["workflow_audit"].hot
    /\ ~ReferredFrom({"fetch_run"}, r)

\* Of the tables that refer to a fetch, some keep it from the plan.
PlanFetchAudit(r) ==
    /\ Old("fetch_audit", r)
    /\ ~ReferredFrom({"observation", "battle", "player", "incident", "fetch_run"}, r)

PlanObservedPlayers(r) == r \notin open /\ Old("observed_players", r)

PlanCrawlBatches(r) == r \notin open /\ Old("crawl_batches", r)

\* Changes stay as long as an incident of the same fetch is open.
PlanDetectedChanges(r) ==
    /\ Old("detected_changes", r)
    /\ \A i \in open, s \in Row :
        Table[i] = "incident" => ~({<<i, s>>, <<r, s>>} \subseteq Refs)

PlanDataIncidents(r) == r \notin open /\ Old("data_incidents", r)

\* The accepted snapshot stays.
PlanNormalizedSnapshots(r) == r \notin open /\ Old("normalized_snapshots", r)

PlanPlayerNameHistory(r) == Old("player_name_history", r)

Planned(f, r) ==
    CASE f = "battle_graph" -> PlanBattleGraph(r)
      [] f = "battle_observations" -> PlanBattleObservations(r)
      [] f = "workflow_audit" -> PlanWorkflowAudit(r)
      [] f = "fetch_audit" -> PlanFetchAudit(r)
      [] f = "observed_players" -> PlanObservedPlayers(r)
      [] f = "crawl_batches" -> PlanCrawlBatches(r)
      [] f = "detected_changes" -> PlanDetectedChanges(r)
      [] f = "data_incidents" -> PlanDataIncidents(r)
      [] f = "normalized_snapshots" -> PlanNormalizedSnapshots(r)
      [] f = "player_name_history" -> PlanPlayerNameHistory(r)

Candidates(f) == {r \in rows : Table[r] = Families[f].anchor /\ Planned(f, r)}

FirstOf(S) == {r \in S : Cardinality({s \in S : s < r}) < BatchSize}

-----------------------------------------------------------------------------
(* runGraphRetention *)

Contents(f, anchors) ==
    anchors \cup {s \in rows : Table[s] \in ChildrenOf(f) /\ \E r \in anchors : RefersTo(s, r)}

ThatOf(a) == a.family = op.family /\ a.anchors = op.anchors

\* archiveGraphBatch, of the first of the plan; an archive of the same anchors
\* is kept as it is.
ArchiveBatch(f) ==
    LET batch == FirstOf(Candidates(f))
    IN  /\ op.at \in {"idle", "down"}
        /\ op' = [NoOperation(IF batch = {} THEN "done" ELSE "archived")
                    EXCEPT !.family = f, !.anchors = batch]
        /\ archives' = IF batch = {} \/ \E a \in archives : a.family = f /\ a.anchors = batch
                       THEN archives
                       ELSE archives \cup {[family |-> f, anchors |-> batch, proved |-> FALSE,
                                            rows |-> Contents(f, batch)]}
        /\ UNCHANGED <<now, coming, arrived, rows, since, open, late>>

\* A later request for an archive that is there.
Resume(a) ==
    /\ op.at \in {"idle", "down"}
    /\ op' = [NoOperation("archived") EXCEPT !.family = a.family, !.anchors = a.anchors]
    /\ UNCHANGED <<now, coming, arrived, rows, since, open, late, archives>>

\* verifyGraphBytesAgainstManifest: the object has the anchors of the manifest and
\* nothing but what refers to one of them.
Verifies(a) ==
    /\ a.anchors = {r \in a.rows : Table[r] = Families[a.family].anchor}
    /\ \A s \in a.rows \ a.anchors :
          Table[s] \in ChildrenOf(a.family) /\ \E r \in a.anchors : <<s, r>> \in Refs

\* Two verifications and a re-import.
Prove ==
    /\ op.at = "archived"
    /\ \A a \in archives : ThatOf(a) => Verifies(a)
    /\ op' = [op EXCEPT !.at = "proved"]
    /\ archives' = {IF ThatOf(a) THEN [a EXCEPT !.proved = TRUE] ELSE a : a \in archives}
    /\ UNCHANGED <<now, coming, arrived, rows, since, open, late>>

\* anchorsStillEligible: the plan of the family is made once more.
StillEligible == op.anchors \subseteq Candidates(op.family)

\* MUTANT: whatever is archived may go.
GateUnproved(a) == op.family \notin ArchiveOnly /\ StillEligible

\* The gates of deleteGraphBatch.
Gate(a) ==
    /\ op.family \notin ArchiveOnly
    /\ a.proved
    /\ StillEligible

StartDelete ==
    /\ op.at \in {"archived", "proved"}
    /\ op' = IF \E a \in archives : ThatOf(a) /\ Gate(a)
             THEN [op EXCEPT !.at = "deleting",
                             !.left = Append(Families[op.family].children, Families[op.family].anchor)]
             ELSE NoOperation("done")
    /\ UNCHANGED <<now, coming, arrived, rows, since, open, late, archives>>

\* The rows of the next table that belong to the anchors now.
Due ==
    LET t == Head(op.left)
    IN  IF t = Families[op.family].anchor THEN op.anchors \cap rows
        ELSE {s \in rows : Table[s] = t /\ \E r \in op.anchors : RefersTo(s, r)}

\* A foreign key rejects the deletion.
Referenced == \E r \in Due, s \in rows : <<s, r>> \in Refs

DeleteTable ==
    /\ op.at = "deleting" /\ op.left # <<>>
    /\ IF Referenced
       THEN op' = NoOperation("done") /\ UNCHANGED <<rows, open>>
       ELSE /\ rows' = rows \ Due /\ open' = open \ Due
            /\ op' = [op EXCEPT !.left = Tail(@)]
    /\ UNCHANGED <<now, coming, arrived, since, late, archives>>

EndOperation ==
    /\ op.at = "done" \/ (op.at = "deleting" /\ op.left = <<>>)
    /\ op' = NoOperation("idle")
    /\ UNCHANGED <<now, coming, arrived, rows, since, open, late, archives>>

\* The operator gives up, a check of the archive fails, the process dies.
OperationStops ==
    /\ op.at \notin {"idle", "down"}
    /\ op' = NoOperation("down")
    /\ UNCHANGED <<now, coming, arrived, rows, since, open, late, archives>>

\* An operator who goes on proves what he has archived and deletes it.
OperationStep ==
    Prove \/ (op.at = "proved" /\ StartDelete) \/ DeleteTable \/ EndOperation

FamiliesNext ==
    \/ Tick \/ Arrive \/ \E r \in Row : Close(r) \/ Reopen(r)
    \/ \E f \in DOMAIN Families : ArchiveBatch(f)
    \/ \E a \in archives : Resume(a)
    \/ OperationStep \/ StartDelete \/ OperationStops

\* Time passes, and the operator turns to every family again and again.
FamiliesFairness ==
    /\ WF_familyVars(Tick)
    /\ WF_familyVars(OperationStep)
    /\ \A f \in DOMAIN Families : []<><<ArchiveBatch(f)>>_familyVars
    /\ <>[][~(OperationStops \/ (op.at = "archived" /\ StartDelete))]_familyVars

FamiliesSpec == FamiliesInit /\ [][FamiliesNext]_familyVars /\ FamiliesFairness

-----------------------------------------------------------------------------
FamiliesTypeOK ==
    /\ now \in 0 .. MaxNow /\ arrived \in 0 .. Len(coming)
    /\ rows \subseteq Row /\ open \subseteq Row /\ late \subseteq Row
    /\ \A a \in archives : a.anchors \subseteq a.rows /\ a.anchors # {}
    /\ \A a, b \in archives : a.family = b.family /\ a.anchors = b.anchors => a = b
    /\ op.at \in {"idle", "down", "done", "archived", "proved", "deleting"}

\* "No row is deleted before its batch archive" is proved, whichever family it goes
\* with and however often a deletion was begun, rejected and begun again: but for
\* children that came after the archive was made.
EvidenceKept ==
    \A i \in 1 .. arrived : \A r \in coming[i] :
        \/ r \in rows \cup late
        \/ \E a \in archives : a.proved /\ r \in a.rows

\* Rows and archives agree.
FamiliesInv == FamiliesTypeOK /\ EvidenceKept

\* The families leave nothing to each other for ever.  Once nothing is in use, an
\* anchor that remains is held by a row that is no child of it and remains too:
\* an observation of a battle that grew old goes with it, a fetch after what was
\* seen in it and after its retries, a run after its fetches and batches.
Holds(s, r) ==
    /\ RefersTo(s, r)
    /\ \A f \in DOMAIN Families : Families[f].anchor = Table[r] => Table[s] \notin ChildrenOf(f)

EveryOldRowGoes ==
    <>[](open = {}) =>
        <>[](\A f \in DOMAIN Families \ ArchiveOnly : \A r \in rows :
                Table[r] = Families[f].anchor => \E s \in rows : Holds(s, r))
=============================================================================
