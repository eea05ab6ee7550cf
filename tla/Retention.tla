----------------------------- MODULE Retention ------------------------------
(***************************************************************************)
(* Deletion of what Archive has archived.  lib/retention/deletion.ts        *)
(* deletes the child rows of an aggregation run in batches, each with its   *)
(* record, and resumes from the last completed one; lib/retention/graph.ts  *)
(* deletes the children of a set of anchors and then the anchors.           *)
(*                                                                         *)
(* Around it run what deletion must not disturb: aggregation completes      *)
(* newer triples, ranking starts on the newest one, somebody places a hold  *)
(* on the run, and the crawl observes an old battle again.                  *)
(***************************************************************************)
EXTENDS Archive

CONSTANTS
    HotTriples,     \* newest triples of aggregation runs that are kept
    MaxTriples,     \* bound: triples
    DeletionBatch       \* rows that one statement deletes

ASSUME RetentionAssumption ==
    /\ HotTriples \in Nat \ {0} /\ MaxTriples \in Nat \ {0}
    /\ DeletionBatch \in Nat \ {0}

VARIABLES
    newest,         \* the triple that completed last; OldRun is of triple 1
    reading,        \* the triple a ranking job has read and not yet referenced, or 0
    referenced,     \* a ranking run references OldRun
    held,           \* there is an open hold on OldRun
    record,         \* retention_deletion_manifests of OldRun, by batch number
    finished        \* its batch 0 is completed

worldVars == <<newest, reading, referenced, held>>
recordVars == <<record, finished>>
retentionVars == <<archiveVars, worldVars, recordVars>>

RunKey == {OldRun}
NumBatches == Cardinality(Row) + 2

-----------------------------------------------------------------------------
(* Eligibility *)

\* MUTANT: the newest triple that is no longer kept is counted one too early.
HotTooFew == newest - 1 < HotTriples - 1

\* identifyHotTriples, for the triple of OldRun.
Hot == newest - 1 < HotTriples

\* computeAggregationEligibility, for a run that succeeded.
Eligible == ~Hot /\ ~referenced /\ ~held

-----------------------------------------------------------------------------
(* The rest of the system *)

\* The next aggregation job completes.  HOT WINDOW: a ranking job that has read
\* a triple references it before that triple is out of the hot ones.
CompleteTriple ==
    /\ kind = "run"
    /\ newest < MaxTriples
    /\ reading # 0 => newest + 1 - reading < HotTriples
    /\ newest' = newest + 1
    /\ UNCHANGED <<archiveVars, reading, referenced, held, recordVars>>

RankingReads ==
    /\ kind = "run" /\ reading = 0
    /\ reading' = newest
    /\ UNCHANGED <<archiveVars, newest, referenced, held, recordVars>>

RankingStarts ==
    /\ reading # 0
    /\ referenced' = (referenced \/ reading = 1)
    /\ reading' = 0
    /\ UNCHANGED <<archiveVars, newest, held, recordVars>>

\* createHold and releaseHold.
SetHold ==
    /\ kind = "run"
    /\ held' = ~held
    /\ UNCHANGED <<archiveVars, newest, reading, referenced, recordVars>>

\* An anchor's retention time is over.
Age(a) ==
    /\ kind = "graph" /\ a \notin old
    /\ old' = old \cup {a}
    /\ UNCHANGED <<kind, rows, anchors, store, manifest, evidence, puts, stage, task>>
    /\ UNCHANGED <<worldVars, recordVars>>

\* A crawl finds a battle it has: one more observation, whatever its age.
Observe(r) ==
    /\ kind = "graph"
    /\ r \in Late \ rows /\ ParentOf[r] \in anchors
    /\ rows' = rows \cup {r}
    /\ UNCHANGED <<kind, anchors, old, store, manifest, evidence, puts, stage, task>>
    /\ UNCHANGED <<worldVars, recordVars>>

-----------------------------------------------------------------------------
(* Deletion of a run's rows *)

CompletedBatches == {n \in 1..NumBatches : record[n].status = "completed"}

LastCompleted == IF CompletedBatches = {} THEN 0
                 ELSE CHOOSE n \in CompletedBatches : \A m \in CompletedBatches : m <= n

Recorded[n \in 0..NumBatches] ==
    IF n = 0 THEN 0
    ELSE Recorded[n - 1] + (IF n \in CompletedBatches THEN record[n].deleted ELSE 0)

\* MUTANT: the checkpoint is the last batch whatever became of it.
CheckpointOfAny ==
    LET tried == {n \in 1..NumBatches : record[n].status # "none"}
        last == IF tried = {} THEN 0 ELSE CHOOSE n \in tried : \A m \in tried : m <= n
    IN  [batch |-> last,
         cursor |-> IF last = 0 THEN 0 ELSE record[last].cursor,
         deleted |-> IF last = 0 THEN 0 ELSE record[last].deleted]

\* lastCompletedDeletionCheckpoint.
Checkpoint ==
    LET last == LastCompleted
    IN  [batch |-> last,
         cursor |-> IF last = 0 THEN 0 ELSE record[last].cursor,
         deleted |-> Recorded[NumBatches]]

RowCount == Cardinality(manifest[RunKey].object.rows)

\* Every gate, then the durable intent (batch 0 planned).
StartDelete(op) ==
    /\ kind = "run"
    /\ MayStart(op)
    /\ Eligible
    /\ Gate(RunKey)
    /\ Cardinality(Children(RunKey)) + Checkpoint.deleted = RowCount
    /\ stage' = [stage EXCEPT ![op] = "delete"]
    /\ task' = [task EXCEPT ![op] = [NoTask EXCEPT
                    !.key = RunKey, !.already = Checkpoint.deleted,
                    !.cursor = Checkpoint.cursor, !.batch = Checkpoint.batch]]
    /\ finished' = FALSE
    /\ UNCHANGED <<tableVars, store, manifest, evidence, puts, worldVars, record>>

NextBatch(op) ==
    First({r \in Children(task[op].key) : r > task[op].cursor}, DeletionBatch)

Greatest(S) == CHOOSE x \in S : \A y \in S : y <= x

\* One transaction: the run's row is locked, eligibility and count are checked
\* again, then the batch is deleted and recorded.  A reference to the run waits
\* for that lock by its foreign key.
DeleteBatch(op) ==
    LET t == task[op]  batch == NextBatch(op) IN
    /\ stage[op] = "delete"
    /\ Eligible
    /\ Cardinality(Children(RunKey)) + t.already + t.deleted = RowCount
    /\ batch # {}
    /\ rows' = rows \ batch
    /\ record' = [record EXCEPT ![t.batch + 1] =
          [status |-> "completed", deleted |-> Cardinality(batch), cursor |-> Greatest(batch)]]
    /\ task' = [task EXCEPT ![op].batch = @ + 1, ![op].cursor = Greatest(batch),
                            ![op].deleted = @ + Cardinality(batch)]
    /\ UNCHANGED <<kind, anchors, old, store, manifest, evidence, puts, stage, worldVars, finished>>

\* The transaction throws: a check failed or the connection did.
DeleteThrows(op) ==
    /\ stage[op] = "delete"
    /\ Continue(op, "failed")
    /\ UNCHANGED <<tableVars, store, manifest, evidence, puts, task, worldVars, recordVars>>

\* The record of the failure, by ON DUPLICATE KEY UPDATE.  Its number depends on
\* whether the batch had been counted when the error was thrown.
RecordFailure(op) ==
    LET t == task[op] IN
    /\ stage[op] = "failed"
    /\ \E n \in {t.batch + 1, t.batch + 2} :
          record' = [record EXCEPT ![n] = [status |-> "failed", deleted |-> 0, cursor |-> t.cursor]]
    /\ End(op)
    /\ UNCHANGED <<tableVars, store, manifest, evidence, puts, worldVars, finished>>

\* Nothing was left after the cursor: the counts must agree.  If they do not, Stop.
FinishDelete(op) ==
    /\ stage[op] = "delete"
    /\ Eligible
    /\ NextBatch(op) = {}
    /\ Children(RunKey) = {}
    /\ task[op].already + task[op].deleted = RowCount
    /\ finished' = TRUE
    /\ End(op)
    /\ UNCHANGED <<tableVars, store, manifest, evidence, puts, worldVars, record>>

-----------------------------------------------------------------------------
(* Deletion of a graph *)

\* Eligibility is checked here and not again.
StartDrain(op, k) ==
    /\ kind = "graph"
    /\ MayStart(op)
    /\ Gate(k)
    /\ k \subseteq Candidates
    /\ Start(op, k, "children")
    /\ UNCHANGED <<tableVars, store, manifest, evidence, puts, worldVars, recordVars>>

\* A batch that is not full is the last one of its table.
DrainChildren(op) ==
    LET batch == NextBatch(op)  full == Cardinality(batch) = DeletionBatch IN
    /\ stage[op] = "children"
    /\ rows' = rows \ batch
    /\ task' = [task EXCEPT ![op].cursor = IF full THEN Greatest(batch) ELSE 0]
    /\ Continue(op, IF full THEN "children" ELSE "anchors")
    /\ UNCHANGED <<kind, anchors, old, store, manifest, evidence, puts, worldVars, recordVars>>

\* The foreign keys reject the deletion of an anchor that has a row again.
DrainAnchors(op) ==
    LET t == task[op]
        batch == First({a \in t.key \cap anchors : a > t.cursor}, DeletionBatch)
        full == Cardinality(batch) = DeletionBatch
    IN  /\ stage[op] = "anchors"
        /\ Children(batch) = {}
        /\ anchors' = anchors \ batch
        /\ IF full THEN /\ task' = [task EXCEPT ![op].cursor = Greatest(batch)]
                        /\ UNCHANGED stage
                   ELSE End(op)
        /\ UNCHANGED <<kind, rows, old, store, manifest, evidence, puts, worldVars, recordVars>>

-----------------------------------------------------------------------------
NoBatch == [status |-> "none", deleted |-> 0, cursor |-> 0]

RetentionInit ==
    /\ ArchiveInit
    /\ newest = 1 /\ reading = 0
    /\ referenced = FALSE /\ held = FALSE
    /\ record = [n \in 1..NumBatches |-> NoBatch]
    /\ finished = FALSE

\* Requests on runs are only accepted for runs that are eligible.
Archiving(op) ==
    /\ \/ ArchiveStep(op)
       \/ \E k \in Keys : StartExport(op, k)
    /\ kind = "run" /\ stage[op] = "idle" => Eligible
    /\ UNCHANGED <<worldVars, recordVars>>

World ==
    \/ CompleteTriple \/ RankingReads \/ RankingStarts \/ SetHold
    \/ \E a \in Anchor : Age(a)
    \/ \E r \in Late : Observe(r)

Deleting(op) ==
    \/ StartDelete(op) \/ DeleteBatch(op) \/ DeleteThrows(op)
    \/ RecordFailure(op) \/ FinishDelete(op)
    \/ \E k \in Keys : StartDrain(op, k)
    \/ DrainChildren(op) \/ DrainAnchors(op)

RetentionNext ==
    \/ World
    \/ \E op \in Archivist : Archiving(op) \/ Deleting(op)

RetentionSpec == RetentionInit /\ [][RetentionNext]_retentionVars

-----------------------------------------------------------------------------
(* Properties *)

Where == {"idle", "read", "put", "insert", "pass1", "pass2", "judge", "restore",
          "delete", "failed", "children", "anchors"}

Task == [key : Key \cup {{}}, object : Content \cup {None}, passed : SUBSET {1, 2},
         already : 0..Cardinality(Row), deleted : 0..Cardinality(Row),
         cursor : Row \cup Anchor \cup {0}, batch : 0..Cardinality(Row)]

\* The variables have their types.
RetentionTypeOK ==
    /\ ArchiveTypeOK
    /\ stage \in [Archivist -> Where]
    /\ task \in [Archivist -> Task]
    /\ newest \in 1..MaxTriples /\ reading \in 0..MaxTriples
    /\ referenced \in BOOLEAN /\ held \in BOOLEAN /\ finished \in BOOLEAN
    /\ record \in [1..NumBatches -> [status : {"none", "completed", "failed"},
                                     deleted : 0..DeletionBatch, cursor : Row \cup {0}]]

\* An archive from which rows can be restored: verified, and the object is still
\* the one of the manifest.
Restorable(k) ==
    /\ manifest[k] # None
    /\ manifest[k].status = "verified"
    /\ store[k] = manifest[k].object

ArchivedRows == UNION {manifest[k].object.rows : k \in {j \in Key : Restorable(j)}}

\* Every row that was there from the beginning is in the database or in an
\* archive from which it can be restored, through crashes, failing batches and
\* archives of overlapping sets of anchors (deletion.ts and graph.ts, the gates).
Original == Row \ Late
Archived == INSTANCE Shelf WITH Item <- Original,
                                live <- rows \ Late,
                                safe <- ArchivedRows \ Late
NothingIsLost == Archived!Spec

\* A ranking run finds the rows of the aggregation run that it references
\* (the hot triples, and the check of eligibility in each transaction).
RankingFindsItsRows == referenced => Original \subseteq rows

\* A deletion that was interrupted can be resumed: the completed records and the
\* rows that are left add up to the manifest, the cursor has passed no row that
\* is left, and the run is recorded as deleted only when it is
\* (lastCompletedDeletionCheckpoint and the records it reads).
Resumable ==
    kind = "run" /\ manifest[RunKey] # None =>
        /\ Cardinality(Children(RunKey)) + Checkpoint.deleted = RowCount
        /\ \A r \in Children(RunKey) : r > Checkpoint.cursor
        /\ finished => Children(RunKey) = {}

\* The records of a deletion are those of one that can go on.
RetentionInv == RetentionTypeOK /\ Resumable

\* "No row is deleted before its batch archive is double-verified": each row that
\* a step deletes is in a restorable archive (graph.ts, the safety model).
OnlyArchivedRowsDeleted == [][rows \ rows' \subseteq ArchivedRows]_retentionVars
=============================================================================
