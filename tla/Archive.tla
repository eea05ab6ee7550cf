------------------------------ MODULE Archive -------------------------------
(***************************************************************************)
(* Rows are archived before they may be deleted: an export writes one       *)
(* object and a manifest with its checksums, two verification passes read   *)
(* the object back and leave evidence, and a re-import restores it into a   *)
(* staging table.  lib/retention/archive.ts does so for the child rows of a *)
(* run, lib/retention/graph.ts for a set of anchors and their children; the *)
(* steps are the same, so `kind' only says whose they are.                  *)
(*                                                                         *)
(* Each request to the route is one operator's: `stage' and `task' are how  *)
(* far it has come and what it remembers.  Requests on graphs are serialised *)
(* by a lock, those on runs by nothing.                                    *)
(***************************************************************************)
EXTENDS Integers, FiniteSets

CONSTANTS
    Archivist,      \* processes that serve a retention request
    OldRun,         \* the run whose rows are archived, in the kind "run"
    Anchor,         \* ids of anchors, in the kind "graph"
    Row,            \* ids of child rows; MySQL orders both kinds of id
    Late,           \* those rows that a crawl writes after the beginning
    ParentOf,       \* the anchor of each row
    AnchorBatch,    \* anchors of one archive
    MaxPuts,        \* bound: uploads
    None,           \* no object, no manifest
    Bad             \* an object whose bytes are not those that were sent

\* What an object and a manifest say.
Content == [rows : SUBSET Row, anchors : SUBSET Anchor, stamp : 0..MaxPuts]

Manifest == [object : Content, status : {"pending", "verified", "failed"},
             count : 0..2, reimport : {"pending", "passed", "failed"}]

ASSUME ArchiveAssumption ==
    /\ Anchor \subseteq Nat \ {0} /\ Row \subseteq Nat \ {0}
    /\ IsFiniteSet(Anchor) /\ IsFiniteSet(Row)
    /\ Late \subseteq Row
    /\ ParentOf \in [Row -> Anchor]
    /\ AnchorBatch \in Nat \ {0} /\ MaxPuts \in Nat
    /\ OldRun \notin Anchor
    /\ None # Bad /\ None \notin Manifest

VARIABLES
    kind,           \* "run" or "graph"
    rows,           \* child rows in the tables
    anchors,        \* anchors in their table
    old,            \* anchors past their retention time
    store,          \* what the object store has under each key
    manifest,       \* archived_run_manifests, retention_graph_manifests
    evidence,       \* pass numbers with a passed row of evidence
    puts,           \* uploads so far, the createdAt of the next object
    stage,          \* where each operator's request is
    task            \* what it remembers

archiveVars == <<kind, rows, anchors, old, store, manifest, evidence, puts, stage, task>>
tableVars == <<kind, rows, anchors, old>>

\* A key is the hash of a set of anchors, or the run.
Key == {{OldRun}} \cup (SUBSET Anchor \ {{}})

NoTask == [key |-> {}, object |-> None, passed |-> {},
           already |-> 0, deleted |-> 0, cursor |-> 0, batch |-> 0]

-----------------------------------------------------------------------------
(* What is there to archive *)

Parent(r) == IF kind = "run" THEN OldRun ELSE ParentOf[r]
Children(k) == {r \in rows : Parent(r) \in k}

\* The first n ids of a set, in the order of ORDER BY id ASC LIMIT n.
First(S, n) == {x \in S : Cardinality({y \in S : y < x}) < n}

\* planBattleGraph selects by age alone; the other families also by status.
Candidates == anchors \cap old
PlannedBatch == First(Candidates, AnchorBatch)

Contents(k) == [rows |-> Children(k), anchors |-> k \cap anchors, stamp |-> puts]

-----------------------------------------------------------------------------
(* Requests *)

\* runGraphRetention takes the workflow lock, runRetentionOperation nothing.
MayStart(op) ==
    /\ stage[op] = "idle"
    /\ kind = "graph" => \A other \in Archivist : stage[other] = "idle"

Start(op, k, where) ==
    /\ stage' = [stage EXCEPT ![op] = where]
    /\ task' = [task EXCEPT ![op] = [NoTask EXCEPT !.key = k]]

Continue(op, where) == stage' = [stage EXCEPT ![op] = where]

End(op) ==
    /\ stage' = [stage EXCEPT ![op] = "idle"]
    /\ task' = [task EXCEPT ![op] = NoTask]

\* The process dies, or an error is thrown that is recorded nowhere.
Stop(op) ==
    /\ stage[op] # "idle"
    /\ End(op)
    /\ UNCHANGED <<tableVars, store, manifest, evidence, puts>>

-----------------------------------------------------------------------------
(* Export *)

\* No manifest yet.  When there is one, the request only reads.
StartExport(op, k) ==
    /\ MayStart(op)
    /\ manifest[k] = None
    /\ kind = "graph" => k = PlannedBatch
    /\ Start(op, k, "read")
    /\ UNCHANGED <<tableVars, store, manifest, evidence, puts>>

ReadRows(op) ==
    LET k == task[op].key IN
    /\ stage[op] = "read"
    /\ puts < MaxPuts
    /\ kind = "graph" => k \subseteq anchors
    /\ puts' = puts + 1
    /\ task' = [task EXCEPT ![op].object = Contents(k)]
    /\ Continue(op, "put")
    /\ UNCHANGED <<tableVars, store, manifest, evidence>>

\* The key is the same for every export of these rows: a later one overwrites.
\* The check that follows compares sizes only.
PutObject(op) ==
    /\ stage[op] = "put"
    /\ \E stored \in {task[op].object, Bad} :
          store' = [store EXCEPT ![task[op].key] = stored]
    /\ Continue(op, "insert")
    /\ UNCHANGED <<tableVars, manifest, evidence, puts, task>>

\* The unique key rejects a second manifest.
InsertManifest(op) ==
    LET k == task[op].key IN
    /\ stage[op] = "insert"
    /\ manifest[k] = None
    /\ manifest' = [manifest EXCEPT ![k] =
          [object |-> task[op].object, status |-> "pending", count |-> 0, reimport |-> "pending"]]
    /\ End(op)
    /\ UNCHANGED <<tableVars, store, evidence, puts>>

-----------------------------------------------------------------------------
(* Verification *)

\* MUTANT: a pass trusts that the object is there, as HEAD says.
MatchesIfPresent(k, object) == store[k] # None

\* verifyArchiveBytesAgainstManifest: size, both checksums, counts, ids.
Matches(k, object) == store[k] = object

StartVerify(op, k) ==
    /\ MayStart(op)
    /\ manifest[k] # None
    /\ Start(op, k, "pass1")
    /\ UNCHANGED <<tableVars, store, manifest, evidence, puts>>

\* A pass downloads the object and records its result.
Pass(op, n, next) ==
    LET k == task[op].key
        passed == Matches(k, manifest[k].object)
    IN  /\ evidence' = [evidence EXCEPT ![k] = IF passed THEN @ \cup {n} ELSE @]
        /\ task' = [task EXCEPT ![op].passed = IF passed THEN @ \cup {n} ELSE @]
        /\ Continue(op, next)
        /\ UNCHANGED <<tableVars, store, manifest, puts>>

Pass1(op) == stage[op] = "pass1" /\ Pass(op, 1, "pass2")
Pass2(op) == stage[op] = "pass2" /\ Pass(op, 2, "judge")

SetVerification(op) ==
    LET passed == task[op].passed IN
    /\ stage[op] = "judge"
    /\ manifest' = [manifest EXCEPT
          ![task[op].key].status = IF passed = {1, 2} THEN "verified" ELSE "failed",
          ![task[op].key].count = Cardinality(passed)]
    /\ End(op)
    /\ UNCHANGED <<tableVars, store, evidence, puts>>

-----------------------------------------------------------------------------
(* Re-import into a temporary table *)

DoubleVerified(k) ==
    /\ manifest[k] # None
    /\ manifest[k].status = "verified"
    /\ manifest[k].count >= 2

\* The object is downloaded and validated once more.
StartReimport(op, k) ==
    /\ MayStart(op)
    /\ DoubleVerified(k)
    /\ Matches(k, manifest[k].object)
    /\ Start(op, k, "restore")
    /\ UNCHANGED <<tableVars, store, manifest, evidence, puts>>

\* The proof fails when the table's columns are no longer those of the archive.
SetReimport(op) ==
    /\ stage[op] = "restore"
    /\ \E result \in {"passed", "failed"} :
          manifest' = [manifest EXCEPT ![task[op].key].reimport = result]
    /\ End(op)
    /\ UNCHANGED <<tableVars, store, evidence, puts>>

\* What every deletion demands of the archive.
Gate(k) ==
    /\ DoubleVerified(k)
    /\ Cardinality(evidence[k]) >= 2
    /\ manifest[k].reimport = "passed"

-----------------------------------------------------------------------------
ArchiveInit ==
    /\ kind \in {"run", "graph"}
    /\ rows = Row \ Late
    /\ anchors = (IF kind = "graph" THEN Anchor ELSE {})
    /\ old = {}
    /\ store = [k \in Key |-> None]
    /\ manifest = [k \in Key |-> None]
    /\ evidence = [k \in Key |-> {}]
    /\ puts = 0
    /\ stage = [op \in Archivist |-> "idle"]
    /\ task = [op \in Archivist |-> NoTask]

\* The keys a request can name: the run, or any set of anchors.
Keys == IF kind = "run" THEN {{OldRun}} ELSE Key \ {{OldRun}}

ArchiveStep(op) ==
    \/ \E k \in Keys : StartVerify(op, k) \/ StartReimport(op, k)
    \/ ReadRows(op) \/ PutObject(op) \/ InsertManifest(op)
    \/ Pass1(op) \/ Pass2(op) \/ SetVerification(op)
    \/ SetReimport(op)
    \/ Stop(op)

-----------------------------------------------------------------------------
ArchiveTypeOK ==
    /\ kind \in {"run", "graph"}
    /\ rows \subseteq Row /\ anchors \subseteq Anchor /\ old \subseteq Anchor
    /\ store \in [Key -> Content \cup {None, Bad}]
    /\ manifest \in [Key -> Manifest \cup {None}]
    /\ evidence \in [Key -> SUBSET {1, 2}]
    /\ puts \in 0..MaxPuts
=============================================================================
