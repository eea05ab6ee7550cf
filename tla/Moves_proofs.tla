---------------------------- MODULE Moves_proofs ----------------------------
(***************************************************************************)
(* What decides which rows stay and which rows another database gets: a     *)
(* ranking run finds the rows it references, the catalog and its accepted   *)
(* list are one list, and a pass of the copy only removes, shows and        *)
(* reports what is so, for all values of the constants.                     *)
(***************************************************************************)
EXTENDS Retention, Catalog, Copy, Orders, FiniteSetTheorems, TLAPS

(***************************************************************************)
(* Retention.  The rows of a ranking run are safe in turn by two things: as *)
(* long as its triple is hot, and from the time it is referenced.  A job    *)
(* that has read the triple and not yet referenced it is what joins the     *)
(* two: it keeps the triple hot, which is the hypothesis HOT WINDOW of      *)
(* CompleteTriple.                                                          *)
(***************************************************************************)
\* Operators are somewhere in a request, and never drain the rows of a run.
RequestsFitKind ==
    /\ stage \in [Archivist -> Where]
    /\ kind \in {"run", "graph"}
    /\ kind = "run" => \A op \in Archivist : stage[op] \notin {"children", "anchors"}

\* Only aggregation runs have triples and references.
ReferencesFitKind ==
    /\ newest \in Nat /\ reading \in Nat
    /\ kind = "graph" => reading = 0 /\ ~referenced

\* A triple that a job is about to reference is hot.
ReadIsHot == reading = 1 => Hot

\* The rows of a run that is hot or referenced are there.
NeededIsThere == kind = "run" /\ (Hot \/ referenced) => Original \subseteq rows

ReferenceInv == RequestsFitKind /\ ReferencesFitKind /\ ReadIsHot /\ NeededIsThere

\* What a step on the archive may not touch.
RowsKept == UNCHANGED <<kind, rows, worldVars>>

-----------------------------------------------------------------------------
LEMMA InitReferences == RetentionInit => ReferenceInv
<1> SUFFICES ASSUME RetentionInit PROVE ReferenceInv
  OBVIOUS
<1> USE DEF RetentionInit, ArchiveInit
<1>1. RequestsFitKind
  BY DEF RequestsFitKind, Where
<1>2. ReferencesFitKind
  BY DEF ReferencesFitKind
<1>3. ReadIsHot
  BY DEF ReadIsHot
<1>4. NeededIsThere
  BY DEF NeededIsThere, Original
<1> QED
  BY <1>1, <1>2, <1>3, <1>4 DEF ReferenceInv

\* A step that leaves the rows and the references alone keeps the invariant when
\* it moves its operator to where the kind allows.
LEMMA MoveKeepsReferences ==
  ASSUME NEW op \in Archivist, NEW where \in Where,
         ReferenceInv, RowsKept,
         stage' = [stage EXCEPT ![op] = where],
         where \in {"children", "anchors"} => kind = "graph"
  PROVE  ReferenceInv'
<1> USE DEF ReferenceInv, RowsKept, worldVars
<1>1. RequestsFitKind'
  BY DEF RequestsFitKind
<1>2. ReferencesFitKind'
  BY DEF ReferencesFitKind
<1>3. ReadIsHot' /\ NeededIsThere'
  BY DEF ReadIsHot, NeededIsThere, Hot
<1> QED
  BY <1>1, <1>2, <1>3

LEMMA StayKeepsReferences ==
  ASSUME ReferenceInv, RowsKept, UNCHANGED stage
  PROVE  ReferenceInv'
BY DEF ReferenceInv, RowsKept, worldVars, RequestsFitKind, ReferencesFitKind,
       ReadIsHot, NeededIsThere, Hot

-----------------------------------------------------------------------------
(* Requests that archive *)

LEMMA ArchivingKeepsReferences ==
  ASSUME ReferenceInv, NEW op \in Archivist, Archiving(op)
  PROVE  ReferenceInv'
<1> USE DEF tableVars, RowsKept, Where
<1>1. UNCHANGED worldVars
  BY DEF Archiving
<1>2. ASSUME NEW k \in Keys, StartVerify(op, k) PROVE ReferenceInv'
  BY <1>1, <1>2, MoveKeepsReferences DEF StartVerify, Start
<1>3. ASSUME NEW k \in Keys, StartReimport(op, k) PROVE ReferenceInv'
  BY <1>1, <1>3, MoveKeepsReferences DEF StartReimport, Start
<1>4. ASSUME NEW k \in Keys, StartExport(op, k) PROVE ReferenceInv'
  BY <1>1, <1>4, MoveKeepsReferences DEF StartExport, Start
<1>5. CASE ReadRows(op)
  BY <1>1, <1>5, MoveKeepsReferences DEF ReadRows, Continue
<1>6. CASE PutObject(op)
  BY <1>1, <1>6, MoveKeepsReferences DEF PutObject, Continue
<1>7. CASE InsertManifest(op)
  BY <1>1, <1>7, MoveKeepsReferences DEF InsertManifest, End
<1>8. CASE Pass1(op)
  BY <1>1, <1>8, MoveKeepsReferences DEF Pass1, Pass, Continue
<1>9. CASE Pass2(op)
  BY <1>1, <1>9, MoveKeepsReferences DEF Pass2, Pass, Continue
<1>10. CASE SetVerification(op)
  BY <1>1, <1>10, MoveKeepsReferences DEF SetVerification, End
<1>11. CASE SetReimport(op)
  BY <1>1, <1>11, MoveKeepsReferences DEF SetReimport, End
<1>12. CASE Stop(op)
  BY <1>1, <1>12, MoveKeepsReferences DEF Stop, End
<1> QED
  BY <1>2, <1>3, <1>4, <1>5, <1>6, <1>7, <1>8, <1>9, <1>10, <1>11, <1>12
  DEF Archiving, ArchiveStep

-----------------------------------------------------------------------------
(* The rest of the system *)

LEMMA WorldKeepsReferences ==
  ASSUME ReferenceInv, World
  PROVE  ReferenceInv'
<1> USE RetentionAssumption DEF ReferenceInv, archiveVars, recordVars
<1>1. CASE CompleteTriple
  <2>1. RequestsFitKind' /\ ReferencesFitKind'
    BY <1>1 DEF CompleteTriple, RequestsFitKind, ReferencesFitKind
  <2>2. ReadIsHot'
    \* HOT WINDOW: the triple that was read is still hot afterwards.
    BY <1>1 DEF CompleteTriple, ReferencesFitKind, ReadIsHot, Hot
  <2>3. NeededIsThere'
    BY <1>1 DEF CompleteTriple, ReferencesFitKind, NeededIsThere, Hot
  <2> QED
    BY <2>1, <2>2, <2>3
<1>2. CASE RankingReads
  <2>1. RequestsFitKind' /\ ReferencesFitKind'
    BY <1>2 DEF RankingReads, RequestsFitKind, ReferencesFitKind
  <2>2. ReadIsHot'
    BY <1>2 DEF RankingReads, ReferencesFitKind, ReadIsHot, Hot
  <2>3. NeededIsThere'
    BY <1>2 DEF RankingReads, NeededIsThere, Hot
  <2> QED
    BY <2>1, <2>2, <2>3
<1>3. CASE RankingStarts
  <2>1. RequestsFitKind' /\ ReferencesFitKind'
    BY <1>3 DEF RankingStarts, RequestsFitKind, ReferencesFitKind
  <2>2. ReadIsHot'
    BY <1>3 DEF RankingStarts, ReadIsHot
  <2>3. NeededIsThere'
    BY <1>3 DEF RankingStarts, ReadIsHot, NeededIsThere, Hot
  <2> QED
    BY <2>1, <2>2, <2>3
<1>4. CASE SetHold
  BY <1>4, StayKeepsReferences
  DEF SetHold, RequestsFitKind, ReferencesFitKind, ReadIsHot, NeededIsThere, Hot
<1>5. ASSUME NEW a \in Anchor, Age(a) PROVE ReferenceInv'
  BY <1>5, StayKeepsReferences DEF Age, RowsKept
<1>6. ASSUME NEW r \in Late, Observe(r) PROVE ReferenceInv'
  BY <1>6 DEF Observe, worldVars, RequestsFitKind, ReferencesFitKind, ReadIsHot,
              NeededIsThere, Hot
<1> QED
  BY <1>1, <1>2, <1>3, <1>4, <1>5, <1>6 DEF World

-----------------------------------------------------------------------------
(* Requests that delete *)

\* The rows of the run are only deleted when it is neither hot nor referenced.
LEMMA DeleteKeepsReferences ==
  ASSUME ReferenceInv, NEW op \in Archivist, DeleteBatch(op), kind = "run"
  PROVE  ReferenceInv'
<1>1. ~Hot /\ ~referenced
  BY DEF DeleteBatch, Eligible
<1>2. UNCHANGED <<kind, stage, worldVars>>
  BY DEF DeleteBatch
<1> QED
  BY <1>1, <1>2 DEF ReferenceInv, worldVars, RequestsFitKind, ReferencesFitKind,
                    ReadIsHot, NeededIsThere, Hot

\* The rows of a graph are not referenced.
LEMMA DrainKeepsReferences ==
  ASSUME ReferenceInv, NEW op \in Archivist, NEW where \in Where, kind = "graph",
         UNCHANGED <<kind, worldVars>>,
         stage' = [stage EXCEPT ![op] = where]
  PROVE  ReferenceInv'
BY DEF ReferenceInv, worldVars, RequestsFitKind, ReferencesFitKind, ReadIsHot,
       NeededIsThere, Hot

LEMMA DeletingKeepsReferences ==
  ASSUME ReferenceInv, NEW op \in Archivist, Deleting(op)
  PROVE  ReferenceInv'
<1> USE DEF tableVars, RowsKept, Where
<1>1. CASE StartDelete(op)
  BY <1>1, MoveKeepsReferences DEF StartDelete
<1>2. CASE DeleteBatch(op)
  <2>1. CASE kind = "run"
    BY <1>2, <2>1, DeleteKeepsReferences
  <2>2. CASE kind = "graph"
    BY <1>2, <2>2 DEF DeleteBatch, ReferenceInv, worldVars, RequestsFitKind,
                      ReferencesFitKind, ReadIsHot, NeededIsThere, Hot
  <2> QED
    BY <2>1, <2>2 DEF ReferenceInv, RequestsFitKind
<1>3. CASE DeleteThrows(op)
  BY <1>3, MoveKeepsReferences DEF DeleteThrows, Continue
<1>4. CASE RecordFailure(op)
  BY <1>4, MoveKeepsReferences DEF RecordFailure, End
<1>5. CASE FinishDelete(op)
  BY <1>5, MoveKeepsReferences DEF FinishDelete, End
<1>6. ASSUME NEW k \in Keys, StartDrain(op, k) PROVE ReferenceInv'
  BY <1>6, MoveKeepsReferences DEF StartDrain, Start
<1>7. CASE DrainChildren(op)
  <2>1. kind = "graph"
    BY <1>7 DEF DrainChildren, ReferenceInv, RequestsFitKind
  <2>2. PICK where \in {"children", "anchors"} : stage' = [stage EXCEPT ![op] = where]
    BY <1>7 DEF DrainChildren, Continue
  <2> QED
    BY <1>7, <2>1, <2>2, DrainKeepsReferences DEF DrainChildren
<1>8. CASE DrainAnchors(op)
  <2>1. RowsKept
    BY <1>8 DEF DrainAnchors
  <2>2. UNCHANGED stage \/ stage' = [stage EXCEPT ![op] = "idle"]
    BY <1>8 DEF DrainAnchors, End
  <2> QED
    BY <2>1, <2>2, StayKeepsReferences, MoveKeepsReferences
<1> QED
  BY <1>1, <1>2, <1>3, <1>4, <1>5, <1>6, <1>7, <1>8 DEF Deleting

-----------------------------------------------------------------------------
(* The theorems *)

\* What keeps the rows of a run from deletion holds at all times.
THEOREM ReferencesHold == RetentionSpec => []ReferenceInv
<1>1. ReferenceInv /\ [RetentionNext]_retentionVars => ReferenceInv'
  <2> SUFFICES ASSUME ReferenceInv, [RetentionNext]_retentionVars PROVE ReferenceInv'
    OBVIOUS
  <2>1. CASE World
    BY <2>1, WorldKeepsReferences
  <2>2. ASSUME NEW op \in Archivist, Archiving(op) PROVE ReferenceInv'
    BY <2>2, ArchivingKeepsReferences
  <2>3. ASSUME NEW op \in Archivist, Deleting(op) PROVE ReferenceInv'
    BY <2>3, DeletingKeepsReferences
  <2>4. CASE UNCHANGED retentionVars
    BY <2>4, StayKeepsReferences DEF retentionVars, archiveVars, RowsKept
  <2> QED
    BY <2>1, <2>2, <2>3, <2>4 DEF RetentionNext
<1> QED
  BY <1>1, InitReferences, PTL DEF RetentionSpec

\* No batch of deletion.ts takes rows that a ranking run references, whatever the
\* operators do at the same time: each transaction checks eligibility again.
THEOREM RankingsKeepTheirRows == RetentionSpec => []RankingFindsItsRows
<1>1. ReferenceInv => RankingFindsItsRows
  BY DEF ReferenceInv, RequestsFitKind, ReferencesFitKind, NeededIsThere, RankingFindsItsRows
<1> QED
  BY <1>1, ReferencesHold, PTL

-----------------------------------------------------------------------------
(***************************************************************************)
(* Nothing is lost, and a deletion can be resumed, when requests come one   *)
(* after the other: those on graphs do, by their lock; those on runs do     *)
(* when there is one operator.  A request then finds store, manifest and    *)
(* records as it has read them, which is what its own checks rest on.       *)
(***************************************************************************)
Serial == kind = "graph" \/ \A x, y \in Archivist : x = y

OneRequest == \A x, y \in Archivist : x = y \/ stage[x] = "idle" \/ stage[y] = "idle"

\* What an export has read is all there is of its key.
Holds(k, object) ==
    /\ object \in Content
    /\ Children(k) \ Late \subseteq object.rows
    /\ kind = "run" => object.rows = Children(k)

\* The passes up to n have passed when the object is the one that was sent.
Passed(n, k) == IF store[k] = manifest[k].object THEN 1..n ELSE {}

Proved(k) == manifest[k] # None /\ manifest[k].status = "verified"

\* What a deletion remembers is what the records say.
Remembered(t) ==
    /\ t.batch = LastCompleted
    /\ t.cursor = Checkpoint.cursor
    /\ t.already + t.deleted = Checkpoint.deleted

\* What a request at `where' with the task t may rely on.
Fits(where, t) ==
    /\ where # "idle" => t.key \in Keys
    /\ where \in {"read", "put", "insert"} => manifest[t.key] = None
    /\ where \in {"put", "insert"} => Holds(t.key, t.object)
    /\ where \in {"pass1", "pass2", "judge", "restore"} => manifest[t.key] # None
    /\ where = "pass1" => t.passed = {}
    /\ where = "pass2" => t.passed = Passed(1, t.key)
    /\ where = "judge" => t.passed = Passed(2, t.key)
    /\ where \in {"delete", "failed", "children", "anchors"} => Proved(t.key)
    /\ where \in {"delete", "failed"} => kind = "run" /\ Remembered(t) /\ ~finished
    /\ where \in {"children", "anchors"} => kind = "graph"

RequestsFit == \A op \in Archivist : Fits(stage[op], task[op])

\* A manifest has the rows that were there, and a verified one has its object.
ManifestsFit ==
    \A k \in Keys : manifest[k] # None =>
        /\ Children(k) \ Late \subseteq manifest[k].object.rows
        /\ manifest[k].status = "verified" => store[k] = manifest[k].object

BatchesInOrder == \E n \in 0..Cardinality(Row) : CompletedBatches = 1..n

\* Batches are completed in order, and each has deleted a row.
RecordsInOrder ==
    /\ BatchesInOrder
    /\ LastCompleted <= Checkpoint.deleted
    /\ kind = "run" /\ manifest[RunKey] = None => CompletedBatches = {} /\ ~finished

NothingGone == Original \ rows \subseteq ArchivedRows

RequestInv ==
    /\ RetentionTypeOK /\ Serial /\ OneRequest
    /\ RequestsFit /\ ManifestsFit
    /\ RecordsInOrder /\ Resumable

RetentionIInv == RequestInv /\ NothingGone

\* What a step may do to the rows and to the archives they are in.
ShelfStep ==
    \/ rows' \ Late = rows \ Late /\ ArchivedRows \subseteq ArchivedRows'
    \/ rows' \subseteq rows /\ (rows \ rows') \ Late \subseteq ArchivedRows /\ ArchivedRows' = ArchivedRows

\* What the types say of the rows of a key.
LEMMA KeysAndRows ==
  ASSUME RetentionTypeOK
  PROVE  /\ Keys \subseteq Key /\ RunKey \in Key
         /\ kind = "run" => Keys = {RunKey} /\ Children(RunKey) = rows
         /\ \A k : Children(k) \subseteq rows
         /\ rows \in SUBSET Row /\ IsFiniteSet(rows) /\ IsFiniteSet(Row) /\ Row \subseteq Nat \ {0}
         /\ Cardinality(Row) \in Nat /\ NumBatches \in Nat /\ NumBatches = Cardinality(Row) + 2
<1>1. rows \in SUBSET Row /\ kind \in {"run", "graph"}
  BY DEF RetentionTypeOK, ArchiveTypeOK
<1>2. IsFiniteSet(rows) /\ IsFiniteSet(Row) /\ Cardinality(Row) \in Nat /\ Row \subseteq Nat \ {0}
  BY <1>1, ArchiveAssumption, FS_Subset, FS_CardinalityType
<1>3. Keys \subseteq Key /\ RunKey \in Key
  BY <1>1 DEF Keys, Key, RunKey
<1>4. kind = "run" => Keys = {RunKey} /\ Children(RunKey) = rows
  BY DEF Keys, RunKey, Children, Parent
<1>5. \A k : Children(k) \subseteq rows
  BY DEF Children
<1> QED
  BY <1>1, <1>2, <1>3, <1>4, <1>5 DEF NumBatches

\* What each batch adds to the sum of the records.
Values == [n \in 1..NumBatches |-> IF n \in CompletedBatches THEN record[n].deleted ELSE 0]

LEMMA ValuesAreNumbers ==
  ASSUME RetentionTypeOK
  PROVE  Values \in [1..NumBatches -> Nat]
<1>1. \A n \in 1..NumBatches : record[n].deleted \in 0..DeletionBatch
  BY DEF RetentionTypeOK
<1>2. 0..DeletionBatch \subseteq Nat
  BY RetentionAssumption
<1> QED
  BY <1>1, <1>2 DEF Values

LEMMA RecordedIsSum == RetentionTypeOK => SumsUp(Recorded, Values, NumBatches)
<1> SUFFICES ASSUME RetentionTypeOK PROVE SumsUp(Recorded, Values, NumBatches)
  OBVIOUS
<1>1. NumBatches \in Nat /\ Values \in [1..NumBatches -> Nat]
  BY KeysAndRows, ValuesAreNumbers
<1>2. PICK R : SumsUp(R, Values, NumBatches)
  BY <1>1, SumsExist
<1>3. R = [n \in 0..NumBatches |->
             IF n = 0 THEN 0
             ELSE R[n - 1] + (IF n \in CompletedBatches THEN record[n].deleted ELSE 0)]
  <2>1. R \in [0..NumBatches -> Nat]
    BY <1>2 DEF SumsUp
  <2>2. ASSUME NEW n \in 0..NumBatches
        PROVE  R[n] = IF n = 0 THEN 0
                      ELSE R[n - 1] + (IF n \in CompletedBatches THEN record[n].deleted ELSE 0)
    <3>1. CASE n = 0
      BY <1>2, <3>1 DEF SumsUp
    <3>2. CASE n # 0
      <4>1. n \in 1..NumBatches
        BY <1>1, <3>2
      <4>2. Values[n] = IF n \in CompletedBatches THEN record[n].deleted ELSE 0
        BY <4>1 DEF Values
      <4>3. R[n] = R[n - 1] + Values[n]
        BY <1>2, <3>2 DEF SumsUp
      <4> QED
        BY <3>2, <4>2, <4>3
    <3> QED
      BY <3>1, <3>2
  <2> QED
    BY <2>1, <2>2
<1>4. Recorded = [n \in 0..NumBatches |->
             IF n = 0 THEN 0
             ELSE Recorded[n - 1] + (IF n \in CompletedBatches THEN record[n].deleted ELSE 0)]
  BY <1>3 DEF Recorded
<1> HIDE DEF Recorded
<1>6. \A n \in 0..NumBatches : Recorded[n] =
         IF n = 0 THEN 0
         ELSE Recorded[n - 1] + (IF n \in CompletedBatches THEN record[n].deleted ELSE 0)
  BY <1>4
<1> DEFINE S == {n \in 0..NumBatches : Recorded[n] # R[n]}
<1>7. ASSUME S # {} PROVE FALSE
  <2>1. S \in SUBSET Nat
    BY <1>1
  <2>2. PICK n \in S : \A x \in S : n <= x
    BY <1>7, <2>1, LeastNat
  <2>3. n # 0
    BY <1>2, <1>6, <2>2 DEF SumsUp
  <2>4. n \in 1..NumBatches /\ n - 1 \in 0..NumBatches /\ n - 1 \notin S
    BY <1>1, <2>2, <2>3
  <2>5. R[n - 1] = Recorded[n - 1]
    BY <2>4
  <2>6. R[n] = R[n - 1] + (IF n \in CompletedBatches THEN record[n].deleted ELSE 0)
    <3>1. R[n] = [m \in 0..NumBatches |->
             IF m = 0 THEN 0
             ELSE R[m - 1] + (IF m \in CompletedBatches THEN record[m].deleted ELSE 0)][n]
      BY <1>3
    <3> QED
      BY <2>3, <2>4, <3>1
  <2>7. Recorded[n] = Recorded[n - 1] + (IF n \in CompletedBatches THEN record[n].deleted ELSE 0)
    BY <1>6, <2>3, <2>2
  <2> QED
    BY <2>2, <2>5, <2>6, <2>7
<1>8. Recorded = R
  BY <1>2, <1>4, <1>7 DEF SumsUp
<1> QED
  BY <1>2, <1>8


LEMMA CheckpointFacts ==
  RetentionTypeOK /\ BatchesInOrder
  => /\ LastCompleted \in 0..Cardinality(Row) /\ CompletedBatches = 1..LastCompleted
     /\ Checkpoint.batch = LastCompleted
     /\ Checkpoint.deleted = Recorded[NumBatches] /\ Checkpoint.deleted \in Nat
     /\ Checkpoint.cursor = (IF LastCompleted = 0 THEN 0 ELSE record[LastCompleted].cursor)
     /\ Checkpoint.cursor \in Row \cup {0}
     /\ CompletedBatches = {} => LastCompleted = 0 /\ Checkpoint.deleted = 0
<1> SUFFICES ASSUME RetentionTypeOK, NEW n \in 0..Cardinality(Row), CompletedBatches = 1..n
             PROVE  /\ LastCompleted = n
                    /\ Checkpoint.batch = LastCompleted
                    /\ Checkpoint.deleted = Recorded[NumBatches] /\ Checkpoint.deleted \in Nat
                    /\ Checkpoint.cursor = (IF LastCompleted = 0 THEN 0 ELSE record[LastCompleted].cursor)
                    /\ Checkpoint.cursor \in Row \cup {0}
                    /\ CompletedBatches = {} => LastCompleted = 0 /\ Checkpoint.deleted = 0
  BY DEF BatchesInOrder
<1>1. n \in Nat /\ NumBatches \in Nat /\ n <= NumBatches
  BY KeysAndRows
<1>2. LastCompleted = n
  <2>1. CASE n = 0
    <3>1. CompletedBatches = {}
      BY <2>1
    <3> QED
      BY <2>1, <3>1 DEF LastCompleted
  <2>2. CASE n # 0
    <3>1. n \in 1..n /\ \A m \in 1..n : m <= n
      BY <1>1, <2>2
    <3>2. \A x \in 1..n : (\A m \in 1..n : m <= x) => x = n
      BY <3>1
    <3>3. (CHOOSE x \in 1..n : \A m \in 1..n : m <= x) = n
      BY <3>1, <3>2
    <3>4. CompletedBatches # {}
      BY <3>1
    <3> QED
      BY <3>3, <3>4 DEF LastCompleted
  <2> QED
    BY <2>1, <2>2
<1>3. Checkpoint = [batch |-> LastCompleted,
                    cursor |-> IF LastCompleted = 0 THEN 0 ELSE record[LastCompleted].cursor,
                    deleted |-> Recorded[NumBatches]]
  BY DEF Checkpoint
<1>4. SumsUp(Recorded, Values, NumBatches)
  BY RecordedIsSum
<1>5. Recorded[NumBatches] \in Nat
  BY <1>1, <1>4 DEF SumsUp
<1>6. n # 0 => record[n].cursor \in Row \cup {0}
  <2>1. n # 0 => n \in 1..NumBatches
    BY <1>1
  <2> QED
    BY <2>1 DEF RetentionTypeOK
<1>7. CompletedBatches = {} => LastCompleted = 0
  BY DEF LastCompleted
<1>8. CompletedBatches = {} => Recorded[NumBatches] = 0
  <2>1. CompletedBatches = {} => \A m \in 1..NumBatches : Values[m] = 0
    BY DEF Values
  <2> QED
    BY <1>1, <1>4, <2>1, SumOfNothing
<1> QED
  BY <1>2, <1>3, <1>5, <1>6, <1>7, <1>8

LEMMA RecordsStay ==
  ASSUME UNCHANGED record
  PROVE  /\ CompletedBatches' = CompletedBatches /\ LastCompleted' = LastCompleted
         /\ Checkpoint' = Checkpoint
<1>1. CompletedBatches' = CompletedBatches
  BY DEF CompletedBatches
<1>2. LastCompleted' = LastCompleted
  BY <1>1 DEF LastCompleted
<1>3. Recorded' = Recorded
  BY <1>1 DEF Recorded
<1> QED
  BY <1>1, <1>2, <1>3 DEF Checkpoint

\* With the same store and manifests, the same rows can be restored.
LEMMA ArchivesStay ==
  ASSUME UNCHANGED <<store, manifest>>
  PROVE  ArchivedRows' = ArchivedRows
BY DEF ArchivedRows, Restorable

LEMMA ChildrenStay ==
  ASSUME UNCHANGED <<kind, rows>>
  PROVE  \A k : Children(k)' = Children(k)
BY DEF Children, Parent

LEMMA FitsStays ==
  ASSUME NEW where, NEW t, UNCHANGED <<kind, rows, store, manifest, recordVars>>, Fits(where, t)
  PROVE  Fits(where, t)'
<1>1. Keys' = Keys
  BY DEF Keys
<1>2. Children(t.key)' = Children(t.key)
  BY DEF Children, Parent
<1>3. Holds(t.key, t.object)' = Holds(t.key, t.object)
  BY <1>2 DEF Holds
<1>4. Passed(1, t.key)' = Passed(1, t.key) /\ Passed(2, t.key)' = Passed(2, t.key)
  BY DEF Passed
<1>5. Proved(t.key)' = Proved(t.key)
  BY DEF Proved
<1>6. UNCHANGED record /\ UNCHANGED finished
  BY DEF recordVars
<1>7. Remembered(t)' = Remembered(t)
  BY <1>6, RecordsStay DEF Remembered
<1> QED
  BY <1>1, <1>3, <1>4, <1>5, <1>6, <1>7 DEF Fits

\* The request of one operator moves, and the others are idle.
LEMMA OthersAreIdle ==
  ASSUME Serial, OneRequest, NEW op \in Archivist, stage[op] # "idle" \/ MayStart(op),
         stage \in [Archivist -> Where], NEW w, stage' = [stage EXCEPT ![op] = w], UNCHANGED kind
  PROVE  /\ Serial' /\ OneRequest'
         /\ \A x \in Archivist : x # op => stage'[x] = "idle"
<1>1. \A x \in Archivist : x # op => stage[x] = "idle"
  BY DEF Serial, OneRequest, MayStart
<1>2. \A x \in Archivist : x # op => stage'[x] = "idle"
  BY <1>1
<1> QED
  BY <1>2 DEF Serial, OneRequest

LEMMA OneFitsAllFit ==
  ASSUME NEW op \in Archivist, \A x \in Archivist : x # op => stage'[x] = "idle",
         Fits(stage[op], task[op])'
  PROVE  RequestsFit'
<1>1. \A x \in Archivist : stage'[x] = "idle" => Fits(stage[x], task[x])'
  BY DEF Fits
<1> QED
  BY <1>1 DEF RequestsFit


\* What the requests leave alone stays right.
LEMMA DataStays ==
  ASSUME RequestInv, UNCHANGED <<kind, rows, store, manifest, recordVars>>
  PROVE  ManifestsFit' /\ RecordsInOrder' /\ Resumable' /\ ShelfStep
<1> USE DEF RequestInv
<1>1. Keys' = Keys /\ \A k : Children(k)' = Children(k)
  BY DEF Keys, Children, Parent
<1>2. UNCHANGED record /\ UNCHANGED finished
  BY DEF recordVars
<1>3. CompletedBatches' = CompletedBatches /\ LastCompleted' = LastCompleted /\ Checkpoint' = Checkpoint
  BY <1>2, RecordsStay
<1>4. ManifestsFit'
  BY <1>1 DEF ManifestsFit
<1>5. RecordsInOrder'
  BY <1>2, <1>3 DEF RecordsInOrder, BatchesInOrder
<1>6. RowCount' = RowCount
  BY DEF RowCount
<1>7. Resumable'
  BY <1>1, <1>2, <1>3, <1>6 DEF Resumable
<1>8. ShelfStep
  BY ArchivesStay DEF ShelfStep
<1> QED
  BY <1>4, <1>5, <1>7, <1>8

\* A request moves on, with a task that fits.
LEMMA RequestMoves ==
  ASSUME RequestInv, NEW op \in Archivist, stage[op] # "idle" \/ MayStart(op),
         NEW w \in Where, stage' = [stage EXCEPT ![op] = w],
         NEW t \in Task, task' = [task EXCEPT ![op] = t], Fits(w, t),
         UNCHANGED <<kind, rows, store, manifest, worldVars, recordVars>>,
         anchors' \subseteq Anchor, old' \subseteq Anchor, puts' \in 0..MaxPuts,
         evidence' \in [Key -> SUBSET {1, 2}]
  PROVE  RequestInv' /\ ShelfStep
<1> USE DEF RequestInv
<1>1. RetentionTypeOK'
  <2>1. ArchiveTypeOK'
    BY DEF RetentionTypeOK, ArchiveTypeOK
  <2>2. stage' \in [Archivist -> Where] /\ task' \in [Archivist -> Task]
    BY DEF RetentionTypeOK
  <2> QED
    BY <2>1, <2>2 DEF RetentionTypeOK, worldVars, recordVars
<1>2. stage \in [Archivist -> Where] /\ task \in [Archivist -> Task]
  BY DEF RetentionTypeOK
<1>3. /\ Serial' /\ OneRequest'
      /\ \A x \in Archivist : x # op => stage'[x] = "idle"
  BY <1>2, OthersAreIdle
<1>4. Fits(w, t)'
  BY FitsStays
<1>5. stage'[op] = w /\ task'[op] = t
  BY <1>2
<1>6. Fits(stage[op], task[op])'
  BY <1>4, <1>5
<1>7. RequestsFit'
  BY <1>3, <1>6, OneFitsAllFit
<1> QED
  BY <1>1, <1>3, <1>7, DataStays

\* The rest of the system moves on.
LEMMA WorldMoves ==
  ASSUME RequestInv, UNCHANGED <<kind, rows, store, manifest, recordVars>>,
         UNCHANGED <<anchors, evidence, puts, stage, task>>, old' \subseteq Anchor,
         newest' \in 1..MaxTriples, reading' \in 0..MaxTriples,
         referenced' \in BOOLEAN, held' \in BOOLEAN
  PROVE  RequestInv' /\ ShelfStep
<1> USE DEF RequestInv
<1>1. RetentionTypeOK'
  <2>1. ArchiveTypeOK'
    BY DEF RetentionTypeOK, ArchiveTypeOK
  <2> QED
    BY <2>1 DEF RetentionTypeOK, recordVars
<1>2. Serial' /\ OneRequest'
  BY DEF Serial, OneRequest
<1>3. \A op \in Archivist : Fits(stage[op], task[op])'
  <2> SUFFICES ASSUME NEW op \in Archivist PROVE Fits(stage[op], task[op])'
    OBVIOUS
  <2>1. Fits(stage[op], task[op])
    BY DEF RequestsFit
  <2>2. PICK w, t : w = stage[op] /\ t = task[op]
    OBVIOUS
  <2>3. Fits(w, t)
    BY <2>1, <2>2
  <2>4. Fits(w, t)'
    BY <2>3, FitsStays
  <2>5. stage'[op] = w /\ task'[op] = t
    BY <2>2
  <2> QED
    BY <2>4, <2>5
<1>4. RequestsFit'
  BY <1>3 DEF RequestsFit
<1> QED
  BY <1>1, <1>2, <1>4, DataStays

\* The request is over.
LEMMA NoTaskFits == NoTask \in Task /\ Fits("idle", NoTask)
<1>1. NoTask \in Task
  <2>1. 0 \in 0..Cardinality(Row)
    BY ArchiveAssumption, FS_CardinalityType
  <2> QED
    BY <2>1 DEF NoTask, Task
<1> QED
  BY <1>1 DEF Fits

LEMMA KeyedTask ==
  ASSUME NEW k \in Key
  PROVE  /\ [NoTask EXCEPT !.key = k] \in Task
         /\ [NoTask EXCEPT !.key = k].key = k
         /\ [NoTask EXCEPT !.key = k].passed = {}
<1>1. [NoTask EXCEPT !.key = k] = [key |-> k, object |-> None, passed |-> {},
           already |-> 0, deleted |-> 0, cursor |-> 0, batch |-> 0]
  BY DEF NoTask
<1>2. 0 \in 0..Cardinality(Row)
  BY ArchiveAssumption, FS_CardinalityType
<1> QED
  BY <1>1, <1>2 DEF Task


LEMMA WorldKeepsRequests ==
  ASSUME RequestInv, World
  PROVE  RequestInv' /\ ShelfStep
<1> USE DEF RequestInv
<1>0. /\ newest \in 1..MaxTriples /\ reading \in 0..MaxTriples
      /\ referenced \in BOOLEAN /\ held \in BOOLEAN /\ old \subseteq Anchor
      /\ MaxTriples \in Nat \ {0}
  BY RetentionAssumption DEF RetentionTypeOK, ArchiveTypeOK
<1>1. CASE CompleteTriple
  <2>1. newest' \in 1..MaxTriples
    BY <1>0, <1>1 DEF CompleteTriple
  <2> QED
    BY <1>0, <1>1, <2>1, WorldMoves DEF CompleteTriple, archiveVars, worldVars
<1>2. CASE RankingReads
  <2>1. reading' \in 0..MaxTriples
    BY <1>0, <1>2 DEF RankingReads
  <2> QED
    BY <1>0, <1>2, <2>1, WorldMoves DEF RankingReads, archiveVars, worldVars
<1>3. CASE RankingStarts
  <2>1. reading' \in 0..MaxTriples /\ referenced' \in BOOLEAN
    BY <1>0, <1>3 DEF RankingStarts
  <2> QED
    BY <1>0, <1>3, <2>1, WorldMoves DEF RankingStarts, archiveVars, worldVars
<1>4. CASE SetHold
  <2>1. held' \in BOOLEAN
    BY <1>0, <1>4 DEF SetHold
  <2> QED
    BY <1>0, <1>4, <2>1, WorldMoves DEF SetHold, archiveVars, worldVars
<1>5. CASE \E a \in Anchor : Age(a)
  <2>1. old' \subseteq Anchor
    BY <1>0, <1>5 DEF Age
  <2> QED
    BY <1>0, <1>5, <2>1, WorldMoves DEF Age, worldVars
<1>6. ASSUME NEW r \in Late, Observe(r)
      PROVE  RequestInv' /\ ShelfStep
  <2>1. /\ rows' = rows \cup {r} /\ kind = "graph" /\ Late \subseteq Row /\ r \in Late
        /\ UNCHANGED <<kind, anchors, old, store, manifest, evidence, puts, stage, task>>
        /\ UNCHANGED worldVars /\ UNCHANGED record /\ UNCHANGED finished
    BY <1>6, ArchiveAssumption DEF Observe, recordVars
  <2>2. RetentionTypeOK'
    BY <2>1 DEF RetentionTypeOK, ArchiveTypeOK, worldVars
  <2>3. \A k : Children(k)' \ Late = Children(k) \ Late
    BY <2>1 DEF Children, Parent
  <2>4. Keys' = Keys
    BY <2>1 DEF Keys
  <2>5. ManifestsFit'
    BY <2>1, <2>3, <2>4 DEF ManifestsFit
  <2>6. CompletedBatches' = CompletedBatches /\ LastCompleted' = LastCompleted /\ Checkpoint' = Checkpoint
    BY <2>1, RecordsStay
  <2>7. RecordsInOrder' /\ Resumable'
    BY <2>1, <2>6 DEF RecordsInOrder, BatchesInOrder, Resumable
  <2>8. ASSUME NEW op \in Archivist PROVE Fits(stage[op], task[op])'
    <3>1. Fits(stage[op], task[op])
      BY DEF RequestsFit
    <3>2. stage'[op] = stage[op] /\ task'[op] = task[op]
      BY <2>1
    <3>3. Holds(task[op].key, task[op].object) => Holds(task[op].key, task[op].object)'
      BY <2>1, <2>3 DEF Holds
    <3>4. Passed(1, task[op].key)' = Passed(1, task[op].key) /\ Passed(2, task[op].key)' = Passed(2, task[op].key)
      BY <2>1 DEF Passed
    <3>5. Proved(task[op].key)' = Proved(task[op].key)
      BY <2>1 DEF Proved
    <3>6. stage[op] \notin {"delete", "failed"}
      BY <2>1, <3>1 DEF Fits
    <3> QED
      BY <2>1, <2>4, <3>1, <3>2, <3>3, <3>4, <3>5, <3>6 DEF Fits
  <2>9. RequestsFit' /\ Serial' /\ OneRequest'
    BY <2>1, <2>8 DEF RequestsFit, Serial, OneRequest
  <2>10. ArchivedRows' = ArchivedRows
    BY <2>1, ArchivesStay
  <2>11. ShelfStep
    BY <2>1, <2>10 DEF ShelfStep
  <2> QED
    BY <2>2, <2>5, <2>7, <2>9, <2>11
<1> QED
  BY <1>1, <1>2, <1>3, <1>4, <1>5, <1>6 DEF World

\* The requests that only read.
LEMMA StartsKeep ==
  ASSUME RequestInv, NEW op \in Archivist, NEW k \in Keys,
         StartExport(op, k) \/ StartVerify(op, k) \/ StartReimport(op, k) \/ StartDrain(op, k),
         UNCHANGED <<worldVars, recordVars>>
  PROVE  RequestInv' /\ ShelfStep
<1>1. k \in Key /\ RetentionTypeOK
  BY KeysAndRows DEF RequestInv
<1>2. PICK t : t = [NoTask EXCEPT !.key = k]
  OBVIOUS
<1>3. t \in Task /\ t.key = k /\ t.passed = {}
  BY <1>1, <1>2, KeyedTask
<1>4. PICK w \in Where : w \in {"read", "pass1", "restore", "children"}
                         /\ Start(op, k, w) /\ MayStart(op) /\ Fits(w, t)
  <2>1. CASE StartExport(op, k)
    <3>1. Fits("read", t)
      BY <1>3, <2>1 DEF Fits, StartExport
    <3> QED
      BY <2>1, <3>1 DEF StartExport, Where
  <2>2. CASE StartVerify(op, k)
    <3>1. Fits("pass1", t)
      BY <1>3, <2>2 DEF Fits, StartVerify
    <3> QED
      BY <2>2, <3>1 DEF StartVerify, Where
  <2>3. CASE StartReimport(op, k)
    <3>1. Fits("restore", t)
      BY <1>3, <2>3 DEF Fits, StartReimport, DoubleVerified
    <3> QED
      BY <2>3, <3>1 DEF StartReimport, Where
  <2>4. CASE StartDrain(op, k)
    <3>1. Fits("children", t)
      BY <1>3, <2>4 DEF Fits, StartDrain, Gate, DoubleVerified, Proved
    <3> QED
      BY <2>4, <3>1 DEF StartDrain, Where
  <2> QED
    BY <2>1, <2>2, <2>3, <2>4
<1>5. stage' = [stage EXCEPT ![op] = w] /\ task' = [task EXCEPT ![op] = t]
  BY <1>2, <1>4 DEF Start
<1>6. UNCHANGED <<kind, rows, anchors, old, store, manifest, evidence, puts>>
  BY DEF StartExport, StartVerify, StartReimport, StartDrain, tableVars
<1>7. anchors \subseteq Anchor /\ old \subseteq Anchor /\ puts \in 0..MaxPuts /\ evidence \in [Key -> SUBSET {1, 2}]
  BY <1>1 DEF RetentionTypeOK, ArchiveTypeOK
<1> QED
  BY <1>3, <1>4, <1>5, <1>6, <1>7, RequestMoves

LEMMA ReadKeeps ==
  ASSUME RequestInv, NEW op \in Archivist, ReadRows(op), UNCHANGED <<worldVars, recordVars>>
  PROVE  RequestInv' /\ ShelfStep
<1> USE DEF RequestInv
<1>0. /\ anchors \subseteq Anchor /\ old \subseteq Anchor /\ puts \in 0..MaxPuts /\ rows \subseteq Row
      /\ evidence \in [Key -> SUBSET {1, 2}] /\ task[op] \in Task /\ task \in [Archivist -> Task]
  BY DEF RetentionTypeOK, ArchiveTypeOK
<1>1. task[op].key \in Keys /\ manifest[task[op].key] = None
  BY DEF RequestsFit, Fits, ReadRows
<1>2. PICK object : object = Contents(task[op].key)
  OBVIOUS
<1>3. object \in Content /\ object.rows = Children(task[op].key)
  <2>1. Children(task[op].key) \in SUBSET Row /\ task[op].key \cap anchors \in SUBSET Anchor
    BY <1>0 DEF Children
  <2> QED
    BY <1>0, <1>2, <2>1 DEF Contents, Content
<1>4. PICK t : t = [task[op] EXCEPT !.object = object]
  OBVIOUS
<1>5. t \in Task /\ t.key = task[op].key /\ t.object = object
  BY <1>0, <1>3, <1>4 DEF Task
<1>6. Fits("put", t)
  BY <1>1, <1>3, <1>5 DEF Fits, Holds
<1>7. stage' = [stage EXCEPT ![op] = "put"] /\ task' = [task EXCEPT ![op] = t] /\ stage[op] # "idle"
  BY <1>0, <1>2, <1>4 DEF ReadRows, Continue
<1>8. puts' \in 0..MaxPuts
  BY <1>0, ArchiveAssumption DEF ReadRows
<1>9. UNCHANGED <<kind, rows, anchors, old, store, manifest, evidence>> /\ "put" \in Where
  BY DEF ReadRows, tableVars, Where
<1> QED
  BY <1>0, <1>5, <1>6, <1>7, <1>8, <1>9, RequestMoves

LEMMA PassesKeep ==
  ASSUME RequestInv, NEW op \in Archivist, Pass1(op) \/ Pass2(op), UNCHANGED <<worldVars, recordVars>>
  PROVE  RequestInv' /\ ShelfStep
<1> USE DEF RequestInv
<1>0. /\ anchors \subseteq Anchor /\ old \subseteq Anchor /\ puts \in 0..MaxPuts
      /\ evidence \in [Key -> SUBSET {1, 2}] /\ task[op] \in Task /\ task \in [Archivist -> Task]
  BY DEF RetentionTypeOK, ArchiveTypeOK
<1>1. PICK n \in {1, 2}, from \in {"pass1", "pass2"}, w \in {"pass2", "judge"} :
        /\ stage[op] = from /\ Pass(op, n, w)
        /\ <<n, from, w>> \in {<<1, "pass1", "pass2">>, <<2, "pass2", "judge">>}
  <2>1. Pass1(op) => stage[op] = "pass1" /\ Pass(op, 1, "pass2")
    BY DEF Pass1
  <2>2. Pass2(op) => stage[op] = "pass2" /\ Pass(op, 2, "judge")
    BY DEF Pass2
  <2> QED
    BY <2>1, <2>2
<1>2. Fits(from, task[op])
  BY <1>1 DEF RequestsFit
<1>3. task[op].key \in Keys /\ manifest[task[op].key] # None
  BY <1>1, <1>2 DEF Fits
<1>4. task[op].passed = IF n = 1 THEN {} ELSE Passed(1, task[op].key)
  BY <1>1, <1>2 DEF Fits
<1>5. PICK passed : passed = IF Matches(task[op].key, manifest[task[op].key].object)
                             THEN task[op].passed \cup {n} ELSE task[op].passed
  OBVIOUS
<1>6. passed = Passed(n, task[op].key) /\ passed \in SUBSET {1, 2}
  <2>1. 1..1 = {1} /\ 1..2 = {1, 2}
    OBVIOUS
  <2> QED
    BY <1>1, <1>4, <1>5, <2>1 DEF Passed, Matches
<1>7. PICK t : t = [task[op] EXCEPT !.passed = passed]
  OBVIOUS
<1>8. t \in Task /\ t.key = task[op].key /\ t.passed = passed
  BY <1>0, <1>6, <1>7 DEF Task
<1>9. Fits(w, t)
  BY <1>1, <1>3, <1>6, <1>8 DEF Fits
<1>10. stage' = [stage EXCEPT ![op] = w] /\ stage[op] # "idle" /\ w \in Where
  BY <1>1 DEF Pass, Continue, Where
<1>11. task' = [task EXCEPT ![op] = t]
  BY <1>0, <1>1, <1>5, <1>7 DEF Pass
<1>12. evidence' \in [Key -> SUBSET {1, 2}]
  <2>1. task[op].key \in Key
    BY <1>3, KeysAndRows
  <2> QED
    BY <1>0, <1>1, <2>1 DEF Pass
<1>13. UNCHANGED <<kind, rows, anchors, old, store, manifest, puts>>
  BY <1>1 DEF Pass, tableVars
<1> QED
  BY <1>0, <1>8, <1>9, <1>10, <1>11, <1>12, <1>13, RequestMoves

LEMMA StopsKeep ==
  ASSUME RequestInv, NEW op \in Archivist,
         Stop(op) \/ DeleteThrows(op), UNCHANGED <<worldVars, recordVars>>
  PROVE  RequestInv' /\ ShelfStep
<1> USE DEF RequestInv
<1>0. /\ anchors \subseteq Anchor /\ old \subseteq Anchor /\ puts \in 0..MaxPuts
      /\ evidence \in [Key -> SUBSET {1, 2}] /\ task[op] \in Task /\ task \in [Archivist -> Task]
  BY DEF RetentionTypeOK, ArchiveTypeOK
<1>1. UNCHANGED <<kind, rows, anchors, old, store, manifest, evidence, puts>> /\ stage[op] # "idle"
  BY DEF Stop, DeleteThrows, tableVars
<1>2. CASE Stop(op)
  <2>1. stage' = [stage EXCEPT ![op] = "idle"] /\ task' = [task EXCEPT ![op] = NoTask] /\ "idle" \in Where
    BY <1>2 DEF Stop, End, Where
  <2> QED
    BY <1>0, <1>1, <2>1, NoTaskFits, RequestMoves
<1>3. CASE DeleteThrows(op)
  <2>1. stage' = [stage EXCEPT ![op] = "failed"] /\ task' = [task EXCEPT ![op] = task[op]] /\ "failed" \in Where
    BY <1>0, <1>3 DEF DeleteThrows, Continue, Where
  <2>2. Fits("failed", task[op])
    <3>1. Fits("delete", task[op])
      BY <1>3 DEF RequestsFit, DeleteThrows
    <3> QED
      BY <3>1 DEF Fits
  <2> QED
    BY <1>0, <1>1, <2>1, <2>2, RequestMoves
<1> QED
  BY <1>2, <1>3


\* The requests after a step of one of them that leaves its task fitting.
LEMMA RequestStep ==
  ASSUME RequestInv, NEW op \in Archivist, stage[op] # "idle" \/ MayStart(op),
         NEW w \in Where, stage' = [stage EXCEPT ![op] = w],
         NEW t \in Task, task' = [task EXCEPT ![op] = t], UNCHANGED kind, Fits(w, t)'
  PROVE  /\ Serial' /\ OneRequest' /\ RequestsFit'
         /\ stage' \in [Archivist -> Where] /\ task' \in [Archivist -> Task]
<1> USE DEF RequestInv
<1>1. stage \in [Archivist -> Where] /\ task \in [Archivist -> Task]
  BY DEF RetentionTypeOK
<1>2. /\ Serial' /\ OneRequest'
      /\ \A x \in Archivist : x # op => stage'[x] = "idle"
  BY <1>1, OthersAreIdle
<1>3. stage'[op] = w /\ task'[op] = t
  BY <1>1
<1>4. Fits(stage[op], task[op])'
  BY <1>3
<1> QED
  BY <1>1, <1>2, <1>4, OneFitsAllFit

LEMMA EndStep ==
  ASSUME RequestInv, NEW op \in Archivist, stage[op] # "idle", End(op), UNCHANGED kind
  PROVE  /\ Serial' /\ OneRequest' /\ RequestsFit'
         /\ stage' \in [Archivist -> Where] /\ task' \in [Archivist -> Task]
<1>1. Fits("idle", NoTask)' /\ NoTask \in Task /\ "idle" \in Where
  BY NoTaskFits DEF Fits, Where
<1>2. stage' = [stage EXCEPT ![op] = "idle"] /\ task' = [task EXCEPT ![op] = NoTask]
  BY DEF End
<1> QED
  BY <1>1, <1>2, RequestStep

\* An upload only replaces what no manifest describes.
LEMMA PutKeeps ==
  ASSUME RequestInv, NEW op \in Archivist, PutObject(op), UNCHANGED <<worldVars, recordVars>>
  PROVE  RequestInv' /\ ShelfStep
<1> USE DEF RequestInv
<1>0. /\ store \in [Key -> Content \cup {None, Bad}] /\ task[op] \in Task /\ task \in [Archivist -> Task]
      /\ stage \in [Archivist -> Where]
  BY DEF RetentionTypeOK, ArchiveTypeOK
<1>1. PICK k : k = task[op].key
  OBVIOUS
<1>2. Fits("put", task[op])
  BY DEF RequestsFit, PutObject
<1>3. k \in Keys /\ manifest[k] = None /\ Holds(k, task[op].object)
  BY <1>1, <1>2 DEF Fits
<1>4. PICK stored \in {task[op].object, Bad} : store' = [store EXCEPT ![k] = stored]
  BY <1>1 DEF PutObject
<1>5. /\ UNCHANGED <<kind, rows, anchors, old, manifest, evidence, puts, task>>
      /\ stage[op] # "idle" /\ stage' = [stage EXCEPT ![op] = "insert"] /\ "insert" \in Where
      /\ task' = [task EXCEPT ![op] = task[op]]
  BY <1>0 DEF PutObject, tableVars, Continue, Where
<1>6. \A j \in Key : j # k => store'[j] = store[j]
  BY <1>0, <1>4
<1>7. Keys \subseteq Key /\ Keys' = Keys /\ \A j : Children(j)' = Children(j)
  BY <1>5, KeysAndRows DEF Keys, Children, Parent
<1>8. Fits("insert", task[op])'
  <2>1. Holds(k, task[op].object)'
    BY <1>3, <1>5, <1>7 DEF Holds
  <2> QED
    BY <1>1, <1>3, <1>5, <1>7, <2>1 DEF Fits
<1>9. /\ Serial' /\ OneRequest' /\ RequestsFit'
      /\ stage' \in [Archivist -> Where] /\ task' \in [Archivist -> Task]
  BY <1>0, <1>5, <1>8, RequestStep
<1>10. RetentionTypeOK'
  <2>1. stored \in Content \cup {None, Bad}
    BY <1>3, <1>4 DEF Holds
  <2>2. store' \in [Key -> Content \cup {None, Bad}]
    BY <1>0, <1>4, <2>1
  <2>3. ArchiveTypeOK'
    BY <1>5, <2>2 DEF RetentionTypeOK, ArchiveTypeOK
  <2> QED
    BY <1>9, <2>3 DEF RetentionTypeOK, worldVars, recordVars
<1>11. ManifestsFit'
  <2>1. ASSUME NEW j \in Keys, manifest[j] # None
        PROVE  /\ (Children(j) \ Late \subseteq manifest[j].object.rows)'
               /\ (manifest[j].status = "verified" => store[j] = manifest[j].object)'
    BY <1>3, <1>5, <1>6, <1>7, <2>1 DEF ManifestsFit
  <2> QED
    BY <1>5, <1>7, <2>1 DEF ManifestsFit
<1>12. UNCHANGED record /\ UNCHANGED finished
  BY DEF recordVars
<1>13. CompletedBatches' = CompletedBatches /\ LastCompleted' = LastCompleted /\ Checkpoint' = Checkpoint
  BY <1>12, RecordsStay
<1>14. RecordsInOrder' /\ Resumable'
  <2>1. RowCount' = RowCount
    BY <1>5 DEF RowCount
  <2> QED
    BY <1>5, <1>7, <1>12, <1>13, <2>1 DEF RecordsInOrder, BatchesInOrder, Resumable
<1>15. ArchivedRows' = ArchivedRows
  <2>1. \A j \in Key : Restorable(j)' = Restorable(j)
    BY <1>3, <1>5, <1>6 DEF Restorable
  <2>2. {j \in Key : Restorable(j)}' = {j \in Key : Restorable(j)}
    BY <2>1
  <2> QED
    BY <1>5, <2>2 DEF ArchivedRows
<1>16. ShelfStep
  BY <1>5, <1>15 DEF ShelfStep
<1> QED
  BY <1>9, <1>10, <1>11, <1>14, <1>16

\* A manifest starts with all the rows of its key.
LEMMA InsertKeeps ==
  ASSUME RequestInv, NEW op \in Archivist, InsertManifest(op), UNCHANGED <<worldVars, recordVars>>
  PROVE  RequestInv' /\ ShelfStep
<1> USE DEF RequestInv
<1>0. manifest \in [Key -> Manifest \cup {None}]
  BY DEF RetentionTypeOK, ArchiveTypeOK
<1>1. PICK k, object : k = task[op].key /\ object = task[op].object
  OBVIOUS
<1>2. Fits("insert", task[op])
  BY DEF RequestsFit, InsertManifest
<1>3. k \in Keys /\ manifest[k] = None /\ Holds(k, object)
  BY <1>1, <1>2 DEF Fits
<1>4. PICK m : m = [object |-> object, status |-> "pending", count |-> 0, reimport |-> "pending"]
  OBVIOUS
<1>5. m \in Manifest /\ m.object = object /\ m.status = "pending"
  BY <1>3, <1>4 DEF Manifest, Holds
<1>6. manifest' = [manifest EXCEPT ![k] = m] /\ k \in Key
  BY <1>1, <1>3, <1>4, KeysAndRows DEF InsertManifest
<1>7. manifest'[k] = m /\ \A j \in Key : j # k => manifest'[j] = manifest[j]
  BY <1>0, <1>6
<1>8. UNCHANGED <<kind, rows, anchors, old, store, evidence, puts>> /\ End(op) /\ stage[op] # "idle"
  BY DEF InsertManifest, tableVars
<1>9. /\ Serial' /\ OneRequest' /\ RequestsFit'
      /\ stage' \in [Archivist -> Where] /\ task' \in [Archivist -> Task]
  BY <1>8, EndStep
<1>10. RetentionTypeOK'
  <2>1. manifest' \in [Key -> Manifest \cup {None}]
    BY <1>0, <1>5, <1>6
  <2>2. ArchiveTypeOK'
    BY <1>8, <2>1 DEF RetentionTypeOK, ArchiveTypeOK
  <2> QED
    BY <1>9, <2>2 DEF RetentionTypeOK, worldVars, recordVars
<1>11. Keys \subseteq Key /\ Keys' = Keys /\ \A j : Children(j)' = Children(j)
  BY <1>8, KeysAndRows DEF Keys, Children, Parent
<1>12. ManifestsFit'
  <2> SUFFICES ASSUME NEW j \in Keys, manifest'[j] # None
               PROVE  /\ (Children(j) \ Late \subseteq manifest[j].object.rows)'
                      /\ (manifest[j].status = "verified" => store[j] = manifest[j].object)'
    BY <1>11 DEF ManifestsFit
  <2>1. CASE j = k
    BY <1>3, <1>5, <1>7, <1>11, <2>1 DEF Holds
  <2>2. CASE j # k
    BY <1>7, <1>8, <1>11, <2>2 DEF ManifestsFit
  <2> QED
    BY <2>1, <2>2
<1>13. UNCHANGED record /\ UNCHANGED finished
  BY DEF recordVars
<1>14. CompletedBatches' = CompletedBatches /\ LastCompleted' = LastCompleted /\ Checkpoint' = Checkpoint
  BY <1>13, RecordsStay
<1>15. RecordsInOrder'
  <2>1. kind = "run" /\ manifest'[RunKey] = None => manifest[RunKey] = None
    BY <1>3, <1>7, KeysAndRows
  <2> QED
    BY <1>8, <1>13, <1>14, <2>1 DEF RecordsInOrder, BatchesInOrder
<1>16. Resumable'
  <2> SUFFICES ASSUME kind' = "run", manifest'[RunKey] # None
               PROVE  /\ (Cardinality(Children(RunKey)) + Checkpoint.deleted = RowCount)'
                      /\ (\A r \in Children(RunKey) : r > Checkpoint.cursor)'
                      /\ (finished => Children(RunKey) = {})'
    BY DEF Resumable
  <2>1. kind = "run" /\ k = RunKey /\ Children(RunKey) = rows
    BY <1>3, <1>8, KeysAndRows
  <2>2. CompletedBatches = {} /\ ~finished
    BY <1>3, <2>1 DEF RecordsInOrder, BatchesInOrder
  <2>3. Checkpoint.deleted = 0 /\ Checkpoint.cursor = 0
    BY <2>2, CheckpointFacts DEF RecordsInOrder, BatchesInOrder
  <2>4. RowCount' = Cardinality(rows)
    BY <1>3, <1>5, <1>7, <2>1 DEF RowCount, Holds
  <2>5. Cardinality(rows) \in Nat /\ \A r \in rows : r > 0
    BY KeysAndRows, FS_CardinalityType
  <2>6. (Cardinality(Children(RunKey)) + Checkpoint.deleted = RowCount)'
    BY <1>11, <1>14, <2>1, <2>3, <2>4, <2>5
  <2>7. (\A r \in Children(RunKey) : r > Checkpoint.cursor)'
    BY <1>11, <1>14, <2>1, <2>3, <2>5
  <2> QED
    BY <1>13, <2>2, <2>6, <2>7
<1>17. ArchivedRows' = ArchivedRows
  <2>1. \A j \in Key : Restorable(j)' = Restorable(j)
    BY <1>3, <1>5, <1>7, <1>8 DEF Restorable
  <2>2. ASSUME NEW r PROVE r \in ArchivedRows' <=> r \in ArchivedRows
    <3>1. r \in ArchivedRows' <=> \E j \in Key : Restorable(j)' /\ r \in manifest'[j].object.rows
      BY DEF ArchivedRows
    <3>2. r \in ArchivedRows <=> \E j \in Key : Restorable(j) /\ r \in manifest[j].object.rows
      BY DEF ArchivedRows
    <3>3. ~Restorable(k)
      BY <1>3 DEF Restorable
    <3> QED
      BY <1>7, <2>1, <3>1, <3>2, <3>3
  <2> QED
    BY <2>2
<1>18. ShelfStep
  BY <1>8, <1>17 DEF ShelfStep
<1> QED
  BY <1>9, <1>10, <1>12, <1>15, <1>16, <1>18


\* A manifest is updated: what could be restored still can.
LEMMA UpdateKeeps ==
  ASSUME RequestInv, NEW op \in Archivist, stage[op] # "idle",
         NEW k \in Keys, manifest[k] # None, NEW m \in Manifest,
         manifest' = [manifest EXCEPT ![k] = m], m.object = manifest[k].object,
         m.status = "verified" => store[k] = m.object,
         manifest[k].status = "verified" => m.status = "verified",
         End(op), UNCHANGED <<kind, rows, anchors, old, store, evidence, puts, worldVars, recordVars>>
  PROVE  RequestInv' /\ ShelfStep
<1> USE DEF RequestInv
<1>0. manifest \in [Key -> Manifest \cup {None}] /\ k \in Key /\ m # None
  BY KeysAndRows, ArchiveAssumption DEF RetentionTypeOK, ArchiveTypeOK
<1>1. manifest'[k] = m /\ \A j \in Key : j # k => manifest'[j] = manifest[j]
  BY <1>0
<1>2. /\ Serial' /\ OneRequest' /\ RequestsFit'
      /\ stage' \in [Archivist -> Where] /\ task' \in [Archivist -> Task]
  BY EndStep
<1>3. RetentionTypeOK'
  <2>1. manifest' \in [Key -> Manifest \cup {None}]
    BY <1>0
  <2>2. ArchiveTypeOK'
    BY <2>1 DEF RetentionTypeOK, ArchiveTypeOK
  <2> QED
    BY <1>2, <2>2 DEF RetentionTypeOK, worldVars, recordVars
<1>4. Keys \subseteq Key /\ Keys' = Keys /\ RunKey \in Key /\ \A j : Children(j)' = Children(j)
  BY KeysAndRows DEF Keys, Children, Parent
<1>5. \A j \in Key : /\ manifest'[j] = None <=> manifest[j] = None
                     /\ manifest[j] # None => manifest'[j].object = manifest[j].object
  BY <1>0, <1>1
<1>6. ManifestsFit'
  <2> SUFFICES ASSUME NEW j \in Keys, manifest'[j] # None
               PROVE  /\ (Children(j) \ Late \subseteq manifest[j].object.rows)'
                      /\ (manifest[j].status = "verified" => store[j] = manifest[j].object)'
    BY <1>4 DEF ManifestsFit
  <2>0. manifest[j] # None
    BY <1>4, <1>5
  <2>1. CASE j = k
    BY <1>1, <1>4, <2>0, <2>1 DEF ManifestsFit
  <2>2. CASE j # k
    BY <1>1, <1>4, <2>0, <2>2 DEF ManifestsFit
  <2> QED
    BY <2>1, <2>2
<1>7. UNCHANGED record /\ UNCHANGED finished
  BY DEF recordVars
<1>8. CompletedBatches' = CompletedBatches /\ LastCompleted' = LastCompleted /\ Checkpoint' = Checkpoint
  BY <1>7, RecordsStay
<1>9. RecordsInOrder'
  BY <1>4, <1>5, <1>7, <1>8 DEF RecordsInOrder, BatchesInOrder
<1>10. Resumable'
  <2>1. manifest[RunKey] # None => RowCount' = RowCount
    BY <1>4, <1>5 DEF RowCount
  <2>2. manifest'[RunKey] # None => manifest[RunKey] # None
    BY <1>4, <1>5
  <2> QED
    BY <1>4, <1>7, <1>8, <2>1, <2>2 DEF Resumable
<1>11. ASSUME NEW j \in Key, Restorable(j) PROVE Restorable(j)'
  <2>1. manifest'[j] # None /\ manifest'[j].object = manifest[j].object
    BY <1>5, <1>11 DEF Restorable
  <2>2. manifest'[j].status = "verified"
    BY <1>1, <1>11 DEF Restorable
  <2> QED
    BY <1>11, <2>1, <2>2 DEF Restorable
<1>12. ArchivedRows \subseteq ArchivedRows'
  <2> SUFFICES ASSUME NEW r \in ArchivedRows PROVE r \in ArchivedRows'
    OBVIOUS
  <2>1. PICK j \in Key : Restorable(j) /\ r \in manifest[j].object.rows
    BY DEF ArchivedRows
  <2>2. Restorable(j)' /\ r \in manifest'[j].object.rows
    BY <1>5, <1>11, <2>1 DEF Restorable
  <2> QED
    BY <2>2 DEF ArchivedRows
<1>13. ShelfStep
  BY <1>12 DEF ShelfStep
<1> QED
  BY <1>2, <1>3, <1>6, <1>9, <1>10, <1>13

\* The store is not written while a verification is under way, so its two passes
\* agree, and agree with those of an earlier one.
LEMMA VerificationKeeps ==
  ASSUME RequestInv, NEW op \in Archivist, SetVerification(op) \/ SetReimport(op),
         UNCHANGED <<worldVars, recordVars>>
  PROVE  RequestInv' /\ ShelfStep
<1> USE DEF RequestInv
<1>0. manifest \in [Key -> Manifest \cup {None}] /\ task[op] \in Task
  BY DEF RetentionTypeOK, ArchiveTypeOK
<1>1. PICK k, t : k = task[op].key /\ t = task[op]
  OBVIOUS
<1>2. Fits(stage[op], t) /\ stage[op] \in {"judge", "restore"}
  BY <1>1 DEF RequestsFit, SetVerification, SetReimport
<1>3. k \in Keys /\ manifest[k] # None
  BY <1>1, <1>2 DEF Fits
<1>4. k \in Key /\ manifest[k] \in Manifest
  BY <1>0, <1>3, KeysAndRows
<1>5. UNCHANGED <<kind, rows, anchors, old, store, evidence, puts, worldVars, recordVars>> /\ End(op)
  BY DEF SetVerification, SetReimport, tableVars
<1>6. manifest[k].status = "verified" => store[k] = manifest[k].object
  BY <1>3 DEF ManifestsFit
<1>7. CASE SetVerification(op)
  <2>1. t.passed = Passed(2, k)
    BY <1>1, <1>2, <1>7 DEF Fits, SetVerification
  <2>2. t.passed = {1, 2} <=> store[k] = manifest[k].object
    <3>1. 1..2 = {1, 2} /\ {1, 2} # {}
      OBVIOUS
    <3> QED
      BY <2>1, <3>1 DEF Passed
  <2>3. PICK m : m = [manifest[k] EXCEPT !.status = IF t.passed = {1, 2} THEN "verified" ELSE "failed",
                                         !.count = Cardinality(t.passed)]
    OBVIOUS
  <2>4. Cardinality(t.passed) \in 0..2
    <3>1. t.passed \in SUBSET {1, 2}
      BY <1>0, <1>1 DEF Task
    <3>2. IsFiniteSet({1, 2}) /\ Cardinality({1, 2}) = 2
      <4>1. IsFiniteSet({1}) /\ Cardinality({1}) = 1
        BY FS_Singleton
      <4>2. IsFiniteSet({1} \cup {2}) /\ Cardinality({1} \cup {2}) = 2
        BY <4>1, FS_AddElement
      <4>3. {1} \cup {2} = {1, 2}
        OBVIOUS
      <4> QED
        BY <4>2, <4>3
    <3>3. IsFiniteSet(t.passed) /\ Cardinality(t.passed) <= 2
      BY <3>1, <3>2, FS_Subset
    <3>4. Cardinality(t.passed) \in Nat
      BY <3>3, FS_CardinalityType
    <3> QED
      BY <3>3, <3>4
  <2>5. /\ m \in Manifest /\ m.object = manifest[k].object
        /\ m.status = IF t.passed = {1, 2} THEN "verified" ELSE "failed"
    BY <1>4, <2>3, <2>4 DEF Manifest
  <2>6. manifest' = [manifest EXCEPT ![k] = m]
    BY <1>0, <1>1, <1>4, <1>7, <2>3 DEF SetVerification
  <2>7. m.status = "verified" => store[k] = m.object
    BY <2>2, <2>5
  <2>8. manifest[k].status = "verified" => m.status = "verified"
    BY <1>6, <2>2, <2>5
  <2> QED
    BY <1>2, <1>3, <1>5, <2>5, <2>6, <2>7, <2>8, UpdateKeeps
<1>8. CASE SetReimport(op)
  <2>1. PICK result \in {"passed", "failed"} : manifest' = [manifest EXCEPT ![k].reimport = result]
    BY <1>1, <1>8 DEF SetReimport
  <2>2. PICK m : m = [manifest[k] EXCEPT !.reimport = result]
    OBVIOUS
  <2>3. m \in Manifest /\ m.object = manifest[k].object /\ m.status = manifest[k].status
    BY <1>4, <2>2 DEF Manifest
  <2>4. manifest' = [manifest EXCEPT ![k] = m]
    BY <2>1, <2>2
  <2>5. m.status = "verified" => store[k] = m.object
    BY <1>6, <2>3
  <2> QED
    BY <1>2, <1>3, <1>5, <2>3, <2>4, <2>5, UpdateKeeps
<1> QED
  BY <1>7, <1>8


\* The first n of a finite set of ids.
LEMMA FirstOfIds ==
  ASSUME NEW S \in SUBSET (Nat \ {0}), IsFiniteSet(S), NEW n \in Nat \ {0}
  PROVE  /\ First(S, n) \subseteq S /\ IsFiniteSet(First(S, n))
         /\ Cardinality(First(S, n)) \in 0..n
         /\ S # {} => First(S, n) # {}
         /\ \A x \in First(S, n), y \in S : y < x => y \in First(S, n)
<1>1. First(S, n) = {x \in S : Cardinality({y \in S : y < x}) < n}
  BY DEF First
<1>2. First(S, n) \subseteq S
  BY <1>1
<1>3. IsFiniteSet(First(S, n)) /\ Cardinality(First(S, n)) \in Nat
  BY <1>2, FS_Subset, FS_CardinalityType
<1>4. Cardinality(First(S, n)) <= n /\ (S # {} => First(S, n) # {})
  <2>1. S \in SUBSET Nat /\ n \in Nat /\ n > 0
    OBVIOUS
  <2> QED
    BY <1>1, <2>1, LeastFew
<1>5. ASSUME NEW x \in First(S, n), NEW y \in S, y < x PROVE y \in First(S, n)
  <2>1. x \in S /\ x \in Nat /\ y \in Nat
    BY <1>2
  <2>2. {z \in S : z < y} \subseteq {z \in S : z < x}
    <3> SUFFICES ASSUME NEW z \in S, z < y PROVE z < x
      OBVIOUS
    <3>1. z \in Nat
      OBVIOUS
    <3> QED
      BY <1>5, <2>1, <3>1
  <2>3. IsFiniteSet({z \in S : z < x})
    BY FS_Subset
  <2>4. Cardinality({z \in S : z < y}) <= Cardinality({z \in S : z < x})
    BY <2>2, <2>3, FS_Subset
  <2>5. Cardinality({z \in S : z < x}) < n
    BY <1>1
  <2>6. Cardinality({z \in S : z < y}) \in Nat /\ Cardinality({z \in S : z < x}) \in Nat
    BY <2>2, <2>3, FS_Subset, FS_CardinalityType
  <2>7. Cardinality({z \in S : z < y}) < n
    BY <2>4, <2>5, <2>6
  <2> QED
    BY <1>1, <2>7
<1> QED
  BY <1>2, <1>3, <1>4, <1>5

LEMMA GreatestOfIds ==
  ASSUME NEW S \in SUBSET (Nat \ {0}), IsFiniteSet(S), S # {}
  PROVE  Greatest(S) \in S /\ \A x \in S : x <= Greatest(S)
<1>1. \E x \in S : \A y \in S : y <= x
  BY GreatestOfFinite
<1> QED
  BY <1>1 DEF Greatest

\* A deletion starts where the records end.
LEMMA StartDeleteKeeps ==
  ASSUME RequestInv, NEW op \in Archivist, StartDelete(op)
  PROVE  RequestInv' /\ ShelfStep
<1> USE DEF RequestInv
<1>1. /\ UNCHANGED <<kind, rows, anchors, old, store, manifest, evidence, puts, worldVars, record>>
      /\ kind = "run" /\ MayStart(op) /\ Gate(RunKey) /\ finished' = FALSE
      /\ Cardinality(Children(RunKey)) + Checkpoint.deleted = RowCount
      /\ stage' = [stage EXCEPT ![op] = "delete"] /\ "delete" \in Where
  BY DEF StartDelete, tableVars, Where
<1>2. PICK t : t = [NoTask EXCEPT !.key = RunKey, !.already = Checkpoint.deleted,
                                  !.cursor = Checkpoint.cursor, !.batch = Checkpoint.batch]
  OBVIOUS
<1>3. task' = [task EXCEPT ![op] = t]
  BY <1>2 DEF StartDelete
<1>4. /\ LastCompleted \in 0..Cardinality(Row) /\ Checkpoint.batch = LastCompleted
      /\ Checkpoint.deleted \in Nat /\ Checkpoint.cursor \in Row \cup {0}
  BY CheckpointFacts DEF RecordsInOrder, BatchesInOrder
<1>5. manifest[RunKey] \in Manifest /\ manifest[RunKey] # None
  BY <1>1, KeysAndRows DEF Gate, DoubleVerified, RetentionTypeOK, ArchiveTypeOK
<1>6. Checkpoint.deleted \in 0..Cardinality(Row)
  <2>1. manifest[RunKey].object.rows \in SUBSET Row
    BY <1>5 DEF Manifest, Content
  <2>2. RowCount \in Nat /\ RowCount <= Cardinality(Row)
    BY <2>1, KeysAndRows, FS_Subset, FS_CardinalityType DEF RowCount
  <2>3. Cardinality(Children(RunKey)) \in Nat
    BY <1>1, KeysAndRows, FS_CardinalityType
  <2> QED
    BY <1>1, <1>4, <2>2, <2>3, KeysAndRows
<1>7. t = [key |-> RunKey, object |-> None, passed |-> {}, already |-> Checkpoint.deleted,
           deleted |-> 0, cursor |-> Checkpoint.cursor, batch |-> Checkpoint.batch]
  BY <1>2 DEF NoTask
<1>8. t \in Task
  <2>1. 0 \in 0..Cardinality(Row) /\ RunKey \in Key
    BY KeysAndRows
  <2> QED
    BY <1>4, <1>6, <1>7, <2>1 DEF Task
<1>9. CompletedBatches' = CompletedBatches /\ LastCompleted' = LastCompleted /\ Checkpoint' = Checkpoint
  BY <1>1, RecordsStay
<1>10. Keys = {RunKey} /\ Keys' = Keys /\ \A k : Children(k)' = Children(k)
  BY <1>1, KeysAndRows DEF Keys, Children, Parent
<1>11. Fits("delete", t)'
  <2>1. Remembered(t)'
    BY <1>4, <1>7, <1>9 DEF Remembered
  <2>2. Proved(t.key)'
    BY <1>1, <1>7 DEF Proved, Gate, DoubleVerified
  <2> QED
    BY <1>1, <1>7, <1>10, <2>1, <2>2 DEF Fits
<1>12. /\ Serial' /\ OneRequest' /\ RequestsFit'
       /\ stage' \in [Archivist -> Where] /\ task' \in [Archivist -> Task]
  BY <1>1, <1>3, <1>8, <1>11, RequestStep
<1>13. RetentionTypeOK'
  <2>1. ArchiveTypeOK'
    BY <1>1 DEF RetentionTypeOK, ArchiveTypeOK
  <2> QED
    BY <1>1, <1>12, <2>1 DEF RetentionTypeOK, worldVars
<1>14. ManifestsFit'
  BY <1>1, <1>10 DEF ManifestsFit
<1>15. RecordsInOrder'
  BY <1>1, <1>9 DEF RecordsInOrder, BatchesInOrder
<1>16. RowCount' = RowCount
  BY <1>1 DEF RowCount
<1>17. Resumable'
  BY <1>1, <1>9, <1>10, <1>16 DEF Resumable
<1>18. ShelfStep
  BY <1>1, ArchivesStay DEF ShelfStep
<1> QED
  BY <1>12, <1>13, <1>14, <1>15, <1>17, <1>18

LEMMA FinishKeeps ==
  ASSUME RequestInv, NEW op \in Archivist, FinishDelete(op)
  PROVE  RequestInv' /\ ShelfStep
<1> USE DEF RequestInv
<1>1. /\ UNCHANGED <<kind, rows, anchors, old, store, manifest, evidence, puts, worldVars, record>>
      /\ finished' = TRUE /\ Children(RunKey) = {} /\ stage[op] = "delete" /\ End(op)
  BY DEF FinishDelete, tableVars
<1>2. Fits("delete", task[op])
  BY <1>1 DEF RequestsFit
<1>3. kind = "run" /\ manifest[RunKey] # None
  BY <1>2, KeysAndRows DEF Fits, Proved
<1>4. /\ Serial' /\ OneRequest' /\ RequestsFit'
      /\ stage' \in [Archivist -> Where] /\ task' \in [Archivist -> Task]
  BY <1>1, EndStep
<1>5. RetentionTypeOK'
  <2>1. ArchiveTypeOK'
    BY <1>1 DEF RetentionTypeOK, ArchiveTypeOK
  <2> QED
    BY <1>1, <1>4, <2>1 DEF RetentionTypeOK, worldVars
<1>6. CompletedBatches' = CompletedBatches /\ LastCompleted' = LastCompleted /\ Checkpoint' = Checkpoint
  BY <1>1, RecordsStay
<1>7. Keys' = Keys /\ \A k : Children(k)' = Children(k)
  BY <1>1 DEF Keys, Children, Parent
<1>8. ManifestsFit'
  BY <1>1, <1>7 DEF ManifestsFit
<1>9. RecordsInOrder'
  BY <1>1, <1>3, <1>6 DEF RecordsInOrder, BatchesInOrder
<1>10. RowCount' = RowCount
  BY <1>1 DEF RowCount
<1>11. Resumable'
  BY <1>1, <1>6, <1>7, <1>10 DEF Resumable
<1>12. ShelfStep
  BY <1>1, ArchivesStay DEF ShelfStep
<1> QED
  BY <1>4, <1>5, <1>8, <1>9, <1>11, <1>12


\* A failure is recorded after the completed batches, and counts for nothing.
LEMMA FailureKeeps ==
  ASSUME RequestInv, NEW op \in Archivist, RecordFailure(op)
  PROVE  RequestInv' /\ ShelfStep
<1> USE DEF RequestInv
<1>0. /\ task[op] \in Task
      /\ record \in [1..NumBatches -> [status : {"none", "completed", "failed"},
                                       deleted : 0..DeletionBatch, cursor : Row \cup {0}]]
  BY DEF RetentionTypeOK
<1>1. /\ UNCHANGED <<kind, rows, anchors, old, store, manifest, evidence, puts, worldVars, finished>>
      /\ stage[op] = "failed" /\ End(op)
  BY DEF RecordFailure, tableVars
<1>2. PICK t : t = task[op]
  OBVIOUS
<1>3. Fits("failed", t)
  BY <1>1, <1>2 DEF RequestsFit
<1>4. kind = "run" /\ manifest[RunKey] # None /\ Remembered(t)
  BY <1>3, KeysAndRows DEF Fits, Proved
<1>5. /\ LastCompleted \in 0..Cardinality(Row) /\ CompletedBatches = 1..LastCompleted
      /\ t.batch = LastCompleted /\ t.cursor \in Row \cup {0}
  BY <1>4, CheckpointFacts DEF RecordsInOrder, BatchesInOrder, Remembered
<1>6. PICK n \in {t.batch + 1, t.batch + 2} :
         record' = [record EXCEPT ![n] = [status |-> "failed", deleted |-> 0, cursor |-> t.cursor]]
  BY <1>2 DEF RecordFailure
<1>7. n \in Nat /\ n > LastCompleted /\ n \in 1..NumBatches
  BY <1>5, <1>6, KeysAndRows
<1>8. PICK failure : failure = [status |-> "failed", deleted |-> 0, cursor |-> t.cursor]
  OBVIOUS
<1>9. /\ failure \in [status : {"none", "completed", "failed"}, deleted : 0..DeletionBatch, cursor : Row \cup {0}]
      /\ failure.status = "failed"
  BY <1>5, <1>8, RetentionAssumption
<1>10. /\ record' = [record EXCEPT ![n] = failure]
       /\ record'[n] = failure /\ \A m \in 1..NumBatches : m # n => record'[m] = record[m]
  BY <1>0, <1>6, <1>7, <1>8
<1>11. CompletedBatches' = CompletedBatches
  <2>1. ASSUME NEW m \in 1..NumBatches
        PROVE  record'[m].status = "completed" <=> record[m].status = "completed"
    <3>1. CASE m = n
      <4>1. m \notin CompletedBatches
        BY <1>5, <1>7, <3>1
      <4>2. record[m].status # "completed"
        BY <4>1 DEF CompletedBatches
      <4> QED
        BY <1>9, <1>10, <3>1, <4>2
    <3>2. CASE m # n
      BY <1>10, <3>2
    <3> QED
      BY <3>1, <3>2
  <2> QED
    BY <2>1 DEF CompletedBatches
<1>12. /\ Serial' /\ OneRequest' /\ RequestsFit'
       /\ stage' \in [Archivist -> Where] /\ task' \in [Archivist -> Task]
  BY <1>1, EndStep
<1>13. RetentionTypeOK'
  <2>1. ArchiveTypeOK'
    BY <1>1 DEF RetentionTypeOK, ArchiveTypeOK
  <2>2. record' \in [1..NumBatches -> [status : {"none", "completed", "failed"},
                                       deleted : 0..DeletionBatch, cursor : Row \cup {0}]]
    BY <1>0, <1>9, <1>10
  <2> QED
    BY <1>1, <1>12, <2>1, <2>2 DEF RetentionTypeOK, worldVars
<1>14. LastCompleted' = LastCompleted
  BY <1>11 DEF LastCompleted
<1>15. Checkpoint' = Checkpoint
  <2>2. SumsUp(Recorded, Values, NumBatches) /\ Values \in [1..NumBatches -> Nat]
    BY RecordedIsSum, ValuesAreNumbers
  <2>3. (SumsUp(Recorded, Values, NumBatches))'
    BY <1>13, RecordedIsSum, PTL
  <2>4. ASSUME NEW m \in 1..NumBatches PROVE Values'[m] = Values[m]
    <3>1. m \in CompletedBatches => m # n
      BY <1>5, <1>7
    <3> QED
      BY <1>10, <1>11, <3>1 DEF Values
  <2>5. Values' = Values
    BY <2>4 DEF Values
  <2>6. 1 \in 1..NumBatches /\ NumBatches \in Nat
    BY KeysAndRows
  <2>7. SumsUp(Recorded', Values', NumBatches)
    BY <2>3
  <2>8. MoreAt(Values', Values, NumBatches, 1, 0)
    BY <2>2, <2>5, <2>6 DEF MoreAt
  <2>9. Recorded'[NumBatches] = Recorded[NumBatches] + 0
    <3>1. LargerBy(Recorded', Recorded, NumBatches, 0)
      BY <2>2, <2>5, <2>6, <2>7, <2>8, SumsDiffer
    <3> QED
      BY <3>1 DEF LargerBy
  <2>10. Recorded[NumBatches] \in Nat
    BY <2>2, <2>6 DEF SumsUp
  <2>11. Recorded'[NumBatches] = Recorded[NumBatches]
    BY <2>9, <2>10
  <2>12. LastCompleted # 0 => record'[LastCompleted].cursor = record[LastCompleted].cursor
    <3>1. LastCompleted # 0 => LastCompleted \in 1..NumBatches /\ LastCompleted # n
      BY <1>5, <1>7, KeysAndRows
    <3> QED
      BY <1>10, <3>1
  <2> QED
    BY <1>14, <2>11, <2>12 DEF Checkpoint
<1>16. Keys' = Keys /\ \A k : Children(k)' = Children(k)
  BY <1>1 DEF Keys, Children, Parent
<1>17. ManifestsFit'
  BY <1>1, <1>16 DEF ManifestsFit
<1>18. RecordsInOrder'
  BY <1>1, <1>4, <1>11, <1>14, <1>15 DEF RecordsInOrder, BatchesInOrder
<1>19. RowCount' = RowCount
  BY <1>1 DEF RowCount
<1>20. Resumable'
  BY <1>1, <1>15, <1>16, <1>19 DEF Resumable
<1>21. ShelfStep
  BY <1>1, ArchivesStay DEF ShelfStep
<1> QED
  BY <1>12, <1>13, <1>17, <1>18, <1>20, <1>21

\* A graph is drained of what its archive has.
LEMMA DrainKeeps ==
  ASSUME RequestInv, NEW op \in Archivist, DrainChildren(op)
  PROVE  RequestInv' /\ ShelfStep
<1> USE DEF RequestInv
<1>0. task[op] \in Task /\ task \in [Archivist -> Task] /\ stage \in [Archivist -> Where]
  BY DEF RetentionTypeOK
<1>1. PICK batch, k : batch = NextBatch(op) /\ k = task[op].key
  OBVIOUS
<1>2. PICK full : full = (Cardinality(batch) = DeletionBatch)
  OBVIOUS
<1>3. PICK w : w = IF full THEN "children" ELSE "anchors"
  OBVIOUS
<1>4. PICK c : c = IF full THEN Greatest(batch) ELSE 0
  OBVIOUS
<1>5. PICK t : t = [task[op] EXCEPT !.cursor = c]
  OBVIOUS
<1>6. /\ rows' = rows \ batch /\ stage[op] = "children"
      /\ UNCHANGED <<kind, anchors, old, store, manifest, evidence, puts, worldVars, record, finished>>
      /\ stage' = [stage EXCEPT ![op] = w] /\ w \in Where /\ w \in {"children", "anchors"}
  BY <1>1, <1>2, <1>3 DEF DrainChildren, Continue, Where, recordVars
<1>7. task' = [task EXCEPT ![op] = t]
  BY <1>1, <1>2, <1>4, <1>5 DEF DrainChildren
<1>8. Fits("children", task[op])
  BY <1>6 DEF RequestsFit
<1>9. k \in Keys /\ manifest[k] # None /\ manifest[k].status = "verified" /\ kind = "graph"
  BY <1>1, <1>8 DEF Fits, Proved
<1>10. batch \subseteq Children(k) /\ batch \in SUBSET Row /\ (full => batch # {}) /\ IsFiniteSet(batch)
  <2>1. PICK S : S = {r \in Children(k) : r > task[op].cursor}
    OBVIOUS
  <2>2. S \subseteq Children(k) /\ S \in SUBSET (Nat \ {0}) /\ IsFiniteSet(S)
    <3>1. S \subseteq Children(k)
      BY <2>1
    <3>2. S \subseteq rows
      BY <3>1, KeysAndRows
    <3> QED
      BY <3>1, <3>2, KeysAndRows, FS_Subset
  <2>3. batch = First(S, DeletionBatch)
    BY <1>1, <2>1 DEF NextBatch
  <2>4. batch \subseteq S /\ IsFiniteSet(batch)
    BY <2>2, <2>3, FirstOfIds, RetentionAssumption
  <2>5. batch = {} => Cardinality(batch) = 0
    BY FS_EmptySet
  <2>6. full => batch # {}
    BY <1>2, <2>5, RetentionAssumption
  <2> QED
    BY <2>2, <2>4, <2>6, KeysAndRows
<1>11. c \in Row \cup {0}
  <2>1. full => Greatest(batch) \in batch
    <3>1. batch \in SUBSET (Nat \ {0})
      BY <1>10, KeysAndRows
    <3> QED
      BY <1>10, <3>1, GreatestOfIds
  <2> QED
    BY <1>4, <1>10, <2>1
<1>12. t \in Task /\ t.key = k
  BY <1>0, <1>1, <1>5, <1>11 DEF Task
<1>13. Keys' = Keys
  BY <1>6 DEF Keys
<1>14. \A j : Children(j)' \subseteq Children(j)
  BY <1>6 DEF Children, Parent
<1>15. Fits(w, t)'
  <2>1. Proved(k)'
    BY <1>6, <1>9 DEF Proved
  <2> QED
    BY <1>6, <1>9, <1>12, <1>13, <2>1 DEF Fits
<1>16. /\ Serial' /\ OneRequest' /\ RequestsFit'
       /\ stage' \in [Archivist -> Where] /\ task' \in [Archivist -> Task]
  BY <1>6, <1>7, <1>12, <1>15, RequestStep
<1>17. RetentionTypeOK'
  <2>1. ArchiveTypeOK'
    BY <1>6 DEF RetentionTypeOK, ArchiveTypeOK
  <2> QED
    BY <1>6, <1>16, <2>1 DEF RetentionTypeOK, worldVars
<1>18. ManifestsFit'
  BY <1>6, <1>13, <1>14 DEF ManifestsFit
<1>19. CompletedBatches' = CompletedBatches /\ LastCompleted' = LastCompleted /\ Checkpoint' = Checkpoint
  BY <1>6, RecordsStay
<1>20. RecordsInOrder' /\ Resumable'
  BY <1>6, <1>9, <1>19 DEF RecordsInOrder, BatchesInOrder, Resumable
<1>21. ShelfStep
  <2>1. store[k] = manifest[k].object /\ Children(k) \ Late \subseteq manifest[k].object.rows /\ k \in Key
    BY <1>9, KeysAndRows DEF ManifestsFit
  <2>2. Restorable(k)
    BY <1>9, <2>1 DEF Restorable
  <2>3. manifest[k].object.rows \subseteq ArchivedRows
    BY <2>1, <2>2 DEF ArchivedRows
  <2>4. (rows \ rows') \ Late \subseteq ArchivedRows
    BY <1>6, <1>10, <2>1, <2>3
  <2>5. ArchivedRows' = ArchivedRows
    BY <1>6, ArchivesStay
  <2> QED
    BY <1>6, <2>4, <2>5 DEF ShelfStep
<1> QED
  BY <1>16, <1>17, <1>18, <1>20, <1>21


LEMMA DrainAnchorsKeeps ==
  ASSUME RequestInv, NEW op \in Archivist, DrainAnchors(op)
  PROVE  RequestInv' /\ ShelfStep
<1> USE DEF RequestInv
<1>0. /\ task[op] \in Task /\ task \in [Archivist -> Task] /\ stage \in [Archivist -> Where]
      /\ anchors \subseteq Anchor /\ old \subseteq Anchor /\ puts \in 0..MaxPuts
      /\ evidence \in [Key -> SUBSET {1, 2}]
  BY DEF RetentionTypeOK, ArchiveTypeOK
<1>1. PICK S : S = {a \in task[op].key \cap anchors : a > task[op].cursor}
  OBVIOUS
<1>2. PICK batch : batch = First(S, DeletionBatch)
  OBVIOUS
<1>3. /\ stage[op] = "anchors" /\ anchors' = anchors \ batch
      /\ UNCHANGED <<kind, rows, old, store, manifest, evidence, puts, worldVars, recordVars>>
      /\ \/ /\ Cardinality(batch) = DeletionBatch
            /\ task' = [task EXCEPT ![op].cursor = Greatest(batch)] /\ UNCHANGED stage
         \/ End(op)
  BY <1>1, <1>2, Zenon DEF DrainAnchors
<1>4. /\ S \in SUBSET (Nat \ {0}) /\ IsFiniteSet(S) /\ S \subseteq Anchor
  <2>1. S \subseteq Anchor
    BY <1>0, <1>1
  <2> QED
    BY <2>1, ArchiveAssumption, FS_Subset
<1>5. anchors' \subseteq Anchor
  BY <1>0, <1>3
<1>6. CASE End(op)
  <2>1. stage' = [stage EXCEPT ![op] = "idle"] /\ task' = [task EXCEPT ![op] = NoTask] /\ "idle" \in Where
    BY <1>6 DEF End, Where
  <2> QED
    BY <1>0, <1>3, <1>5, <2>1, NoTaskFits, RequestMoves
<1>7. CASE /\ Cardinality(batch) = DeletionBatch
           /\ task' = [task EXCEPT ![op].cursor = Greatest(batch)] /\ UNCHANGED stage
  <2>1. batch \subseteq S /\ IsFiniteSet(batch)
    BY <1>2, <1>4, FirstOfIds, RetentionAssumption
  <2>2. batch # {}
    BY <1>7, FS_EmptySet, RetentionAssumption
  <2>3. Greatest(batch) \in Anchor
    <3>1. batch \in SUBSET (Nat \ {0})
      BY <1>4, <2>1
    <3> QED
      BY <1>4, <2>1, <2>2, <3>1, GreatestOfIds
  <2>4. PICK t : t = [task[op] EXCEPT !.cursor = Greatest(batch)]
    OBVIOUS
  <2>5. t \in Task /\ t.key = task[op].key
    BY <1>0, <2>3, <2>4 DEF Task
  <2>6. Fits("anchors", task[op])
    BY <1>3 DEF RequestsFit
  <2>7. Fits("anchors", t)
    BY <2>5, <2>6 DEF Fits
  <2>8. stage' = [stage EXCEPT ![op] = "anchors"] /\ "anchors" \in Where
    BY <1>0, <1>3, <1>7 DEF Where
  <2>9. task' = [task EXCEPT ![op] = t]
    BY <1>7, <2>4
  <2> QED
    BY <1>0, <1>3, <1>5, <2>5, <2>7, <2>8, <2>9, RequestMoves
<1> QED
  BY <1>3, <1>6, <1>7

\* A batch is deleted and recorded in one transaction.
LEMMA BatchKeeps ==
  ASSUME RequestInv, NEW op \in Archivist, DeleteBatch(op)
  PROVE  RequestInv' /\ ShelfStep
<1> USE DEF RequestInv
<1>0. /\ task[op] \in Task /\ task \in [Archivist -> Task] /\ stage \in [Archivist -> Where]
      /\ record \in [1..NumBatches -> [status : {"none", "completed", "failed"},
                                       deleted : 0..DeletionBatch, cursor : Row \cup {0}]]
  BY DEF RetentionTypeOK
<1>1. PICK t, batch : t = task[op] /\ batch = NextBatch(op)
  OBVIOUS
<1>2. PICK entry : entry = [status |-> "completed", deleted |-> Cardinality(batch), cursor |-> Greatest(batch)]
  OBVIOUS
<1>3. PICK u : u = [t EXCEPT !.batch = t.batch + 1, !.cursor = Greatest(batch),
                             !.deleted = t.deleted + Cardinality(batch)]
  OBVIOUS
<1>4. /\ stage[op] = "delete" /\ batch # {} /\ rows' = rows \ batch
      /\ Cardinality(Children(RunKey)) + t.already + t.deleted = RowCount
      /\ UNCHANGED <<kind, anchors, old, store, manifest, evidence, puts, stage, worldVars, finished>>
      /\ record' = [record EXCEPT ![t.batch + 1] = entry]
  BY <1>1, <1>2 DEF DeleteBatch
<1>5. task' = [task EXCEPT ![op] = u]
  BY <1>0, <1>1, <1>3 DEF DeleteBatch
<1>6. Fits("delete", t)
  BY <1>1, <1>4 DEF RequestsFit
<1>7. /\ kind = "run" /\ manifest[RunKey] # None /\ Proved(RunKey) /\ t.key = RunKey /\ Remembered(t)
      /\ Keys = {RunKey} /\ Children(RunKey) = rows /\ ~finished
  BY <1>6, KeysAndRows DEF Fits, Proved
<1>8. /\ LastCompleted \in 0..Cardinality(Row) /\ CompletedBatches = 1..LastCompleted
      /\ Checkpoint.deleted \in Nat /\ Checkpoint.deleted = Recorded[NumBatches]
      /\ t.batch = LastCompleted /\ t.cursor = Checkpoint.cursor
      /\ t.already + t.deleted = Checkpoint.deleted /\ LastCompleted <= Checkpoint.deleted
      /\ Checkpoint.cursor \in Row \cup {0}
  BY <1>7, CheckpointFacts DEF RecordsInOrder, BatchesInOrder, Remembered
<1>9. \A r \in rows : r > t.cursor
  BY <1>7, <1>8 DEF Resumable
<1>10. /\ rows \in SUBSET (Nat \ {0}) /\ IsFiniteSet(rows) /\ rows \in SUBSET Row
       /\ Cardinality(rows) \in Nat
  BY KeysAndRows, FS_CardinalityType
<1>11. batch = First(rows, DeletionBatch)
  <2>1. {r \in Children(task[op].key) : r > task[op].cursor} = rows
    BY <1>1, <1>7, <1>9
  <2> QED
    BY <1>1, <2>1 DEF NextBatch
<1>12. /\ batch \subseteq rows /\ IsFiniteSet(batch) /\ Cardinality(batch) \in 0..DeletionBatch
       /\ \A x \in batch, y \in rows : y < x => y \in batch
  BY <1>10, <1>11, FirstOfIds, RetentionAssumption
<1>13. Greatest(batch) \in batch /\ \A x \in batch : x <= Greatest(batch)
  <2>1. batch \in SUBSET (Nat \ {0})
    BY <1>10, <1>12
  <2> QED
    BY <1>4, <1>12, <2>1, GreatestOfIds
<1>14. Cardinality(batch) \in Nat /\ Cardinality(batch) # 0
  BY <1>4, <1>12, FS_EmptySet, FS_CardinalityType
<1>15. Cardinality(rows') = Cardinality(rows) - Cardinality(batch) /\ Cardinality(rows') \in Nat
       /\ IsFiniteSet(rows')
  <2>1. rows \cap batch = batch
    BY <1>12
  <2>2. Cardinality(rows') = Cardinality(rows) - Cardinality(rows \cap batch) /\ IsFiniteSet(rows')
    BY <1>4, <1>10, FS_Difference
  <2> QED
    BY <2>1, <2>2, FS_CardinalityType
<1>16. RowCount \in Nat /\ RowCount <= Cardinality(Row) /\ Cardinality(Row) \in Nat
  <2>1. manifest[RunKey].object.rows \in SUBSET Row
    BY <1>7, KeysAndRows DEF RetentionTypeOK, ArchiveTypeOK, Manifest, Content
  <2> QED
    BY <2>1, KeysAndRows, FS_Subset, FS_CardinalityType DEF RowCount
<1>17. /\ t.already \in Nat /\ t.deleted \in Nat
       /\ Cardinality(rows) + Checkpoint.deleted = RowCount
  <2>1. t.already \in 0..Cardinality(Row) /\ t.deleted \in 0..Cardinality(Row)
    BY <1>0, <1>1 DEF Task
  <2> QED
    BY <1>4, <1>7, <1>8, <1>10, <2>1
<1>18. PICK n : n = LastCompleted + 1
  OBVIOUS
<1>19. n \in 1..Cardinality(Row) /\ n \in 1..NumBatches /\ n \notin CompletedBatches
       /\ n <= Checkpoint.deleted + Cardinality(batch)
       /\ Checkpoint.deleted + Cardinality(batch) <= Cardinality(Row)
  <2>1. PICK L, d, c, r, all : /\ L = LastCompleted /\ d = Checkpoint.deleted /\ c = Cardinality(batch)
                               /\ r = Cardinality(rows) /\ all = Cardinality(Row)
    OBVIOUS
  <2>2. L \in Nat /\ d \in Nat /\ c \in Nat /\ r \in Nat /\ all \in Nat /\ c # 0
    BY <1>8, <1>10, <1>14, <1>16, <2>1
  <2>3. r - c >= 0
    BY <1>15, <2>1, <2>2
  <2>4. r + d <= all /\ L <= d
    BY <1>8, <1>16, <1>17, <2>1
  <2>5. n = L + 1 /\ NumBatches = all + 2 /\ CompletedBatches = 1..L
    BY <1>8, <1>18, <2>1, KeysAndRows
  <2>6. L + 1 <= d + c /\ d + c <= all
    BY <2>2, <2>3, <2>4
  <2>7. n \in 1..all /\ n \in 1..NumBatches /\ n \notin CompletedBatches
    BY <2>2, <2>5, <2>6
  <2> QED
    BY <2>1, <2>5, <2>6, <2>7
<1>20. /\ entry \in [status : {"none", "completed", "failed"}, deleted : 0..DeletionBatch, cursor : Row \cup {0}]
       /\ entry.status = "completed" /\ entry.deleted = Cardinality(batch) /\ entry.cursor = Greatest(batch)
  BY <1>2, <1>10, <1>12, <1>13
<1>21. /\ record' = [record EXCEPT ![n] = entry]
       /\ record'[n] = entry /\ \A m \in 1..NumBatches : m # n => record'[m] = record[m]
  BY <1>0, <1>4, <1>8, <1>18, <1>19
<1>22. record' \in [1..NumBatches -> [status : {"none", "completed", "failed"},
                                      deleted : 0..DeletionBatch, cursor : Row \cup {0}]]
  BY <1>0, <1>20, <1>21
<1>23. /\ u.key = RunKey /\ u.batch = n /\ u.cursor = Greatest(batch)
       /\ u.already + u.deleted = Checkpoint.deleted + Cardinality(batch) /\ u \in Task
  <2>1. t.deleted + Cardinality(batch) \in 0..Cardinality(Row)
    BY SMTT(30), <1>8, <1>14, <1>16, <1>17, <1>19
  <2>2. Greatest(batch) \in Row
    BY <1>10, <1>12, <1>13
  <2>3. t \in Task
    BY <1>0, <1>1
  <2>4. u \in Task
    <3>1. t.batch + 1 \in 0..Cardinality(Row)
      BY <1>8, <1>16, <1>18, <1>19
    <3> QED
      BY <1>3, <2>1, <2>2, <2>3, <3>1 DEF Task
  <2>5. /\ u.key = t.key /\ u.batch = t.batch + 1 /\ u.cursor = Greatest(batch)
        /\ u.already = t.already /\ u.deleted = t.deleted + Cardinality(batch)
    BY <1>3, <2>3 DEF Task
  <2> QED
    BY <1>7, <1>8, <1>14, <1>17, <1>18, <2>4, <2>5
<1>24. CompletedBatches' = 1..n
  <2>1. ASSUME NEW m \in 1..NumBatches
        PROVE  record'[m].status = "completed" <=> m \in 1..n
    <3>1. CASE m = n
      BY <1>8, <1>18, <1>20, <1>21, <3>1
    <3>2. CASE m # n
      <4>1. record'[m].status = "completed" <=> m \in CompletedBatches
        BY <1>21, <3>2 DEF CompletedBatches
      <4> QED
        BY <1>8, <1>18, <3>2, <4>1
    <3> QED
      BY <3>1, <3>2
  <2>2. 1..n \subseteq 1..NumBatches
    BY <1>19, KeysAndRows
  <2> QED
    BY <2>1, <2>2 DEF CompletedBatches
<1>25. RetentionTypeOK'
  <2>1. stage' \in [Archivist -> Where] /\ task' \in [Archivist -> Task]
    BY <1>0, <1>4, <1>5, <1>23
  <2>2. ArchiveTypeOK'
    BY <1>4 DEF RetentionTypeOK, ArchiveTypeOK
  <2> QED
    BY <1>4, <1>22, <2>1, <2>2 DEF RetentionTypeOK, worldVars
<1>26. BatchesInOrder'
  <2>1. n \in 0..Cardinality(Row)
    BY <1>19
  <2> QED
    BY <1>24, <2>1 DEF BatchesInOrder
<1>27. /\ LastCompleted' = n /\ Checkpoint'.deleted = Recorded'[NumBatches]
       /\ Checkpoint'.cursor = Greatest(batch)
  <2>1. (/\ LastCompleted \in 0..Cardinality(Row) /\ CompletedBatches = 1..LastCompleted
         /\ Checkpoint.deleted = Recorded[NumBatches]
         /\ Checkpoint.cursor = (IF LastCompleted = 0 THEN 0 ELSE record[LastCompleted].cursor))'
    BY <1>25, <1>26, CheckpointFacts, PTL
  <2>2. LastCompleted' \in Nat /\ 1..n = 1..LastCompleted' /\ n \in Nat /\ n # 0
    BY <1>16, <1>19, <1>24, <2>1
  <2>3. n \in 1..n /\ (LastCompleted' # 0 => LastCompleted' \in 1..LastCompleted')
    BY <2>2
  <2>4. LastCompleted' = n
    BY <2>2, <2>3
  <2> QED
    BY <1>20, <1>21, <2>1, <2>2, <2>4
<1>28. Checkpoint'.deleted = Checkpoint.deleted + Cardinality(batch)
  <2>1. SumsUp(Recorded, Values, NumBatches) /\ Values \in [1..NumBatches -> Nat]
    BY RecordedIsSum, ValuesAreNumbers
  <2>2. (SumsUp(Recorded, Values, NumBatches))'
    BY <1>25, RecordedIsSum, PTL
  <2>3. SumsUp(Recorded', Values', NumBatches)
    BY <2>2
  <2>4. ASSUME NEW m \in 1..NumBatches PROVE Values'[m] = IF m = n THEN Cardinality(batch) ELSE Values[m]
    <3>1. CASE m = n
      BY <1>19, <1>20, <1>21, <1>24, <3>1 DEF Values
    <3>2. CASE m # n
      <4>1. m \in CompletedBatches' <=> m \in CompletedBatches
        BY <1>8, <1>18, <1>24, <3>2
      <4> QED
        BY <1>21, <3>2, <4>1 DEF Values
    <3> QED
      BY <3>1, <3>2
  <2>5. Values' \in [1..NumBatches -> Nat]
    <3>1. Values' = [m \in 1..NumBatches |-> Values'[m]]
      BY DEF Values
    <3>2. \A m \in 1..NumBatches : Values'[m] \in Nat
      BY <1>14, <2>1, <2>4
    <3> QED
      BY <3>1, <3>2
  <2>6. Values[n] = 0
    BY <1>19 DEF Values
  <2>7. Values'[n] = Values[n] + Cardinality(batch)
    BY <1>14, <1>19, <2>4, <2>6
  <2>8. \A m \in 1..NumBatches : m # n => Values'[m] = Values[m]
    BY <2>4
  <2>9. NumBatches \in Nat
    BY KeysAndRows
  <2>10. Recorded'[NumBatches] = Recorded[NumBatches] + Cardinality(batch)
    <3>1. PICK v, w, R, Q, c, N : /\ v = Values /\ w = Values' /\ R = Recorded /\ Q = Recorded'
                                  /\ c = Cardinality(batch) /\ N = NumBatches
      OBVIOUS
    <3>2. N \in Nat /\ c \in Nat /\ n \in 1..N
      BY <1>14, <1>19, <2>9, <3>1
    <3>3. SumsUp(R, v, N) /\ SumsUp(Q, w, N) /\ v \in [1..N -> Nat] /\ w \in [1..N -> Nat]
      BY <2>1, <2>3, <2>5, <3>1
    <3>4. w[n] = v[n] + c
      BY <2>7, <3>1
    <3>5. \A m \in 1..N : m # n => w[m] = v[m]
      BY <2>8, <3>1
    <3>6. MoreAt(w, v, N, n, c)
      BY <3>2, <3>3, <3>4, <3>5 DEF MoreAt
    <3>7. LargerBy(Q, R, N, c)
      BY <3>2, <3>3, <3>6, SumsDiffer
    <3>8. Q[N] = R[N] + c
      BY <3>7 DEF LargerBy
    <3> QED
      BY <3>1, <3>8
  <2> QED
    BY <1>8, <1>27, <2>10
<1>29. Keys' = Keys /\ (\A k : Children(k)' \subseteq Children(k)) /\ Children(RunKey)' = rows'
  BY <1>4, <1>7 DEF Keys, Children, Parent, RunKey
<1>30. Fits("delete", u)'
  <2>1. Checkpoint'.batch = LastCompleted'
    BY DEF Checkpoint
  <2>2. Remembered(u)'
    BY <1>23, <1>27, <1>28 DEF Remembered
  <2>3. Proved(RunKey)'
    BY <1>4, <1>7 DEF Proved
  <2> QED
    BY <1>4, <1>7, <1>23, <1>29, <2>2, <2>3 DEF Fits
<1>31. /\ Serial' /\ OneRequest' /\ RequestsFit'
  <2>1. stage' = [stage EXCEPT ![op] = "delete"] /\ "delete" \in Where
    BY <1>0, <1>4 DEF Where
  <2> QED
    BY <1>4, <1>5, <1>23, <1>30, <2>1, RequestStep
<1>32. ManifestsFit'
  BY <1>4, <1>29 DEF ManifestsFit
<1>33. RecordsInOrder'
  BY <1>4, <1>7, <1>19, <1>26, <1>27, <1>28 DEF RecordsInOrder, BatchesInOrder
<1>34. Resumable'
  <2>1. RowCount' = RowCount
    BY <1>4 DEF RowCount
  <2>2. (Cardinality(Children(RunKey)) + Checkpoint.deleted = RowCount)'
    BY <1>8, <1>10, <1>14, <1>15, <1>16, <1>17, <1>28, <1>29, <2>1
  <2>3. ASSUME NEW r \in rows' PROVE r > Greatest(batch)
    <3>1. r \in rows /\ r \notin batch /\ r \in Nat /\ Greatest(batch) \in Nat
      BY <1>4, <1>10, <1>12, <1>13
    <3>2. ~(r < Greatest(batch)) /\ r # Greatest(batch)
      BY <1>12, <1>13, <3>1
    <3> QED
      BY <3>1, <3>2
  <2>4. (\A r \in Children(RunKey) : r > Checkpoint.cursor)'
    BY <1>27, <1>29, <2>3
  <2> QED
    BY <1>4, <1>7, <2>2, <2>4 DEF Resumable
<1>35. ShelfStep
  <2>1. /\ store[RunKey] = manifest[RunKey].object /\ RunKey \in Key
        /\ Children(RunKey) \ Late \subseteq manifest[RunKey].object.rows
    BY <1>7, KeysAndRows DEF ManifestsFit, Proved
  <2>2. Restorable(RunKey)
    BY <1>7, <2>1 DEF Restorable, Proved
  <2>3. manifest[RunKey].object.rows \subseteq ArchivedRows
    BY <2>1, <2>2 DEF ArchivedRows
  <2>4. (rows \ rows') \ Late \subseteq ArchivedRows
    BY <1>4, <1>7, <1>12, <2>1, <2>3
  <2>5. ArchivedRows' = ArchivedRows
    BY <1>4, ArchivesStay
  <2> QED
    BY <1>4, <2>4, <2>5 DEF ShelfStep
<1> QED
  BY <1>25, <1>31, <1>32, <1>33, <1>34, <1>35


-----------------------------------------------------------------------------
LEMMA InitRequests == Serial /\ RetentionInit => RetentionIInv
<1> SUFFICES ASSUME Serial, RetentionInit PROVE RetentionIInv
  OBVIOUS
<1> USE DEF RetentionInit, ArchiveInit
<1>1. RetentionTypeOK
  <2>1. ArchiveTypeOK
    BY ArchiveAssumption DEF ArchiveTypeOK
  <2>2. NoTask \in Task /\ "idle" \in Where
    BY NoTaskFits DEF Where
  <2>3. NoBatch \in [status : {"none", "completed", "failed"}, deleted : 0..DeletionBatch, cursor : Row \cup {0}]
    BY RetentionAssumption DEF NoBatch
  <2>4. newest \in 1..MaxTriples /\ reading \in 0..MaxTriples
    BY RetentionAssumption
  <2> QED
    BY <2>1, <2>2, <2>3, <2>4 DEF RetentionTypeOK
<1>2. OneRequest
  BY DEF OneRequest
<1>3. RequestsFit
  BY DEF RequestsFit, Fits
<1>4. Keys \subseteq Key
  BY <1>1, KeysAndRows
<1>5. ManifestsFit
  BY <1>4 DEF ManifestsFit
<1>6. RunKey \in Key /\ manifest[RunKey] = None
  BY <1>1, KeysAndRows
<1>7. CompletedBatches = {}
  BY DEF CompletedBatches, NoBatch
<1>8. BatchesInOrder
  <2>1. 0 \in 0..Cardinality(Row) /\ 1..0 = {}
    BY <1>1, KeysAndRows
  <2> QED
    BY <1>7, <2>1 DEF BatchesInOrder
<1>9. LastCompleted <= Checkpoint.deleted
  <2>1. LastCompleted = 0 /\ Checkpoint.deleted = 0
    BY <1>1, <1>7, <1>8, CheckpointFacts
  <2> QED
    BY <2>1
<1>10. RecordsInOrder /\ Resumable
  BY <1>6, <1>7, <1>8, <1>9 DEF RecordsInOrder, Resumable
<1>11. NothingGone
  BY DEF NothingGone, Original
<1> QED
  BY <1>1, <1>2, <1>3, <1>5, <1>10, <1>11 DEF RetentionIInv, RequestInv

LEMMA StepsKeepRequests ==
  ASSUME RequestInv, [RetentionNext]_retentionVars
  PROVE  RequestInv' /\ ShelfStep
<1>1. CASE World
  BY <1>1, WorldKeepsRequests
<1>2. ASSUME NEW op \in Archivist, Archiving(op)
      PROVE  RequestInv' /\ ShelfStep
  <2>1. UNCHANGED <<worldVars, recordVars>>
    BY <1>2 DEF Archiving
  <2>2. CASE \E k \in Keys : StartExport(op, k) \/ StartVerify(op, k) \/ StartReimport(op, k)
    BY <2>1, <2>2, StartsKeep
  <2>3. CASE ReadRows(op)
    BY <2>1, <2>3, ReadKeeps
  <2>4. CASE PutObject(op)
    BY <2>1, <2>4, PutKeeps
  <2>5. CASE InsertManifest(op)
    BY <2>1, <2>5, InsertKeeps
  <2>6. CASE Pass1(op) \/ Pass2(op)
    BY <2>1, <2>6, PassesKeep
  <2>7. CASE SetVerification(op) \/ SetReimport(op)
    BY <2>1, <2>7, VerificationKeeps
  <2>8. CASE Stop(op)
    BY <2>1, <2>8, StopsKeep
  <2> QED
    BY <1>2, <2>2, <2>3, <2>4, <2>5, <2>6, <2>7, <2>8 DEF Archiving, ArchiveStep
<1>3. ASSUME NEW op \in Archivist, Deleting(op)
      PROVE  RequestInv' /\ ShelfStep
  <2>1. CASE StartDelete(op)
    BY <2>1, StartDeleteKeeps
  <2>2. CASE DeleteBatch(op)
    BY <2>2, BatchKeeps
  <2>3. CASE DeleteThrows(op)
    <3>1. UNCHANGED <<worldVars, recordVars>>
      BY <2>3 DEF DeleteThrows
    <3> QED
      BY <2>3, <3>1, StopsKeep
  <2>4. CASE RecordFailure(op)
    BY <2>4, FailureKeeps
  <2>5. CASE FinishDelete(op)
    BY <2>5, FinishKeeps
  <2>6. CASE \E k \in Keys : StartDrain(op, k)
    <3>1. PICK k \in Keys : StartDrain(op, k)
      BY <2>6
    <3>2. UNCHANGED <<worldVars, recordVars>>
      BY <3>1 DEF StartDrain
    <3> QED
      BY <3>1, <3>2, StartsKeep
  <2>7. CASE DrainChildren(op)
    BY <2>7, DrainKeeps
  <2>8. CASE DrainAnchors(op)
    BY <2>8, DrainAnchorsKeeps
  <2> QED
    BY <1>3, <2>1, <2>2, <2>3, <2>4, <2>5, <2>6, <2>7, <2>8 DEF Deleting
<1>4. CASE UNCHANGED retentionVars
  <2>1. /\ UNCHANGED <<kind, rows, store, manifest, recordVars>>
        /\ UNCHANGED <<anchors, old, evidence, puts, stage, task>>
        /\ UNCHANGED <<newest, reading, referenced, held>>
    BY <1>4 DEF retentionVars, archiveVars, worldVars
  <2>2. /\ old \subseteq Anchor /\ newest \in 1..MaxTriples /\ reading \in 0..MaxTriples
        /\ referenced \in BOOLEAN /\ held \in BOOLEAN
    BY DEF RequestInv, RetentionTypeOK, ArchiveTypeOK
  <2> QED
    BY <2>1, <2>2, WorldMoves
<1> QED
  BY <1>1, <1>2, <1>3, <1>4 DEF RetentionNext

\* A step of the code is one of Shelf: it secures rows, or removes what is secured.
LEMMA ShelfMoves ==
  ASSUME RequestInv, RequestInv', NothingGone, ShelfStep
  PROVE  NothingGone' /\ (Archived!Secure \/ Archived!Remove)
<1>1. rows \subseteq Row /\ Late \subseteq Row /\ Original = Row \ Late
  BY ArchiveAssumption DEF RequestInv, RetentionTypeOK, ArchiveTypeOK, Original
<1>2. ArchivedRows' \subseteq Row
  <2>1. \A k \in Key : Restorable(k)' => manifest'[k] \in Manifest
    BY DEF Restorable, RequestInv, RetentionTypeOK, ArchiveTypeOK
  <2>2. ASSUME NEW r \in ArchivedRows' PROVE r \in Row
    <3>1. PICK k \in Key : Restorable(k)' /\ r \in manifest'[k].object.rows
      BY DEF ArchivedRows
    <3>2. manifest'[k].object.rows \in SUBSET Row
      BY <2>1, <3>1 DEF Manifest, Content
    <3> QED
      BY <3>1, <3>2
  <2> QED
    BY <2>2
<1>3. CASE rows' \ Late = rows \ Late /\ ArchivedRows \subseteq ArchivedRows'
  <2>1. NothingGone'
    BY <1>1, <1>3 DEF NothingGone
  <2>2. ArchivedRows' \ Late \in SUBSET Original
    BY <1>1, <1>2
  <2>3. Original \ (rows \ Late) \subseteq ArchivedRows' \ Late
    BY <1>1, <1>3 DEF NothingGone
  <2>4. Archived!Secure
    BY <1>3, <2>2, <2>3 DEF Archived!Secure
  <2> QED
    BY <2>1, <2>4
<1>4. CASE rows' \subseteq rows /\ (rows \ rows') \ Late \subseteq ArchivedRows /\ ArchivedRows' = ArchivedRows
  <2>1. NothingGone'
    BY <1>1, <1>4 DEF NothingGone
  <2>2. rows' \ Late \in SUBSET (rows \ Late)
    BY <1>4
  <2>3. (rows \ Late) \ (rows' \ Late) \subseteq ArchivedRows \ Late
    BY <1>4
  <2>4. Archived!Remove
    BY <1>4, <2>2, <2>3 DEF Archived!Remove
  <2> QED
    BY <2>1, <2>4
<1> QED
  BY <1>3, <1>4 DEF ShelfStep

\* Requests find store, manifests and records as they have read them.
THEOREM RequestsAreInOrder == Serial /\ RetentionSpec => []RetentionIInv
<1>1. RetentionIInv /\ [RetentionNext]_retentionVars => RetentionIInv'
  BY StepsKeepRequests, ShelfMoves DEF RetentionIInv
<1> QED
  BY <1>1, InitRequests, PTL DEF RetentionSpec

\* A deletion that was interrupted anywhere can be resumed: what the records say is
\* deleted and what is left add up to the manifest (lastCompletedDeletionCheckpoint).
THEOREM DeletionsCanResume == Serial /\ RetentionSpec => []RetentionInv
<1>1. RetentionIInv => RetentionInv
  BY DEF RetentionIInv, RequestInv, RetentionInv
<1> QED
  BY <1>1, RequestsAreInOrder, PTL

\* Every row that was there is in the database or in a verified archive: Archive and
\* Retention implement Shelf.
THEOREM NoRowIsLost == Serial /\ RetentionSpec => NothingIsLost
<1>1. RetentionInit => Archived!Init
  <2> SUFFICES ASSUME RetentionInit PROVE Archived!Init
    OBVIOUS
  <2>1. ArchivedRows = {}
    BY DEF RetentionInit, ArchiveInit, ArchivedRows, Restorable
  <2>2. rows = Original
    BY DEF RetentionInit, ArchiveInit, Original
  <2> QED
    BY <2>1, <2>2 DEF Archived!Init, Original
<1>2. RetentionIInv /\ [RetentionNext]_retentionVars => Archived!Secure \/ Archived!Remove
  BY StepsKeepRequests, ShelfMoves DEF RetentionIInv
<1> QED
  BY <1>1, <1>2, RequestsAreInOrder, PTL DEF RetentionSpec, NothingIsLost, Archived!Spec

-----------------------------------------------------------------------------
(***************************************************************************)
(* The catalog sync.  A request knows the roster it compares with: the      *)
(* accepted list, or the payload of the last request that got that far.     *)
(***************************************************************************)
\* The kits a payload can list.
Kits == {p[b].kit : p \in Payloads, b \in SourceBrawler} \cup {{}}

\* The tables a sync reads and writes, with the types of their rows.
TablesOK ==
    /\ canonical \in [SourceBrawler -> [slug : Slug \cup {Nothing}, name : Name \cup {Nothing},
                                        active : BOOLEAN, kit : Kits]]
    /\ aliases \in [SourceBrawler -> SUBSET Name]
    /\ patches \in [labels : SUBSET (0..MaxSecond), active : (0..MaxSecond) \cup {NoPatch}]
    /\ patches.active \in patches.labels \cup {NoPatch}
    /\ roster \in Payloads \cup {Empty}

SyncsOK ==
    /\ second \in 0..MaxSecond
    /\ syncLock \in Syncer \cup {Nothing, "dead"}
    /\ sync \in [Syncer -> [at : {"idle", "lock", "fetch", "apply", "record", "end", "release"},
                            payload : Payloads \cup {Empty}, since : 0..MaxSecond]]

\* A brawler is known when it was accepted once; the known brawlers have a row.
KnownHaveRows ==
    /\ \A b \in SourceBrawler : b \in DOMAIN accepted <=> canonical[b].slug # Nothing
    /\ DOMAIN accepted \subseteq SourceBrawler
    /\ \A b \in SourceBrawler : canonical[b].slug = Nothing => named[b] = {} /\ ~canonical[b].active
    /\ \A b \in SourceBrawler : canonical[b].slug # Nothing => canonical[b].name # Nothing

\* A sync that fetches or applies owns the lock; what was inferred before is older
\* than it, so that its own patch has a new label.
PatchesAreOlder ==
    /\ patches.labels \subseteq 0..second
    /\ \A x \in Syncer : sync[x].at \notin {"idle", "lock"} => syncLock = x
    /\ \A x \in Syncer : sync[x].at \in {"fetch", "apply"} => patches.labels \subseteq 0..sync[x].since

CatalogIInv ==
    /\ TablesOK /\ SyncsOK /\ KnownHaveRows /\ PatchesAreOlder
    /\ RosterFollowsSource /\ NamesRemembered /\ OnePatchActive /\ HalfStaysActive

-----------------------------------------------------------------------------
LEMMA InitCatalog == CatalogInit => CatalogIInv
<1> SUFFICES ASSUME CatalogInit PROVE CatalogIInv
  OBVIOUS
<1> USE DEF CatalogInit
<1>1. TablesOK
  BY DEF TablesOK, Unseen, Kits, NoPatch
<1>2. SyncsOK
  BY CatalogAssumption DEF SyncsOK, Resting
<1>3. KnownHaveRows
  BY DEF KnownHaveRows, Unseen, Empty
<1>4. PatchesAreOlder
  BY DEF PatchesAreOlder, Resting
<1>5. Active = {}
  BY DEF Active, Unseen
<1>6. RosterFollowsSource
  BY <1>5 DEF RosterFollowsSource, Listed, Empty
<1>7. NamesRemembered /\ OnePatchActive
  BY DEF NamesRemembered, OnePatchActive
<1>8. HalfStaysActive
  <2>1. {b \in SourceBrawler : canonical[b].slug # Nothing} = {}
    BY DEF Unseen
  <2> QED
    BY <1>5, <2>1, FS_EmptySet DEF HalfStaysActive
<1> QED
  BY <1>1, <1>2, <1>3, <1>4, <1>6, <1>7, <1>8 DEF CatalogIInv

\* A request goes on, and the others stay where they are.
LEMMA GoesOn ==
  ASSUME SyncsOK, NEW x \in Syncer,
         NEW at \in {"idle", "lock", "fetch", "apply", "record", "end", "release"}, Goes(x, at)
  PROVE  /\ sync' \in [Syncer -> [at : {"idle", "lock", "fetch", "apply", "record", "end", "release"},
                                  payload : Payloads \cup {Empty}, since : 0..MaxSecond]]
         /\ sync'[x].at = at /\ \A y \in Syncer \ {x} : sync'[y] = sync[y]
<1>1. [Resting EXCEPT !.at = at] = [at |-> at, payload |-> Empty, since |-> 0]
  BY DEF Resting
<1>2. 0 \in 0..MaxSecond
  BY CatalogAssumption
<1>3. sync' = [sync EXCEPT ![x] = [at |-> at, payload |-> Empty, since |-> 0]]
  BY <1>1 DEF Goes
<1> QED
  BY <1>2, <1>3 DEF SyncsOK

\* Steps that touch no table of the catalog.
CatalogQuiet == UNCHANGED <<catalogTables, roster, named>>

LEMMA QuietKeepsCatalog ==
  ASSUME CatalogIInv, CatalogQuiet, SyncsOK', PatchesAreOlder'
  PROVE  CatalogIInv'
<1> USE DEF CatalogIInv, CatalogQuiet, catalogTables
<1>1. TablesOK' /\ KnownHaveRows'
  BY DEF TablesOK, KnownHaveRows
<1>2. RosterFollowsSource' /\ HalfStaysActive'
  BY DEF RosterFollowsSource, HalfStaysActive, Active
<1>3. NamesRemembered' /\ OnePatchActive'
  BY DEF NamesRemembered, OnePatchActive
<1> QED
  BY <1>1, <1>2, <1>3

\* Everything but the transaction that applies a payload: the lock changes hands
\* only when its owner gives it back or is dead.
LEMMA LockKeepsCatalog ==
  ASSUME CatalogIInv,
         \/ SyncLockExpires \/ Ticks \/ UNCHANGED catalogVars
         \/ \E x \in Syncer :
              \/ StartSync(x) \/ AcquireSyncLock(x) \/ FetchBrawlers(x)
              \/ HoldPayload(x) \/ RecordFetch(x) \/ RecordRun(x)
              \/ FailSync(x) \/ ReleaseSyncLock(x) \/ SyncerDies(x)
  PROVE  CatalogIInv'
<1> USE DEF CatalogIInv
<1>1. CASE SyncLockExpires
  <2>1. CatalogQuiet /\ SyncsOK'
    BY <1>1 DEF SyncLockExpires, CatalogQuiet, SyncsOK
  <2>2. PatchesAreOlder'
    BY <1>1, CatalogAssumption DEF SyncLockExpires, PatchesAreOlder, catalogTables
  <2> QED
    BY <2>1, <2>2, QuietKeepsCatalog
<1>2. CASE Ticks
  <2>1. CatalogQuiet /\ SyncsOK'
    BY <1>2, CatalogAssumption DEF Ticks, CatalogQuiet, SyncsOK
  <2>2. PatchesAreOlder'
    BY <1>2, CatalogAssumption DEF Ticks, PatchesAreOlder, catalogTables, SyncsOK
  <2> QED
    BY <2>1, <2>2, QuietKeepsCatalog
<1>3. CASE UNCHANGED catalogVars
  <2>1. CatalogQuiet /\ SyncsOK' /\ PatchesAreOlder'
    BY <1>3 DEF catalogVars, CatalogQuiet, SyncsOK, PatchesAreOlder, catalogTables
  <2> QED
    BY <2>1, QuietKeepsCatalog
<1>4. ASSUME NEW x \in Syncer,
             \/ StartSync(x) \/ HoldPayload(x)
             \/ RecordFetch(x) \/ RecordRun(x) \/ FailSync(x)
      PROVE  CatalogIInv'
  <2>1. CatalogQuiet /\ UNCHANGED <<second, syncLock>>
    BY <1>4 DEF StartSync, HoldPayload, RecordFetch, RecordRun, FailSync, CatalogQuiet
  <2>2. PICK at \in {"lock", "record", "end", "release"} :
          Goes(x, at) /\ (at = "lock" \/ sync[x].at \notin {"idle", "lock"})
    BY <1>4 DEF StartSync, HoldPayload, RecordFetch, RecordRun, FailSync
  <2>3. SyncsOK' /\ sync'[x].at = at /\ \A y \in Syncer \ {x} : sync'[y] = sync[y]
    BY <2>1, <2>2, GoesOn DEF SyncsOK
  <2>4. PatchesAreOlder'
    BY <2>1, <2>2, <2>3 DEF PatchesAreOlder, CatalogQuiet, catalogTables
  <2> QED
    BY <2>1, <2>3, <2>4, QuietKeepsCatalog
<1>7. ASSUME NEW x \in Syncer, FetchBrawlers(x)
      PROVE  CatalogIInv'
  <2>1. CatalogQuiet /\ UNCHANGED <<second, syncLock>>
    BY <1>7 DEF FetchBrawlers, CatalogQuiet
  <2>2. PICK p \in Payloads : sync' = [sync EXCEPT ![x] = [@ EXCEPT !.at = "apply", !.payload = p]]
    BY <1>7 DEF FetchBrawlers
  <2>3. SyncsOK' /\ sync'[x].at = "apply" /\ sync'[x].since = sync[x].since
        /\ \A y \in Syncer \ {x} : sync'[y] = sync[y]
    BY <2>1, <2>2 DEF SyncsOK
  <2>4. sync[x].at = "fetch"
    BY <1>7 DEF FetchBrawlers
  <2>5. PatchesAreOlder'
    BY <2>1, <2>3, <2>4 DEF PatchesAreOlder, CatalogQuiet, catalogTables
  <2> QED
    BY <2>1, <2>3, <2>5, QuietKeepsCatalog
<1>5. ASSUME NEW x \in Syncer, AcquireSyncLock(x)
      PROVE  CatalogIInv'
  <2>1. CatalogQuiet /\ UNCHANGED second
    BY <1>5 DEF AcquireSyncLock, CatalogQuiet
  <2>2. CASE SyncLockFree
    <3>1. syncLock' = x /\ sync' = [sync EXCEPT ![x] = [@ EXCEPT !.at = "fetch", !.since = second]]
      BY <1>5, <2>2 DEF AcquireSyncLock
    <3>2. SyncsOK' /\ sync'[x].since = second /\ \A y \in Syncer \ {x} : sync'[y] = sync[y]
      BY <2>1, <3>1 DEF SyncsOK
    <3>3. \A y \in Syncer \ {x} : sync'[y].at \in {"idle", "lock"}
      BY <2>2, <3>2, CatalogAssumption DEF PatchesAreOlder, SyncLockFree
    <3>4. PatchesAreOlder'
      BY <2>1, <3>1, <3>2, <3>3 DEF PatchesAreOlder, CatalogQuiet, catalogTables
    <3> QED
      BY <2>1, <3>2, <3>4, QuietKeepsCatalog
  <2>3. CASE ~SyncLockFree
    <3>1. Goes(x, "idle") /\ syncLock' = syncLock
      BY <1>5, <2>3 DEF AcquireSyncLock
    <3>2. SyncsOK' /\ sync'[x].at = "idle" /\ \A y \in Syncer \ {x} : sync'[y] = sync[y]
      BY <2>1, <3>1, GoesOn DEF SyncsOK
    <3>3. PatchesAreOlder'
      BY <2>1, <3>1, <3>2 DEF PatchesAreOlder, CatalogQuiet, catalogTables
    <3> QED
      BY <2>1, <3>2, <3>3, QuietKeepsCatalog
  <2> QED
    BY <2>2, <2>3
<1>6. ASSUME NEW x \in Syncer, ReleaseSyncLock(x) \/ SyncerDies(x)
      PROVE  CatalogIInv'
  <2>1. CatalogQuiet /\ UNCHANGED second /\ Goes(x, "idle")
    BY <1>6 DEF ReleaseSyncLock, SyncerDies, CatalogQuiet
  <2>2. syncLock' \in {Nothing, "dead", syncLock}
    BY <1>6 DEF ReleaseSyncLock, SyncerDies
  <2>3. SyncsOK' /\ sync'[x].at = "idle" /\ \A y \in Syncer \ {x} : sync'[y] = sync[y]
    BY <2>1, <2>2, GoesOn DEF SyncsOK
  <2>4. \A y \in Syncer \ {x} : syncLock = y => syncLock' = syncLock
    BY <1>6 DEF ReleaseSyncLock, SyncerDies
  <2>5. PatchesAreOlder'
    BY <2>1, <2>3, <2>4 DEF PatchesAreOlder, CatalogQuiet, catalogTables
  <2> QED
    BY <2>1, <2>3, <2>5, QuietKeepsCatalog
<1> QED
  BY <1>1, <1>2, <1>3, <1>4, <1>5, <1>6, <1>7

-----------------------------------------------------------------------------
\* When at most half of the known brawlers are missing from a list, the listed
\* ones are at least half of those that are known with it.
LEMMA HalfIsListed ==
  ASSUME NEW known, NEW listed, IsFiniteSet(known), IsFiniteSet(listed),
         known = {} \/ 2 * Cardinality(known \ listed) <= Cardinality(known)
  PROVE  2 * Cardinality(listed) >= Cardinality(known \cup listed)
<1>1. /\ IsFiniteSet(known \ listed) /\ IsFiniteSet(known \cap listed)
      /\ Cardinality(known \ listed) = Cardinality(known) - Cardinality(known \cap listed)
  BY FS_Difference, FS_Intersection
<1>2. Cardinality(known \cup listed)
        = Cardinality(known) + Cardinality(listed) - Cardinality(known \cap listed)
  BY FS_Union
<1>3. Cardinality(known \cap listed) <= Cardinality(listed)
  BY FS_Subset
<1>4. /\ Cardinality(known) \in Nat /\ Cardinality(listed) \in Nat
      /\ Cardinality(known \cap listed) \in Nat
  BY <1>1, FS_CardinalityType
<1>5. CASE known = {}
  <2>1. Cardinality(known) = 0
    BY <1>5, FS_EmptySet
  <2> QED
    BY <1>1, <1>2, <1>3, <1>4, <2>1
<1>6. CASE 2 * Cardinality(known \ listed) <= Cardinality(known)
  BY <1>1, <1>2, <1>3, <1>4, <1>6
<1> QED
  BY <1>5, <1>6

LEMMA ApplyKeepsCatalog ==
  ASSUME CatalogIInv, NEW x \in Syncer, ApplyPayload(x)
  PROVE  CatalogIInv'
<1> USE DEF CatalogIInv
<1>0. PICK p : p = sync[x].payload
  OBVIOUS
<1>1. /\ p \in Payloads \cup {Empty}
      /\ Listed(p) \subseteq SourceBrawler
      /\ \A b \in Listed(p) : p[b].name \in Name /\ SlugOf[p[b].name] \in Slug /\ p[b].kit \in Kits
  <2>1. p \in Payloads \cup {Empty}
    BY <1>0 DEF SyncsOK
  <2>2. CASE p = Empty
    BY <2>2 DEF Listed, Empty
  <2>3. CASE p \in Payloads
    <3>1. Listed(p) \subseteq SourceBrawler /\ \A b \in Listed(p) : p[b].name \in Name
      BY <2>3, CatalogAssumption DEF Listed
    <3> QED
      BY <2>1, <2>3, <3>1 DEF Kits, Slug
  <2> QED
    BY <2>1, <2>2, <2>3
<1>2. /\ sync[x].at = "apply" /\ second > sync[x].since
      /\ ~VolumeAnomaly(p)
      /\ DOMAIN accepted' = DOMAIN accepted \cup Listed(p)
      /\ canonical' = [b \in SourceBrawler |-> Upserted(p, b)]
      /\ aliases' = [b \in SourceBrawler |->
                       IF b \in Renamed(p) THEN aliases[b] \cup AliasOf(p, b) ELSE aliases[b]]
      /\ patches' = IF Changed(p) = {} THEN patches ELSE WithPatch
      /\ roster' = p
      /\ named' = [b \in SourceBrawler |->
                     IF b \in Listed(p) THEN named[b] \cup {p[b].name} ELSE named[b]]
      /\ sync' = [sync EXCEPT ![x] = [Resting EXCEPT !.at = "record"]]
      /\ UNCHANGED <<second, syncLock>>
  BY <1>0 DEF ApplyPayload, Goes
<1> HIDE DEF CatalogIInv
<1>3. Inserted(p) = Listed(p) \ DOMAIN accepted
  BY <1>1 DEF CatalogIInv, Inserted, KnownHaveRows
\* What becomes of a brawler: inserted, updated, gone, or never heard of.
<1>4. ASSUME NEW b \in SourceBrawler
      PROVE  /\ b \in Listed(p) =>
                  /\ canonical'[b].active /\ canonical'[b].name = p[b].name
                  /\ canonical'[b].kit = p[b].kit /\ canonical'[b].slug # Nothing
             /\ b \notin Listed(p) =>
                  /\ ~canonical'[b].active /\ canonical'[b].name = canonical[b].name
                  /\ canonical'[b].slug = canonical[b].slug
             /\ canonical'[b] \in [slug : Slug \cup {Nothing}, name : Name \cup {Nothing},
                                   active : BOOLEAN, kit : Kits]
  <2>1. canonical'[b] = Upserted(p, b)
    BY <1>2
  <2>2. canonical[b] \in [slug : Slug \cup {Nothing}, name : Name \cup {Nothing},
                          active : BOOLEAN, kit : Kits]
    BY DEF CatalogIInv, TablesOK
  <2>3. CASE b \in Inserted(p)
    <3>2. b \in Listed(p) /\ b \notin Listed(p) \ Inserted(p) /\ b \notin Removed(p)
      BY <2>3 DEF Inserted, Removed
    <3>1. canonical'[b] = [slug |-> SlugOf[p[b].name], name |-> p[b].name, active |-> TRUE,
                           kit |-> p[b].kit]
      BY <2>1, <2>3, <3>2, Zenon DEF Upserted
    <3> QED
      BY <1>1, <3>1, <3>2, CatalogAssumption
  <2>4. CASE b \in Listed(p) \ Inserted(p)
    <3>0. b \notin Inserted(p) /\ b \notin Removed(p)
      BY <2>4 DEF Removed
    <3>1. canonical'[b] = Updated(canonical[b], p[b])
      BY <2>1, <2>4, <3>0, Zenon DEF Upserted
    <3>2. canonical[b].slug # Nothing
      BY <2>4 DEF Inserted
    <3> QED
      BY <1>1, <2>2, <2>4, <3>1, <3>2 DEF Updated
  <2>5. CASE b \in Removed(p)
    <3>1. canonical'[b] = [canonical[b] EXCEPT !.active = FALSE] /\ b \notin Listed(p)
      BY <2>1, <2>5 DEF Upserted, Removed, Inserted
    <3> QED
      BY <2>2, <3>1
  <2>6. CASE b \notin Listed(p) /\ b \notin DOMAIN accepted
    <3>1. canonical'[b] = canonical[b]
      BY <2>1, <2>6 DEF Upserted, Removed, Inserted
    <3>2. ~canonical[b].active
      BY <2>6 DEF CatalogIInv, KnownHaveRows
    <3> QED
      BY <2>2, <2>6, <3>1, <3>2
  <2> QED
    BY <2>3, <2>4, <2>5, <2>6 DEF Removed
<1>5. PICK known : known = DOMAIN accepted
  OBVIOUS
<1>6. KnownHaveRows'
  <2>1. DOMAIN accepted' \subseteq SourceBrawler
    BY <1>1, <1>2 DEF CatalogIInv, KnownHaveRows
  <2>2. \A b \in SourceBrawler : b \in DOMAIN accepted' <=> canonical'[b].slug # Nothing
    BY <1>2, <1>4 DEF CatalogIInv, KnownHaveRows
  <2>3. \A b \in SourceBrawler : canonical'[b].slug = Nothing => named'[b] = {} /\ ~canonical'[b].active
    BY <1>2, <1>4 DEF CatalogIInv, KnownHaveRows
  <2>4. \A b \in SourceBrawler : canonical'[b].slug # Nothing => canonical'[b].name # Nothing
    BY <1>1, <1>4, CatalogAssumption DEF CatalogIInv, KnownHaveRows
  <2> QED
    BY <2>1, <2>2, <2>3, <2>4 DEF KnownHaveRows
<1>7. Active' = Listed(p)
  BY <1>1, <1>4 DEF Active
<1>8. RosterFollowsSource'
  <2>1. roster' = p
    BY <1>2
  <2> QED
    BY <1>1, <1>4, <1>7, <2>1 DEF RosterFollowsSource, Listed
<1>9. HalfStaysActive'
  <2>1. IsFiniteSet(known) /\ IsFiniteSet(Listed(p))
    BY <1>1, <1>5, CatalogAssumption, FS_Subset DEF CatalogIInv, KnownHaveRows
  <2>2. known = {} \/ 2 * Cardinality(known \ Listed(p)) <= Cardinality(known)
    <3>1. IsFiniteSet(known \ Listed(p))
      BY <2>1, FS_Difference
    <3>2. Cardinality(known) \in Nat /\ Cardinality(known \ Listed(p)) \in Nat
      BY <2>1, <3>1, FS_CardinalityType
    <3>3. known = {} \/ ~(2 * Cardinality(known \ Listed(p)) > Cardinality(known))
      BY <1>2, <1>5, Zenon DEF VolumeAnomaly
    <3> QED
      BY <3>2, <3>3
  <2>3. 2 * Cardinality(Listed(p)) >= Cardinality(known \cup Listed(p))
    BY <2>1, <2>2, HalfIsListed
  <2>4. {b \in SourceBrawler : canonical'[b].slug # Nothing} = known \cup Listed(p)
    BY <1>2, <1>5, <1>6 DEF KnownHaveRows
  <2> QED
    BY <1>7, <2>3, <2>4 DEF HalfStaysActive
<1>10. NamesRemembered'
  <2> SUFFICES ASSUME NEW b \in SourceBrawler
               PROVE  named'[b] \subseteq aliases'[b] \cup {canonical'[b].name}
    BY DEF NamesRemembered
  <2>1. named[b] \subseteq aliases[b] \cup {canonical[b].name}
    BY DEF CatalogIInv, NamesRemembered
  <2>2. aliases'[b] = IF b \in Renamed(p) THEN aliases[b] \cup {canonical[b].name} ELSE aliases[b]
    BY <1>2 DEF AliasOf
  <2>3. CASE b \notin Listed(p)
    BY <1>2, <1>4, <2>1, <2>2, <2>3 DEF Renamed
  <2>4. CASE b \in Inserted(p)
    <3>1. named[b] = {} /\ b \in Listed(p)
      BY <2>4 DEF CatalogIInv, KnownHaveRows, Inserted
    <3> QED
      BY <1>2, <1>4, <3>1
  <2>5. CASE b \in Listed(p) \ Inserted(p)
    <3>1. named'[b] = named[b] \cup {p[b].name} /\ canonical'[b].name = p[b].name
      BY <1>2, <1>4, <2>5
    <3>2. b \notin Renamed(p) => canonical[b].name = p[b].name
      BY <2>5 DEF Renamed
    <3> QED
      BY <2>1, <2>2, <3>1, <3>2
  <2> QED
    BY <2>3, <2>4, <2>5
\* The label is new: what was inferred before is at most as old as the sync.
<1>11. patches' = patches \/ patches' = [labels |-> patches.labels \cup {second}, active |-> second]
  <2>1. second \notin patches.labels
    BY <1>2 DEF CatalogIInv, PatchesAreOlder, SyncsOK
  <2> QED
    BY <1>2, <2>1 DEF WithPatch
<1>12. OnePatchActive' /\ patches' \in [labels : SUBSET (0..MaxSecond), active : (0..MaxSecond) \cup {NoPatch}]
       /\ patches'.active \in patches'.labels \cup {NoPatch} /\ patches'.labels \subseteq 0..second
  <2>1. second \in Nat /\ second # NoPatch
    BY DEF CatalogIInv, SyncsOK, NoPatch
  <2> QED
    BY <1>11, <2>1 DEF CatalogIInv, TablesOK, SyncsOK, PatchesAreOlder, OnePatchActive
<1>13. TablesOK'
  <2>1. \A b \in SourceBrawler : aliases'[b] \in SUBSET Name
    <3> SUFFICES ASSUME NEW b \in SourceBrawler PROVE aliases'[b] \in SUBSET Name
      OBVIOUS
    <3>1. aliases[b] \in SUBSET Name /\ canonical[b].name \in Name \cup {Nothing}
      BY DEF CatalogIInv, TablesOK
    <3>2. b \in Renamed(p) => canonical[b].name # Nothing
      BY DEF CatalogIInv, KnownHaveRows, Renamed, Inserted
    <3> QED
      BY <1>2, <3>1, <3>2 DEF AliasOf
  <2> QED
    BY <1>1, <1>2, <1>4, <1>12, <2>1 DEF TablesOK
<1>14. SyncsOK'
  BY <1>2, CatalogAssumption DEF CatalogIInv, SyncsOK, Resting
<1>15. PatchesAreOlder'
  <2>1. syncLock = x /\ \A y \in Syncer \ {x} : sync'[y].at \in {"idle", "lock"}
    BY <1>2 DEF CatalogIInv, SyncsOK, PatchesAreOlder
  <2>2. sync'[x].at = "record"
    BY <1>2 DEF CatalogIInv, SyncsOK, Resting
  <2> QED
    BY <1>2, <1>12, <2>1, <2>2 DEF PatchesAreOlder
<1> QED
  BY <1>6, <1>8, <1>9, <1>10, <1>12, <1>13, <1>14, <1>15 DEF CatalogIInv

\* Whatever lists the source answers with and whenever a request dies, the
\* catalog is one accepted list, no name is lost, one patch is active after the
\* first change, and half of the known brawlers stay on the site.
THEOREM CatalogIsOneList == CatalogSpec => []CatalogInv
<1>1. CatalogIInv /\ [CatalogNext]_catalogVars => CatalogIInv'
  BY LockKeepsCatalog, ApplyKeepsCatalog DEF CatalogNext
<1>2. CatalogIInv => CatalogInv
  <2> SUFFICES ASSUME CatalogIInv PROVE CatalogTypeOK
    BY DEF CatalogIInv, CatalogInv
  <2> QED
    BY DEF CatalogIInv, CatalogTypeOK, TablesOK, SyncsOK, KnownHaveRows
<1> QED
  BY InitCatalog, <1>1, <1>2, PTL DEF CatalogSpec

-----------------------------------------------------------------------------
(***************************************************************************)
(* The copy of tables.  A run that becomes visible late is not older than    *)
(* LateBy, so a watermark claims no run of which the target may not have     *)
(* heard; the overlap puts the beginning of the next pass before all that     *)
(* the last one may have missed.  What a pass owes is in the target up to    *)
(* the cursor, wherever the pass stopped.                                    *)
(***************************************************************************)
\* The arithmetic of positions: a second holds Width of them.
LEMMA Multiples ==
  ASSUME NEW W \in Nat, NEW a \in Int, NEW b \in Int, a <= b
  PROVE  a * W <= b * W
<1> DEFINE d == b - a
<1>1. d \in Nat /\ b = a + d
  OBVIOUS
<1>2. d * W >= 0
  BY <1>1
<1> HIDE DEF d
<1>3. (a + d) * W = a * W + d * W
  BY <1>1
<1>4. a * W \in Int /\ d * W \in Int
  BY <1>1
<1> QED
  BY <1>1, <1>2, <1>3, <1>4

LEMMA Quotients ==
  ASSUME NEW W \in Nat \ {0}, NEW a \in Int, NEW c \in Int
  PROVE  /\ c \div W \in Int
         /\ a <= c \div W <=> a * W <= c
<1>1. PICK q \in Int : q = c \div W
  OBVIOUS
<1>2. PICK r \in Int : r = c % W
  OBVIOUS
<1>3. c = W * q + r /\ 0 <= r /\ r < W
  BY <1>1, <1>2
<1>4. CASE a <= q
  <2>1. a * W <= q * W
    BY <1>4, Multiples
  <2>2. q * W = W * q /\ a * W \in Int /\ q * W \in Int
    OBVIOUS
  <2> QED
    BY <1>1, <1>3, <1>4, <2>1, <2>2
<1>5. CASE ~(a <= q)
  <2>1. q + 1 <= a
    BY <1>5
  <2>2. (q + 1) * W <= a * W
    BY <2>1, Multiples
  <2>3. (q + 1) * W = W * q + W
    OBVIOUS
  <2>4. a * W \in Int /\ W * q \in Int
    OBVIOUS
  <2> QED
    BY <1>1, <1>3, <1>5, <2>2, <2>3, <2>4
<1> QED
  BY <1>1, <1>4, <1>5


LEMMA WidthIsPositive == Width \in Nat \ {0} /\ \A p \in SourceRun : p \in Nat \ {0} /\ p < Width
<1>1. PICK n \in Nat : n = Cardinality(SourceRun)
  BY MigrationAssumption, FS_CardinalityType
<1>2. \A p \in SourceRun : p \in Nat \ {0} /\ p <= n
  BY <1>1, MigrationAssumption
<1> QED
  BY <1>1, <1>2 DEF Width

\* What positions and cursors say of seconds.
LEMMA SecondsOfCursors ==
  ASSUME NEW c \in Int
  PROVE  /\ SecondOf(c) \in Int
         /\ \A at \in Int : at <= SecondOf(c) <=> at * Width <= c
         /\ \A u \in Int : c <= u => SecondOf(c) <= SecondOf(u)
         /\ c < 0 => SecondOf(c) < 0
<1>1. PICK W \in Nat \ {0} : W = Width
  BY WidthIsPositive
<1>2. \A u \in Int : SecondOf(u) \in Int /\ \A at \in Int : at <= SecondOf(u) <=> at * W <= u
  BY <1>1, Quotients DEF SecondOf
<1>3. PICK q \in Int : q = SecondOf(c)
  BY <1>2
<1>4. q * W <= c
  BY <1>2, <1>3
<1>5. q * W \in Int
  OBVIOUS
<1>6. ASSUME NEW u \in Int, c <= u PROVE SecondOf(c) <= SecondOf(u)
  <2>1. q * W <= u
    BY <1>4, <1>5, <1>6
  <2> QED
    BY <1>2, <1>3, <2>1
<1>7. ASSUME c < 0 PROVE SecondOf(c) < 0
  <2>1. 0 * W = 0
    OBVIOUS
  <2>2. ~(0 <= q)
    BY <1>2, <1>3, <1>7, <2>1
  <2> QED
    BY <1>3, <2>2
<1> QED
  BY <1>1, <1>2, <1>6, <1>7

LEMMA PositionsOfRuns ==
  ASSUME NEW p \in SourceRun, NEW at \in Nat, NEW x, x = at * Width + p
  PROVE  /\ x \in Nat /\ x > 0 /\ SecondOf(x) = at
         /\ \A c \in Int : at < SecondOf(c) => x < c
         /\ \A k \in Int : x <= k * Width => at < k
<1>1. PICK W \in Nat \ {0} : W = Width /\ p \in Nat \ {0} /\ p < W
  BY WidthIsPositive
<1>2. x = at * W + p /\ at * W \in Nat
  BY <1>1
<1>3. x \in Nat /\ x > 0
  BY <1>1, <1>2
<1>4. (at + 1) * W = at * W + W
  BY <1>1
<1>5. x < (at + 1) * W
  BY <1>1, <1>2, <1>4
<1>6. (at + 1) * W \in Int
  BY <1>1
<1>7. SecondOf(x) = at
  <2>1. \A a \in Int : a <= SecondOf(x) <=> a * W <= x
    BY <1>1, <1>3, SecondsOfCursors
  <2>2. SecondOf(x) \in Int
    BY <1>3, SecondsOfCursors
  <2>3. at <= SecondOf(x)
    BY <1>1, <1>2, <2>1
  <2>4. ~(at + 1 <= SecondOf(x))
    BY <1>3, <1>5, <1>6, <2>1
  <2> QED
    BY <2>2, <2>3, <2>4
<1>8. ASSUME NEW c \in Int, at < SecondOf(c) PROVE x < c
  <2>1. at + 1 <= SecondOf(c)
    BY <1>8, SecondsOfCursors
  <2>2. (at + 1) * W <= c
    BY <1>1, <2>1, SecondsOfCursors
  <2> QED
    BY <1>3, <1>5, <1>6, <2>2
<1>9. ASSUME NEW k \in Int, x <= k * Width PROVE at < k
  <2>1. CASE k <= at
    <3>1. k * W <= at * W
      BY <2>1, Multiples
    <3>2. k * W \in Int
      OBVIOUS
    <3> QED
      BY <1>1, <1>2, <1>9, <3>1, <3>2
  <2> QED
    BY <2>1
<1> QED
  BY <1>3, <1>7, <1>8, <1>9

\* The highest of some positions is one of them.
LEMMA HighestIsOne ==
  ASSUME NEW S \in SUBSET Nat, IsFiniteSet(S), S # {}, NEW h, h = Highest(S)
  PROVE  h \in S /\ h \in Nat /\ \A y \in S : y <= h
<1>1. \E x \in S : \A y \in S : y <= x
  BY GreatestOfFinite
<1>2. h = CHOOSE x \in S : \A y \in S : y <= x
  BY DEF Highest
<1>3. h \in S /\ \A y \in S : y <= h
  BY <1>1, <1>2, Zenon
<1> QED
  BY <1>3

\* A page has the first rows: rows before one of them are in it, and it is empty
\* only when there is no row.
LEMMA PagesHaveTheFirst ==
  ASSUME NEW t, NEW S, IsFiniteSet(S), \A x \in S : PositionIn(t, x) \in Nat,
         NEW few, few = FirstPage(t, S)
  PROVE  /\ few \subseteq S
         /\ few = {} => S = {}
         /\ \A x \in S, y \in few : PositionIn(t, x) <= PositionIn(t, y) => x \in few
<1> DEFINE before(x) == {y \in S : PositionIn(t, y) < PositionIn(t, x)}
<1>1. \A x : IsFiniteSet(before(x)) /\ Cardinality(before(x)) \in Nat
  BY FS_Subset, FS_CardinalityType
<1>2. \A x : x \in few <=> x \in S /\ Cardinality(before(x)) < PageSize
  BY DEF FirstPage
<1>3. ASSUME NEW x \in S, NEW y \in few, PositionIn(t, x) <= PositionIn(t, y)
      PROVE  x \in few
  <2>1. y \in S
    BY <1>2
  <2>2. before(x) \subseteq before(y)
    <3>1. PICK m \in Nat : m = PositionIn(t, x)
      OBVIOUS
    <3>2. PICK n \in Nat : n = PositionIn(t, y)
      BY <2>1
    <3>3. \A z \in S : PositionIn(t, z) < m => PositionIn(t, z) < n
      BY <1>3, <3>1, <3>2
    <3> QED
      BY <3>1, <3>2, <3>3
  <2>3. Cardinality(before(x)) <= Cardinality(before(y))
    BY <1>1, <2>2, FS_Subset
  <2> HIDE DEF before
  <2>4. Cardinality(before(x)) < PageSize
    BY <1>1, <1>2, <2>3, MigrationAssumption
  <2> QED
    BY <1>2, <2>4
<1>4. ASSUME S # {} PROVE few # {}
  <2> DEFINE P == {PositionIn(t, x) : x \in S}
  <2>1. P \in SUBSET Nat /\ P # {}
    BY <1>4
  <2>2. PICK m \in P : \A n \in P : m <= n
    <3> HIDE DEF P
    <3> QED
      BY <2>1, LeastNat
  <2>3. PICK x \in S : m = PositionIn(t, x)
    OBVIOUS
  <2>4. before(x) = {}
    <3>1. \A y \in S : PositionIn(t, y) \in Nat /\ m \in Nat /\ m <= PositionIn(t, y)
      BY <2>2, <2>3
    <3>2. \A y \in S : ~(PositionIn(t, y) < m)
      BY <3>1
    <3> QED
      BY <2>3, <3>2
  <2>5. Cardinality(before(x)) = 0
    BY <2>4, FS_EmptySet
  <2> HIDE DEF before
  <2> QED
    BY <1>2, <2>3, <2>5, MigrationAssumption
<1>5. few \subseteq S
  BY <1>2
<1> QED
  BY <1>3, <1>4, <1>5


\* The rows of a page, with the status they were read with.
PageRows == UNION {[S -> {"running", "done"}] : S \in SUBSET (SourceRun \cup Child)}

\* The process that runs a pass.
PassOK ==
    pass \in [at : PassAt, tables : SUBSET Table, table : Table, resumed : BOOLEAN,
              page : PageRows, tries : 0..MaxRetries, ids : SUBSET SourceRun,
              settled : SUBSET SourceRun]

ParentsFile == file["parents"]

\* No time lies ahead, and rows that nobody sees yet are not older than LateBy.
TimesOK ==
    /\ \A p \in SourceRun : source[p].status # "absent" => source[p].at <= clock
    /\ \A p \in SourceRun : source[p].status = "open" => clock <= source[p].at + LateBy
    /\ SecondOf(ParentsFile.cursor) <= clock /\ SecondOf(ParentsFile.upper) <= clock

\* A process at work keeps its state file, and knows which table it is at.
AtWork == {"page", "apply", "save", "rescan", "reread", "reapply", "close"}

PassFitsFile ==
    /\ pass.at \in AtWork => file[pass.table].status = "running"
    /\ pass.at \in {"rescan", "reread", "reapply"} => pass.table = "parents"
    /\ pass.at \in {"idle", "open"} \/ pass.table = "children" => pass.settled = {}

\* A page holds rows of the table as they were or have been since.
PageFits ==
    /\ pass.at \in {"apply", "save"} => DOMAIN pass.page # {}
    /\ pass.at \in {"apply", "save", "reapply"} /\ pass.table = "parents" =>
         \A p \in DOMAIN pass.page :
             /\ p \in Visible
             /\ p \in pass.settled => pass.page[p] = "done"
    /\ pass.at \in {"apply", "save"} /\ pass.table = "parents" =>
         \A p \in DOMAIN pass.page : Position(p) <= ParentsFile.upper
    /\ pass.at \in {"apply", "save"} /\ pass.table = "children" => DOMAIN pass.page \subseteq Child
    /\ pass.at \in {"reread", "reapply"} => pass.ids \subseteq Visible

\* The runs that the present or interrupted pass over the parents has to copy:
\* those that were visible when its watermark was fixed, and those that were
\* final when it began.
Owed ==
    {p \in Visible : \/ source[p].at + LateBy < SecondOf(ParentsFile.upper)
                     \/ p \in pass.settled /\ ~pass.resumed}

There(p) == target[p] # "absent"

\* A row that no row of the page is behind.
BehindPage(p) == \A x \in DOMAIN pass.page : Position(x) < Position(p)

\* What is owed is in the target as far as the cursor is, and then the page.
OwedIsCopied ==
    /\ pass.at \in AtWork => \A p \in Owed : Position(p) <= ParentsFile.upper
    /\ ParentsFile.status \in {"running", "failed"} => \A p \in Owed : Position(p) <= ParentsFile.cursor => There(p)
    /\ pass.table = "parents" /\ pass.at = "apply" =>
         \A p \in Owed : There(p) \/ p \in DOMAIN pass.page \/ BehindPage(p)
    /\ pass.table = "parents" /\ pass.at = "save" => \A p \in Owed : There(p) \/ BehindPage(p)
    /\ pass.table = "parents" /\ pass.at \in {"rescan", "reread", "reapply", "close"} =>
         \A p \in Owed : There(p)

\* The rescan has before it what the target has as running.
RescanSettles ==
    /\ \A p \in pass.settled : source[p].status = "done"
    /\ pass.at \in {"reread", "reapply"} =>
         \A p \in pass.settled : target[p] = "running" => p \in pass.ids
    /\ pass.at = "close" /\ pass.table = "parents" => \A p \in pass.settled : target[p] # "running"

\* What a pass over the children has to copy is there, in the page or before it.
BehindKids(c) == \A x \in DOMAIN pass.page : x < c
DueIsCopied ==
    pass.table = "children" /\ pass.at \in AtWork /\ ~pass.resumed =>
        \A c \in due :
            /\ c \in sourceKids /\ ForeignKey[c] \in ChosenParents(ParentsFile)
            /\ c \in targetKids \/ Between(State.cursor, c, State.upper)
            /\ pass.at = "apply" => c \in targetKids \/ c \in DOMAIN pass.page \/ BehindKids(c)
            /\ pass.at = "save" => c \in targetKids \/ BehindKids(c)
            /\ pass.at = "close" => c \in targetKids

MigrationIInv ==
    /\ MigrationTypeOK /\ PassOK /\ TimesOK
    /\ PassFitsFile /\ PageFits
    /\ CursorClaimsTarget /\ OwedIsCopied /\ RescanSettles
    /\ NoOrphans /\ DueIsCopied


LEMMA InitMigration == MigrationInit => MigrationIInv
<1> SUFFICES ASSUME MigrationInit PROVE MigrationIInv
  OBVIOUS
<1> USE DEF MigrationInit
<1>1. pass = NoPass /\ PassOK
  <2>1. <<>> \in PageRows /\ DOMAIN <<>> = {}
    <3>1. <<>> \in [{} -> {"running", "done"}]
      OBVIOUS
    <3> QED
      BY <3>1 DEF PageRows
  <2> QED
    BY <2>1, MigrationAssumption DEF PassOK, NoPass, PassAt, Table
<1>2. ParentsFile = NoState /\ \A t \in Table : file[t] = NoState
  BY DEF ParentsFile, Table
<1>3. Visible = {}
  BY DEF Visible
<1>4. MigrationTypeOK
  <2>1. NoState \in [status : {"none", "running", "completed", "failed"},
                     cursor : Int, upper : Int, overlap : Int]
    BY DEF NoState, Null
  <2>2. pass.at \in PassAt /\ pass.table \in Table /\ pass.tries \in 0..MaxRetries
        /\ pass.ids \subseteq SourceRun /\ pass.settled \subseteq SourceRun
    BY <1>1 DEF PassOK
  <2>3. file \in [Table -> [status : {"none", "running", "completed", "failed"},
                            cursor : Int, upper : Int, overlap : Int]]
    BY <2>1
  <2>4. clock \in 0..MaxClock /\ 0 \in 0..MaxClock
    BY MigrationAssumption
  <2> QED
    BY <2>2, <2>3, <2>4 DEF MigrationTypeOK
<1>5. TimesOK
  <2>1. Null \in Int /\ Null < 0
    BY DEF Null
  <2>2. SecondOf(Null) < 0 /\ SecondOf(Null) \in Int
    BY <2>1, SecondsOfCursors
  <2> QED
    BY <1>2, <2>2 DEF TimesOK, NoState
<1>6. pass.at = "idle" /\ pass.table = "parents" /\ pass.settled = {}
  BY <1>1 DEF NoPass
<1>7. PassFitsFile /\ PageFits /\ RescanSettles /\ DueIsCopied
  BY <1>6 DEF PassFitsFile, PageFits, RescanSettles, DueIsCopied, AtWork
<1>8. CursorClaimsTarget /\ OwedIsCopied
  BY <1>3, <1>6 DEF CursorClaimsTarget, OwedIsCopied, Owed
<1>9. NoOrphans
  BY DEF NoOrphans
<1> QED
  BY <1>1, <1>4, <1>5, <1>7, <1>8, <1>9 DEF MigrationIInv

\* What the source does: a row becomes visible while it is no older than LateBy,
\* and is seen from then on, with its creation time; final rows are final.
LEMMA SourceGoesOn ==
  ASSUME MigrationIInv, SourceStep
  PROVE  /\ UNCHANGED <<target, targetKids, file, pass, due>>
         /\ clock' \in 0..MaxClock /\ clock <= clock'
         /\ source' \in [SourceRun -> [status : {"absent", "open", "running", "done"},
                                       at : 0..MaxClock]]
         /\ sourceKids \subseteq sourceKids' /\ sourceKids' \subseteq Child
         /\ \A p \in Visible : /\ source'[p].at = source[p].at
                               /\ source'[p].status \in {source[p].status, "done"}
         /\ \A p \in SourceRun : source'[p].status \in {"running", "done"} =>
               p \in Visible \/ clock' <= source'[p].at + LateBy
         /\ \A p \in SourceRun : source'[p].status # "absent" => source'[p].at <= clock'
         /\ \A p \in SourceRun : source'[p].status = "open" => clock' <= source'[p].at + LateBy
<1> USE DEF MigrationIInv, Visible, targetVars
<1>0. /\ clock \in 0..MaxClock /\ LateBy \in Nat /\ MaxClock \in Nat
      /\ source \in [SourceRun -> [status : {"absent", "open", "running", "done"}, at : 0..MaxClock]]
      /\ sourceKids \subseteq Child
      /\ \A p \in SourceRun : source[p].status # "absent" => source[p].at <= clock
      /\ \A p \in SourceRun : source[p].status = "open" => clock <= source[p].at + LateBy
  BY MigrationAssumption DEF MigrationTypeOK, TimesOK
<1> HIDE DEF MigrationIInv
<1>1. ASSUME NEW p \in SourceRun, InsertParent(p) \/ CommitParent(p) \/ FinishParent(p)
      PROVE  /\ UNCHANGED <<target, targetKids, file, pass, due, clock, sourceKids>>
             /\ source' \in [SourceRun -> [status : {"absent", "open", "running", "done"},
                                           at : 0..MaxClock]]
             /\ \A r \in SourceRun : r # p => source'[r] = source[r]
             /\ \/ source[p].status = "absent" /\ source'[p].status = "open" /\ source'[p].at = clock
                \/ /\ source'[p].at = source[p].at
                   /\ \/ source[p].status = "open" /\ source'[p].status = "running"
                      \/ source[p].status = "running" /\ source'[p].status = "done"
  <2>1. CASE InsertParent(p)
    BY <1>0, <2>1 DEF InsertParent
  <2>2. CASE CommitParent(p)
    BY <1>0, <2>2 DEF CommitParent
  <2>3. CASE FinishParent(p)
    BY <1>0, <2>3 DEF FinishParent
  <2> QED
    BY <1>1, <2>1, <2>2, <2>3
<1>2. ASSUME NEW p \in SourceRun, InsertParent(p) \/ CommitParent(p) \/ FinishParent(p)
      PROVE  /\ \A r \in Visible : /\ source'[r].at = source[r].at
                               /\ source'[r].status \in {source[r].status, "done"}
             /\ \A r \in SourceRun : source'[r].status \in {"running", "done"} =>
                  r \in Visible \/ clock' <= source'[r].at + LateBy
             /\ \A r \in SourceRun : source'[r].status # "absent" => source'[r].at <= clock'
             /\ \A r \in SourceRun : source'[r].status = "open" => clock' <= source'[r].at + LateBy
  BY <1>0, <1>1, <1>2
<1>3. ASSUME NEW c \in Child, InsertChild(c)
      PROVE  /\ UNCHANGED <<target, targetKids, file, pass, due, clock, source>>
             /\ sourceKids \subseteq sourceKids' /\ sourceKids' \subseteq Child
  BY <1>0, <1>3 DEF InsertChild
<1>4. CASE Second
  <2>1. /\ UNCHANGED <<target, targetKids, file, pass, due, sourceKids, source>>
        /\ clock' = clock + 1 /\ clock < MaxClock
        /\ \A p \in SourceRun : source[p].status = "open" => clock < source[p].at + LateBy
    BY <1>4 DEF Second
  <2> QED
    BY <1>0, <2>1
<1>5. CASE \E p \in SourceRun : InsertParent(p) \/ CommitParent(p) \/ FinishParent(p)
  <2>1. PICK p \in SourceRun : InsertParent(p) \/ CommitParent(p) \/ FinishParent(p)
    BY <1>5
  <2> QED
    BY <1>0, <1>1, <1>2, <2>1
<1>6. CASE \E c \in Child : InsertChild(c)
  <2>1. PICK c \in Child : InsertChild(c)
    BY <1>6
  <2> QED
    BY <1>0, <1>3, <2>1
<1> QED
  BY <1>4, <1>5, <1>6 DEF SourceStep

\* The positions of rows that are seen are numbers of their second.
LEMMA PositionsSeen ==
  ASSUME MigrationTypeOK, NEW p \in SourceRun
  PROVE  /\ Position(p) \in Nat /\ Position(p) > 0 /\ SecondOf(Position(p)) = source[p].at
         /\ source[p].at \in Nat
         /\ \A c \in Int : source[p].at < SecondOf(c) => Position(p) < c
         /\ \A k \in Int : Position(p) <= k * Width => source[p].at < k
<1>1. source[p].at \in Nat
  BY MigrationAssumption DEF MigrationTypeOK
<1> QED
  BY <1>1, PositionsOfRuns DEF Position

LEMMA SourceKeepsMigration ==
  ASSUME MigrationIInv, SourceStep
  PROVE  MigrationIInv'
<1> USE DEF MigrationIInv
<1>1. /\ UNCHANGED <<target, targetKids, file, pass, due>>
      /\ clock' \in 0..MaxClock /\ clock <= clock'
      /\ source' \in [SourceRun -> [status : {"absent", "open", "running", "done"}, at : 0..MaxClock]]
      /\ sourceKids \subseteq sourceKids' /\ sourceKids' \subseteq Child
      /\ \A p \in Visible : /\ source'[p].at = source[p].at
                            /\ source'[p].status \in {source[p].status, "done"}
      /\ \A p \in SourceRun : source'[p].status \in {"running", "done"} =>
            p \in Visible \/ clock' <= source'[p].at + LateBy
      /\ \A p \in SourceRun : source'[p].status # "absent" => source'[p].at <= clock'
      /\ \A p \in SourceRun : source'[p].status = "open" => clock' <= source'[p].at + LateBy
  BY SourceGoesOn
<1>2. UNCHANGED ParentsFile /\ UNCHANGED State
  BY <1>1 DEF ParentsFile, State
<1>3. \A p \in Visible : p \in Visible' /\ Position(p)' = Position(p) /\ p \in SourceRun
  <2>1. ASSUME NEW p \in Visible PROVE p \in Visible' /\ Position(p)' = Position(p) /\ p \in SourceRun
    <3>1. source'[p].at = source[p].at /\ p \in SourceRun /\ source[p].status \in {"running", "done"}
          /\ source'[p].status \in {source[p].status, "done"}
      BY <1>1 DEF Visible
    <3> QED
      BY <3>1 DEF Visible, Position
  <2> QED
    BY <2>1
<1>4. MigrationTypeOK' /\ PassOK'
  BY <1>1 DEF MigrationTypeOK, PassOK
<1>5. PICK s \in Int, u \in Int : s = SecondOf(ParentsFile.cursor) /\ u = SecondOf(ParentsFile.upper)
                                  /\ s <= clock /\ u <= clock
  <2>1. ParentsFile.cursor \in Int /\ ParentsFile.upper \in Int
    BY DEF MigrationTypeOK, ParentsFile, Table
  <2> QED
    BY <2>1, SecondsOfCursors DEF TimesOK
<1>6. SecondOf(ParentsFile.cursor)' = s /\ SecondOf(ParentsFile.upper)' = u
  BY <1>2, <1>5 DEF SecondOf
<1>7. TimesOK'
  <2>1. s <= clock' /\ u <= clock'
    BY <1>1, <1>5 DEF MigrationTypeOK
  <2> QED
    BY <1>1, <1>2, <1>6, <2>1 DEF TimesOK
<1>8. ASSUME NEW p \in Visible', source'[p].at + LateBy < s \/ source'[p].at + LateBy < u
             \/ p \in pass.settled
      PROVE  p \in Visible /\ source'[p].at = source[p].at
  <2>1. p \in SourceRun /\ source'[p].status \in {"running", "done"}
    BY <1>8 DEF Visible
  <2>2. source'[p].at \in Nat /\ LateBy \in Nat /\ clock' \in Nat /\ clock \in Nat
    BY <1>1, <2>1, MigrationAssumption DEF MigrationTypeOK
  <2>3. p \in pass.settled => p \in Visible
    BY DEF RescanSettles, Visible, PassOK
  <2>4. ~(source'[p].at + LateBy < s) \/ p \in Visible
    BY <1>1, <1>5, <2>1, <2>2
  <2>5. ~(source'[p].at + LateBy < u) \/ p \in Visible
    BY <1>1, <1>5, <2>1, <2>2
  <2> QED
    BY <1>1, <1>8, <2>3, <2>4, <2>5
<1>9. CursorClaimsTarget'
  BY <1>1, <1>2, <1>5, <1>6, <1>8 DEF CursorClaimsTarget, ParentsFile
<1>10. \A p \in Owed' : p \in Owed /\ Position(p)' = Position(p)
  BY <1>1, <1>2, <1>3, <1>5, <1>6, <1>8 DEF Owed
<1>11. PassFitsFile' /\ NoOrphans'
  BY <1>1 DEF PassFitsFile, NoOrphans
<1>12. PageFits'
  BY <1>1, <1>2, <1>3 DEF PageFits
<1>13. \A p \in Owed' : (There(p)' <=> There(p))
  BY <1>1 DEF There
<1>14. pass.table = "parents" /\ pass.at \in {"apply", "save"} =>
         \A p \in Owed' : BehindPage(p) => BehindPage(p)'
  <2>1. pass.table = "parents" /\ pass.at \in {"apply", "save"} =>
          \A x \in DOMAIN pass.page : Position(x)' = Position(x)
    BY <1>3 DEF PageFits
  <2> QED
    BY <1>1, <1>10, <2>1 DEF BehindPage
<1>15. OwedIsCopied'
  <2>1. /\ pass.at \in AtWork => \A p \in Owed' : Position(p)' <= ParentsFile.upper
        /\ ParentsFile.status \in {"running", "failed"} =>
             \A p \in Owed' : Position(p)' <= ParentsFile.cursor => There(p)'
    BY <1>10, <1>13 DEF OwedIsCopied
  <2>2. /\ pass.table = "parents" /\ pass.at = "apply" =>
             \A p \in Owed' : There(p)' \/ p \in DOMAIN pass.page \/ BehindPage(p)'
        /\ pass.table = "parents" /\ pass.at = "save" => \A p \in Owed' : There(p)' \/ BehindPage(p)'
        /\ pass.table = "parents" /\ pass.at \in {"rescan", "reread", "reapply", "close"} =>
             \A p \in Owed' : There(p)'
    BY <1>10, <1>13, <1>14 DEF OwedIsCopied
  <2> QED
    BY <1>1, <1>2, <2>1, <2>2 DEF OwedIsCopied
<1>16. RescanSettles'
  <2>1. ASSUME NEW p \in pass.settled PROVE source'[p].status = "done"
    <3>1. p \in SourceRun /\ source[p].status = "done"
      BY DEF RescanSettles, PassOK
    <3>2. p \in Visible
      BY <3>1 DEF Visible
    <3> QED
      BY <1>1, <3>1, <3>2
  <2> QED
    BY <1>1, <2>1 DEF RescanSettles
<1>17. ChosenParents(ParentsFile) \subseteq ChosenParents(ParentsFile)'
  <2>1. ASSUME NEW p \in ChosenParents(ParentsFile)
        PROVE  p \in ChosenParents(ParentsFile)'
    <3>1. p \in Visible /\ source[p].status \in Statuses /\ source[p].status \in {"running", "done"}
          /\ (ParentsFile.overlap # Null /\ ParentsFile.cursor # Null =>
                Between(ParentsFile.overlap, Position(p), ParentsFile.cursor))
      BY DEF ChosenParents, Visible
    <3>2. source'[p].status \in Statuses
      BY <1>1, <3>1, MigrationAssumption
    <3>3. p \in Visible' /\ Position(p)' = Position(p)
      BY <1>3, <3>1
    <3> QED
      BY <1>2, <3>1, <3>2, <3>3 DEF ChosenParents, Between
  <2> QED
    BY <2>1
<1>18. DueIsCopied'
  BY <1>1, <1>2, <1>17 DEF DueIsCopied, BehindKids, Between
<1> QED
  BY <1>4, <1>7, <1>9, <1>11, <1>12, <1>15, <1>16, <1>18


-----------------------------------------------------------------------------
(* The steps of a pass *)

PassState ==
    [at : PassAt, tables : SUBSET Table, table : Table, resumed : BOOLEAN,
     page : PageRows, tries : 0..MaxRetries, ids : SUBSET SourceRun,
     settled : SUBSET SourceRun]

FileState == [status : {"none", "running", "completed", "failed"},
              cursor : Int, upper : Int, overlap : Int]

LEMMA TypesOfMigration ==
  ASSUME MigrationIInv
  PROVE  /\ pass \in PassState /\ PassOK
         /\ file \in [Table -> FileState] /\ ParentsFile \in FileState /\ State \in FileState
         /\ clock \in Nat /\ LateBy \in Nat /\ Overlap \in Nat
         /\ target \in [SourceRun -> {"absent", "running", "done"}]
         /\ targetKids \subseteq Child /\ sourceKids \subseteq Child /\ due \subseteq Child
         /\ IsFiniteSet(SourceRun) /\ IsFiniteSet(Child)
         /\ Child \subseteq Nat /\ ForeignKey \in [Child -> SourceRun]
<1> USE DEF MigrationIInv, MigrationTypeOK, FileState
<1>1. pass \in PassState /\ pass.table \in Table
  BY DEF PassOK, PassState
<1>2. file \in [Table -> FileState] /\ ParentsFile \in FileState /\ State \in FileState
  BY <1>1 DEF ParentsFile, State, Table
<1>3. clock \in Nat
  BY MigrationAssumption
<1> QED
  BY <1>1, <1>2, <1>3, MigrationAssumption

LEMMA NoPassIsState == NoPass \in PassState /\ NoPass.settled = {} /\ NoPass.at = "idle"
<1>1. <<>> \in PageRows
  <2>1. <<>> \in [{} -> {"running", "done"}]
    OBVIOUS
  <2> QED
    BY <2>1 DEF PageRows
<1> QED
  BY <1>1, MigrationAssumption DEF NoPass, PassState, PassAt, Table

\* Where a pass goes when it is done with a table.
LEMMA NextTableIsState ==
  ASSUME pass \in PassState, NEW next, next = NextTable
  PROVE  next \in PassState /\ next.settled = {} /\ next.at \in {"idle", "open"}
<1>1. PICK none \in PassState : none = NoPass /\ none.settled = {} /\ none.at = "idle"
  BY NoPassIsState
<1>2. pass.tables \in SUBSET Table
  BY DEF PassState
<1>3. next = none \/ next = [none EXCEPT !.at = "open", !.tables = pass.tables, !.table = "children"]
  BY <1>1 DEF NextTable
<1> QED
  BY ZenonT(30), <1>1, <1>2, <1>3 DEF PassState, PassAt, Table

\* The source does nothing in a step of a pass.
LEMMA SourceIsStill ==
  ASSUME UNCHANGED sourceVars
  PROVE  /\ clock' = clock /\ source' = source /\ sourceKids' = sourceKids
         /\ Visible' = Visible
         /\ \A p : Position(p)' = Position(p)
BY DEF sourceVars, Visible, Position

\* A run that was created before the second of a cursor is behind it.
LEMMA CreatedBeforeCursor ==
  ASSUME MigrationIInv, NEW p \in Visible, NEW c \in Int, source[p].at + LateBy < SecondOf(c)
  PROVE  Position(p) < c /\ Position(p) \in Nat
<1>1. MigrationTypeOK /\ p \in SourceRun
  BY DEF MigrationIInv, Visible
<1>2. source[p].at \in Nat /\ LateBy \in Nat /\ SecondOf(c) \in Int
  BY <1>1, PositionsSeen, SecondsOfCursors, MigrationAssumption
<1>3. source[p].at < SecondOf(c)
  BY <1>2
<1> QED
  BY <1>1, <1>3, PositionsSeen

\* Between two tables and when it ends, a pass owes nothing of its own.
LEMMA RestsKeepMigration ==
  ASSUME MigrationIInv, UNCHANGED <<sourceVars, targetVars>>,
         pass' \in PassState, pass'.at \in {"idle", "open"}, pass'.settled = {},
         file' \in [Table -> FileState], due' \subseteq Child,
         TimesOK', CursorClaimsTarget',
         ParentsFile'.status \in {"running", "failed"} =>
             /\ ParentsFile.status \in {"running", "failed"}
             /\ ParentsFile'.cursor = ParentsFile.cursor /\ ParentsFile'.upper = ParentsFile.upper
  PROVE  MigrationIInv'
<1> USE DEF MigrationIInv
<1>1. clock' = clock /\ source' = source /\ sourceKids' = sourceKids /\ Visible' = Visible
      /\ (\A p : Position(p)' = Position(p)) /\ target' = target /\ targetKids' = targetKids
  BY SourceIsStill DEF targetVars
<1>2. PassOK' /\ MigrationTypeOK'
  BY <1>1 DEF PassOK, PassState, MigrationTypeOK, FileState
<1>3. PassFitsFile' /\ PageFits' /\ DueIsCopied' /\ RescanSettles'
  BY DEF PassFitsFile, PageFits, DueIsCopied, RescanSettles, AtWork
<1>4. OwedIsCopied'
  <2>1. ParentsFile'.status \in {"running", "failed"} => Owed' \subseteq Owed
    BY <1>1 DEF Owed
  <2>2. ParentsFile'.status \in {"running", "failed"} =>
          \A p \in Owed' : Position(p)' <= ParentsFile'.cursor => There(p)'
    BY <1>1, <2>1 DEF OwedIsCopied, There
  <2> QED
    BY <2>2 DEF OwedIsCopied, AtWork
<1>5. NoOrphans'
  BY <1>1 DEF NoOrphans
<1> QED
  BY <1>2, <1>3, <1>4, <1>5

LEMMA StopsKeepMigration ==
  ASSUME MigrationIInv, (\E tables \in Selections : StartPass(tables)) \/ FailTable \/ KillPass
  PROVE  MigrationIInv'
<1>0. pass \in PassState /\ file \in [Table -> FileState] /\ State \in FileState
      /\ due \subseteq Child /\ pass.table \in Table
  BY TypesOfMigration DEF PassState
<1>1. PICK none \in PassState : none = NoPass /\ none.settled = {} /\ none.at = "idle"
  BY NoPassIsState
<1>2. UNCHANGED <<sourceVars, targetVars>> /\ UNCHANGED due
  BY DEF StartPass, FailTable, KillPass
<1>3. pass' \in PassState /\ pass'.at \in {"idle", "open"} /\ pass'.settled = {}
  <2>1. CASE \E tables \in Selections : StartPass(tables)
    <3>1. PICK tables \in Selections : StartPass(tables)
      BY <2>1
    <3>2. tables \in SUBSET Table
      BY <3>1, MigrationAssumption DEF Table
    <3>3. PICK t \in Table : pass' = [none EXCEPT !.at = "open", !.tables = tables, !.table = t]
      BY <1>1, <3>1 DEF StartPass, Table
    <3> QED
      BY <1>1, <3>2, <3>3 DEF PassState, PassAt
  <2>2. CASE FailTable \/ KillPass
    BY <1>1, <2>2 DEF FailTable, KillPass
  <2> QED
    BY <2>1, <2>2
<1>4. /\ file' \in [Table -> FileState]
      /\ ParentsFile'.cursor = ParentsFile.cursor /\ ParentsFile'.upper = ParentsFile.upper
      /\ ParentsFile'.status \in {"running", "failed"} => ParentsFile.status \in {"running", "failed"}
  <2>1. CASE FailTable
    <3>1. pass.at \in AtWork /\ file' = [file EXCEPT ![pass.table] = [State EXCEPT !.status = "failed"]]
      BY <2>1 DEF FailTable, SetState, AtWork
    <3>2. file[pass.table].status = "running"
      BY <3>1 DEF MigrationIInv, PassFitsFile
    <3>3. [State EXCEPT !.status = "failed"] \in FileState
      BY <1>0 DEF FileState
    <3>4. file' \in [Table -> FileState]
      BY <1>0, <3>1, <3>3
    <3>5. CASE pass.table = "parents"
      <4>1. ParentsFile' = [ParentsFile EXCEPT !.status = "failed"]
        BY <1>0, <3>1, <3>5 DEF ParentsFile, State, Table
      <4> QED
        BY <1>0, <3>2, <3>4, <3>5, <4>1 DEF ParentsFile, State, FileState
    <3>6. CASE pass.table # "parents"
      BY <1>0, <3>1, <3>4, <3>6 DEF ParentsFile, Table
    <3> QED
      BY <3>5, <3>6
  <2>2. CASE UNCHANGED file
    BY <1>0, <2>2 DEF ParentsFile
  <2> QED
    BY <2>1, <2>2 DEF StartPass, KillPass
<1>5. TimesOK' /\ CursorClaimsTarget'
  <2>1. clock' = clock /\ source' = source /\ Visible' = Visible /\ target' = target
    BY <1>2, SourceIsStill DEF targetVars
  <2>2. SecondOf(ParentsFile.cursor)' = SecondOf(ParentsFile.cursor)
        /\ SecondOf(ParentsFile.upper)' = SecondOf(ParentsFile.upper)
    BY <1>4 DEF SecondOf
  <2> QED
    BY <2>1, <2>2 DEF TimesOK, CursorClaimsTarget, MigrationIInv, ParentsFile
<1> QED
  BY <1>0, <1>2, <1>3, <1>4, <1>5, RestsKeepMigration


\* What the watermark and the overlap are.
LEMMA Watermark ==
  ASSUME MigrationIInv, NEW t \in Table, NEW u, u = UpperWatermark(t)
  PROVE  /\ u \in Int
         /\ t = "parents" => \A p \in Visible : Position(p) <= u
         /\ t = "parents" => SecondOf(u) <= clock
         /\ t = "children" => \A c \in sourceKids : c <= u
<1> DEFINE S == {PositionIn(t, x) : x \in IF t = "parents" THEN Visible ELSE sourceKids}
<1>0. MigrationTypeOK /\ TimesOK /\ sourceKids \subseteq Child
      /\ IsFiniteSet(SourceRun) /\ IsFiniteSet(Child) /\ Child \subseteq Nat /\ clock \in Nat
  BY TypesOfMigration DEF MigrationIInv
<1>1. u = Highest(S)
  BY DEF UpperWatermark
<1>2. Visible \subseteq SourceRun /\ \A p \in Visible : Position(p) \in Nat
  BY <1>0, PositionsSeen DEF Visible
<1>3. IsFiniteSet(S) /\ S \in SUBSET Nat
  <2>1. CASE t = "parents"
    <3>1. S = {Position(x) : x \in Visible}
      BY <2>1 DEF PositionIn
    <3>2. IsFiniteSet(Visible)
      BY <1>0, <1>2, FS_Subset
    <3>3. PICK at : at = [x \in Visible |-> Position(x)]
      OBVIOUS
    <3>4. at \in Surjection(Visible, S)
      BY <3>1, <3>3 DEF Surjection
    <3>5. S \in SUBSET Nat
      BY <1>2, <3>1
    <3> HIDE DEF S
    <3> QED
      BY <3>2, <3>4, <3>5, FS_Surjection
  <2>2. CASE t # "parents"
    <3>1. S = sourceKids
      BY <2>2 DEF PositionIn
    <3> QED
      BY <1>0, <3>1, FS_Subset
  <2> QED
    BY <2>1, <2>2
<1>4. S = {} => u = Null
  BY <1>1 DEF Highest
<1>5. S # {} => u \in S /\ u \in Nat /\ \A y \in S : y <= u
  <2> HIDE DEF S
  <2> QED
    BY <1>1, <1>3, HighestIsOne
<1>6. u \in Int /\ (S = {} => u < 0)
  BY <1>4, <1>5 DEF Null
<1>7. \A y \in S : y <= u
  BY <1>5
<1>8. t = "parents" => SecondOf(u) <= clock
  <2>1. CASE S = {}
    BY <1>0, <1>6, <2>1, SecondsOfCursors
  <2>2. CASE S # {} /\ t = "parents"
    <3>1. PICK p \in Visible : u = Position(p)
      BY <1>5, <2>2 DEF PositionIn
    <3>2. p \in SourceRun /\ source[p].status # "absent"
      BY <3>1 DEF Visible
    <3> QED
      BY <1>0, <3>1, <3>2, PositionsSeen DEF TimesOK
  <2> QED
    BY <2>1, <2>2
<1> QED
  BY <1>6, <1>7, <1>8 DEF PositionIn

LEMMA OverlapIsBehind ==
  ASSUME MigrationIInv, NEW c \in Int, NEW lower, lower = StartWithOverlap(c)
  PROVE  /\ lower \in Int
         /\ SecondOf(lower) <= SecondOf(c)
         /\ \A p \in Visible : Position(p) <= lower => source[p].at + Overlap < SecondOf(c)
<1>0. MigrationTypeOK /\ Overlap \in Nat
  BY TypesOfMigration DEF MigrationIInv
<1>1. CASE c = Null
  <2>1. lower = c /\ c < 0
    BY <1>1 DEF StartWithOverlap, Null
  <2>2. \A p \in Visible : Position(p) \in Nat
    BY <1>0, PositionsSeen DEF Visible
  <2>3. SecondOf(c) \in Int
    BY SecondsOfCursors
  <2> QED
    BY <2>1, <2>2, <2>3
<1>2. CASE c # Null
  <2>1. PICK s \in Int : s = SecondOf(c)
    BY SecondsOfCursors
  <2>2. PICK W \in Nat \ {0} : W = Width
    BY WidthIsPositive
  <2>3. PICK k \in Int : k = s - Overlap
    BY <1>0, <2>1
  <2>4. lower = k * W
    BY <1>2, <2>1, <2>2, <2>3 DEF StartWithOverlap
  <2>5. lower \in Int
    BY <2>4
  <2>6. SecondOf(lower) <= k /\ SecondOf(lower) \in Int
    <3>1. (k + 1) * W = k * W + W /\ k * W \in Int /\ (k + 1) * W \in Int
      BY <2>2
    <3>2. ~((k + 1) * W <= lower)
      BY <2>2, <2>4, <3>1
    <3>3. ~(k + 1 <= SecondOf(lower)) /\ SecondOf(lower) \in Int
      BY <2>2, <2>5, <3>2, SecondsOfCursors
    <3> QED
      BY <3>3
  <2>7. ASSUME NEW p \in Visible, Position(p) <= lower
        PROVE  source[p].at + Overlap < s
    <3>1. source[p].at < k /\ source[p].at \in Nat
      BY <1>0, <2>2, <2>4, <2>7, PositionsSeen DEF Visible
    <3> QED
      BY <1>0, <2>3, <3>1
  <2> QED
    BY <1>0, <2>1, <2>3, <2>5, <2>6, <2>7
<1> QED
  BY <1>1, <1>2

\* The state a pass over the parents begins with.
LEMMA OpeningOfParents ==
  ASSUME MigrationIInv, OverlapCoversCommits, pass.table = "parents", pass.at = "open",
         NEW s, s = OpeningState
  PROVE  /\ s \in FileState /\ s.status = "running"
         /\ SecondOf(s.cursor) <= clock /\ SecondOf(s.upper) <= clock
         /\ SecondOf(s.cursor) <= SecondOf(ParentsFile.cursor)
         /\ State.status \in {"running", "failed"} =>
              /\ ParentsFile.status \in {"running", "failed"}
              /\ s.cursor = ParentsFile.cursor /\ s.upper = ParentsFile.upper
         /\ State.status \notin {"running", "failed"} =>
              /\ \A p \in Visible : Position(p) <= s.upper
              /\ \A p \in Visible : Position(p) <= s.cursor => There(p)
<1>0. /\ State = ParentsFile /\ ParentsFile \in FileState
      /\ TimesOK /\ CursorClaimsTarget /\ "parents" \in Table
      /\ MigrationTypeOK
  BY TypesOfMigration DEF State, ParentsFile, Table, MigrationIInv
<1>1. CASE State.status \in {"running", "failed"}
  <2>1. s = [State EXCEPT !.status = "running"]
    BY <1>1 DEF OpeningState
  <2>2. SecondOf(ParentsFile.cursor) \in Int
    BY <1>0, SecondsOfCursors DEF FileState
  <2> QED
    BY <1>0, <1>1, <2>1, <2>2 DEF FileState, TimesOK
<1>2. CASE State.status \notin {"running", "failed"}
  <2>1. PICK c \in Int : c = ParentsFile.cursor
    BY <1>0 DEF FileState
  <2>2. PICK lower \in Int : /\ lower = StartWithOverlap(c)
                              /\ SecondOf(lower) <= SecondOf(c)
                              /\ \A p \in Visible : Position(p) <= lower => source[p].at + Overlap < SecondOf(c)
    BY OverlapIsBehind
  <2>3. PICK u \in Int : /\ u = UpperWatermark("parents") /\ SecondOf(u) <= clock
                          /\ \A p \in Visible : Position(p) <= u
    BY <1>0, Watermark
  <2>4. s = [status |-> "running", cursor |-> lower, overlap |-> lower, upper |-> u]
    BY <1>0, <1>2, <2>1, <2>2, <2>3 DEF OpeningState
  <2>5. ASSUME NEW p \in Visible, Position(p) <= lower PROVE There(p)
    <3>1. source[p].at \in Nat /\ LateBy \in Nat /\ Overlap \in Nat /\ LateBy <= Overlap
          /\ SecondOf(c) \in Int
      BY <1>0, PositionsSeen, MigrationAssumption, SecondsOfCursors DEF Visible, OverlapCoversCommits
    <3>2. source[p].at + Overlap < SecondOf(c)
      BY <2>2, <2>5
    <3>3. source[p].at + LateBy < SecondOf(c)
      BY <3>1, <3>2
    <3> QED
      BY <1>0, <2>1, <3>3 DEF CursorClaimsTarget, ParentsFile, There
  <2>6. SecondOf(lower) \in Int /\ SecondOf(c) \in Int /\ clock \in Nat /\ SecondOf(c) <= clock
    BY <1>0, <2>1, SecondsOfCursors, TypesOfMigration DEF TimesOK
  <2>7. SecondOf(lower) <= clock
    BY <2>2, <2>6
  <2>8. s \in FileState
    BY <2>4 DEF FileState
  <2> QED
    BY <1>2, <2>1, <2>2, <2>3, <2>4, <2>5, <2>7, <2>8
<1> QED
  BY <1>1, <1>2

\* A pass opens the parents.
LEMMA OpenParentsKeeps ==
  ASSUME MigrationIInv, OverlapCoversCommits, OpenTable, pass.table = "parents"
  PROVE  MigrationIInv'
<1>0. /\ pass \in PassState /\ file \in [Table -> FileState] /\ State = ParentsFile
      /\ due \subseteq Child /\ clock \in Nat /\ LateBy \in Nat /\ "parents" \in Table
      /\ TimesOK /\ CursorClaimsTarget /\ MigrationTypeOK
  BY TypesOfMigration DEF State, ParentsFile, Table, MigrationIInv
<1>1. PICK s : s = OpeningState
  OBVIOUS
<1>2. /\ s \in FileState /\ s.status = "running"
      /\ SecondOf(s.cursor) <= clock /\ SecondOf(s.upper) <= clock
      /\ SecondOf(s.cursor) <= SecondOf(ParentsFile.cursor)
      /\ State.status \in {"running", "failed"} =>
           /\ ParentsFile.status \in {"running", "failed"}
           /\ s.cursor = ParentsFile.cursor /\ s.upper = ParentsFile.upper
      /\ State.status \notin {"running", "failed"} =>
           /\ \A p \in Visible : Position(p) <= s.upper
           /\ \A p \in Visible : Position(p) <= s.cursor => There(p)
  <2>1. pass.at = "open"
    BY DEF OpenTable
  <2> QED
    BY <1>1, <2>1, OpeningOfParents
<1>3. UNCHANGED <<sourceVars, targetVars>> /\ due' = due
  BY DEF OpenTable
<1>4. clock' = clock /\ source' = source /\ sourceKids' = sourceKids /\ Visible' = Visible
      /\ (\A p : Position(p)' = Position(p)) /\ target' = target /\ targetKids' = targetKids
  BY <1>3, SourceIsStill DEF targetVars
<1>5. ASSUME NEW f \in FileState, f.cursor = s.cursor, f.upper = s.upper,
             file' = [file EXCEPT !["parents"] = f]
      PROVE  TimesOK' /\ CursorClaimsTarget' /\ ParentsFile' = f
  <2>1. ParentsFile' = f
    BY <1>0, <1>5 DEF ParentsFile
  <2>2. SecondOf(ParentsFile.cursor)' = SecondOf(s.cursor) /\ SecondOf(ParentsFile.upper)' = SecondOf(s.upper)
    BY <1>5, <2>1 DEF SecondOf
  <2>3. TimesOK'
    BY <1>0, <1>2, <1>4, <2>2 DEF TimesOK
  <2>4. ASSUME NEW p \in Visible, source[p].at + LateBy < SecondOf(s.cursor)
        PROVE  There(p)
    <3>1. source[p].at \in Nat /\ SecondOf(s.cursor) \in Int /\ SecondOf(ParentsFile.cursor) \in Int
      BY <1>0, <1>2, PositionsSeen, SecondsOfCursors, TypesOfMigration DEF Visible, FileState
    <3>2. source[p].at + LateBy < SecondOf(ParentsFile.cursor)
      BY <1>0, <1>2, <2>4, <3>1
    <3> QED
      BY <1>0, <3>2 DEF CursorClaimsTarget, ParentsFile, There
  <2>5. CursorClaimsTarget'
    BY <1>4, <2>2, <2>4 DEF CursorClaimsTarget, There, ParentsFile
  <2> QED
    BY <2>1, <2>3, <2>5
<1>6. CASE s.upper = Null
  <2>1. PICK f : f = [s EXCEPT !.status = "completed"]
    OBVIOUS
  <2>2. file' = [file EXCEPT !["parents"] = f] /\ pass' = NextTable
    BY <1>1, <1>6, <2>1 DEF OpenTable, SetState
  <2>3. f \in FileState /\ f.cursor = s.cursor /\ f.upper = s.upper /\ f.status = "completed"
    BY <1>2, <2>1 DEF FileState
  <2>4. TimesOK' /\ CursorClaimsTarget' /\ ParentsFile' = f
    BY <1>5, <2>2, <2>3
  <2>5. pass' \in PassState /\ pass'.settled = {} /\ pass'.at \in {"idle", "open"}
    BY <1>0, <2>2, NextTableIsState
  <2>6. file' \in [Table -> FileState]
    BY <1>0, <2>2, <2>3
  <2> QED
    BY <1>0, <1>3, <2>3, <2>4, <2>5, <2>6, RestsKeepMigration
<1>7. CASE s.upper # Null
  <2> DEFINE resumed == State.status \in {"running", "failed"}
             final == {p \in Visible : source[p].status = "done"}
  <2>1. file' = [file EXCEPT !["parents"] = s]
    BY <1>1, <1>7 DEF OpenTable, SetState
  <2>2. pass' = [pass EXCEPT !.at = "page", !.resumed = resumed, !.settled = final]
    <3>1. pass' = [pass EXCEPT !.at = "page", !.resumed = resumed,
                      !.settled = {p \in Visible : ~(pass.table = "children") /\ source[p].status = "done"}]
      BY <1>1, <1>7 DEF OpenTable
    <3> QED
      BY <3>1
  <2>3. TimesOK' /\ CursorClaimsTarget' /\ ParentsFile' = s
    BY <1>2, <1>5, <2>1
  <2>4. file' \in [Table -> FileState]
    BY <1>0, <1>2, <2>1
  <2>5. final \in SUBSET SourceRun /\ resumed \in BOOLEAN
    BY DEF Visible
  <2>6. /\ pass' \in PassState /\ pass'.at = "page" /\ pass'.table = "parents"
        /\ pass'.settled = final
    <3> HIDE DEF final, resumed
    <3> QED
      BY <1>0, <2>2, <2>5 DEF PassState, PassAt
  <2>7. pass'.resumed = resumed
    <3> HIDE DEF final, resumed
    <3> QED
      BY <1>0, <2>2, <2>5 DEF PassState
  <2>8. PassOK' /\ MigrationTypeOK'
    BY <1>0, <1>3, <1>4, <2>4, <2>6 DEF PassOK, PassState, MigrationTypeOK, FileState
  <2>9. PassFitsFile' /\ PageFits' /\ DueIsCopied' /\ RescanSettles'
    <3>1. ParentsFile'.status = "running" /\ file'["parents"].status = "running"
      BY <1>2, <2>3 DEF ParentsFile
    <3> QED
      BY <1>4, <2>6, <3>1 DEF PassFitsFile, PageFits, DueIsCopied, RescanSettles, AtWork
  <2>10. \A p \in Owed' : /\ p \in Visible
                          /\ source[p].at + LateBy < SecondOf(s.upper) \/ ~resumed
    BY <1>4, <2>3, <2>7 DEF Owed, SecondOf
  <2>11. ASSUME NEW p \in Owed' PROVE Position(p) <= s.upper /\ (Position(p) <= s.cursor => There(p))
    <3>1. CASE resumed
      <4>1. p \in Owed
        BY <1>2, <2>10, <3>1 DEF Owed
      <4>2. Position(p) < s.upper /\ Position(p) \in Nat /\ s.upper \in Int
        BY <1>2, <2>10, <3>1, CreatedBeforeCursor DEF FileState
      <4>3. Position(p) <= s.upper
        BY <4>2
      <4> QED
        BY <1>2, <3>1, <4>1, <4>3 DEF OwedIsCopied, MigrationIInv
    <3>2. CASE ~resumed
      BY <1>2, <2>10, <3>2
    <3> QED
      BY <3>1, <3>2
  <2>12. OwedIsCopied'
    <3>1. pass'.at = "page" /\ pass'.table = "parents" /\ ParentsFile'.upper = s.upper
          /\ ParentsFile'.cursor = s.cursor
      BY <2>3, <2>6
    <3>2. \A p \in Owed' : Position(p)' <= ParentsFile'.upper
                           /\ (Position(p)' <= ParentsFile'.cursor => There(p)')
      BY <1>4, <2>11, <3>1 DEF There
    <3> QED
      BY <3>1, <3>2 DEF OwedIsCopied
  <2>13. NoOrphans'
    BY <1>4 DEF NoOrphans, MigrationIInv
  <2> QED
    BY <2>3, <2>8, <2>9, <2>12, <2>13 DEF MigrationIInv
<1> QED
  BY <1>6, <1>7


\* A pass opens the children: what is due is what it has to read.
LEMMA OpenChildrenKeeps ==
  ASSUME MigrationIInv, OpenTable, pass.table = "children"
  PROVE  MigrationIInv'
<1>0. /\ pass \in PassState /\ file \in [Table -> FileState] /\ State = file["children"]
      /\ due \subseteq Child /\ sourceKids \subseteq Child
      /\ TimesOK /\ CursorClaimsTarget /\ MigrationTypeOK /\ OwedIsCopied
      /\ "children" \in Table /\ "parents" \in Table /\ State \in FileState
      /\ pass.at = "open" /\ pass.settled = {} /\ ParentsFile \in FileState
  BY TypesOfMigration DEF State, Table, MigrationIInv, PassFitsFile, OpenTable
<1>1. PICK s : s = OpeningState
  OBVIOUS
<1>2. PICK u \in Int : u = UpperWatermark("children")
  BY <1>0, Watermark
<1>3. /\ s \in FileState /\ s.status = "running"
      /\ State.status \notin {"running", "failed"} => s.cursor = Null
  <2>1. CASE State.status \in {"running", "failed"}
    <3>1. s = [State EXCEPT !.status = "running"]
      BY <1>1, <2>1 DEF OpeningState
    <3> QED
      BY <1>0, <2>1, <3>1 DEF FileState
  <2>2. CASE State.status \notin {"running", "failed"}
    <3>1. s = [status |-> "running", cursor |-> Null, overlap |-> Null, upper |-> u]
      BY <1>0, <1>1, <1>2, <2>2 DEF OpeningState
    <3> QED
      BY <3>1 DEF FileState, Null
  <2> QED
    BY <2>1, <2>2
<1>4. UNCHANGED <<sourceVars, targetVars>>
  BY DEF OpenTable
<1>5. clock' = clock /\ source' = source /\ sourceKids' = sourceKids /\ Visible' = Visible
      /\ (\A p : Position(p)' = Position(p)) /\ target' = target /\ targetKids' = targetKids
  BY <1>4, SourceIsStill DEF targetVars
<1>6. PICK resumed \in BOOLEAN : resumed = (State.status \in {"running", "failed"})
  <2>1. (State.status \in {"running", "failed"}) \in BOOLEAN
    OBVIOUS
  <2> QED
    BY <2>1, Zenon
<1>7. due' = IF ~resumed THEN Selection("children", Null, s.upper) ELSE due
  BY <1>1, <1>6 DEF OpenTable
<1>8. \A c \in Selection("children", Null, s.upper) :
         /\ c \in sourceKids /\ ForeignKey[c] \in ChosenParents(ParentsFile)
         /\ Between(Null, c, s.upper)
  BY DEF Selection, ParentsFile
<1>9. due' \subseteq Child
  BY <1>0, <1>7, <1>8
<1>10. ASSUME NEW f \in FileState, file' = [file EXCEPT !["children"] = f]
       PROVE  /\ TimesOK' /\ CursorClaimsTarget' /\ UNCHANGED ParentsFile
              /\ file' \in [Table -> FileState] /\ file'["children"] = f
  <2>1. UNCHANGED ParentsFile
    BY <1>0, <1>10 DEF ParentsFile
  <2>2. TimesOK'
    BY <1>0, <1>5, <2>1 DEF TimesOK, SecondOf
  <2>3. CursorClaimsTarget'
    BY <1>0, <1>5, <2>1 DEF CursorClaimsTarget, SecondOf, ParentsFile
  <2> QED
    BY <1>0, <1>10, <2>1, <2>2, <2>3
<1>11. CASE s.upper = Null
  <2>1. PICK f : f = [s EXCEPT !.status = "completed"]
    OBVIOUS
  <2>2. file' = [file EXCEPT !["children"] = f] /\ pass' = NextTable
    BY <1>0, <1>1, <1>11, <2>1 DEF OpenTable, SetState
  <2>3. f \in FileState
    BY <1>3, <2>1 DEF FileState
  <2>4. TimesOK' /\ CursorClaimsTarget' /\ UNCHANGED ParentsFile /\ file' \in [Table -> FileState]
    BY <1>10, <2>2, <2>3
  <2>5. pass' \in PassState /\ pass'.settled = {} /\ pass'.at \in {"idle", "open"}
    BY <1>0, <2>2, NextTableIsState
  <2> QED
    BY <1>4, <1>9, <2>4, <2>5, RestsKeepMigration
<1>12. CASE s.upper # Null
  <2>1. file' = [file EXCEPT !["children"] = s]
    BY <1>0, <1>1, <1>12 DEF OpenTable, SetState
  <2>2. pass' = [pass EXCEPT !.at = "page", !.resumed = resumed, !.settled = {}]
    <3>1. pass' = [pass EXCEPT !.at = "page", !.resumed = State.status \in {"running", "failed"},
                      !.settled = {p \in Visible : ~(pass.table = "children") /\ source[p].status = "done"}]
      BY <1>1, <1>12 DEF OpenTable
    <3>2. {p \in Visible : ~(pass.table = "children") /\ source[p].status = "done"} = {}
      OBVIOUS
    <3> QED
      BY <1>6, <3>1, <3>2, Zenon
  <2>3. TimesOK' /\ CursorClaimsTarget' /\ UNCHANGED ParentsFile
        /\ file' \in [Table -> FileState] /\ file'["children"] = s
    BY <1>3, <1>10, <2>1
  <2>4. /\ pass' \in PassState /\ pass'.at = "page" /\ pass'.table = "children"
        /\ pass'.settled = {}
    BY <1>0, <2>2 DEF PassState, PassAt
  <2>5. pass'.resumed = resumed
    BY <1>0, <2>2 DEF PassState
  <2>6. PassOK' /\ MigrationTypeOK'
    BY <1>0, <1>5, <1>9, <2>3, <2>4 DEF PassOK, PassState, MigrationTypeOK, FileState
  <2>7. PassFitsFile' /\ PageFits' /\ RescanSettles'
    BY <1>3, <2>3, <2>4 DEF PassFitsFile, PageFits, RescanSettles, AtWork
  <2>8. OwedIsCopied'
    <3>1. Owed' \subseteq Owed
      BY <1>5, <2>3, <2>4 DEF Owed, SecondOf
    <3>2. ASSUME NEW p \in Owed' PROVE Position(p) <= ParentsFile.upper
      <4>1. p \in Visible /\ source[p].at + LateBy < SecondOf(ParentsFile.upper)
        BY <1>5, <2>3, <2>4, <3>2 DEF Owed, SecondOf
      <4>2. ParentsFile.upper \in Int
        BY <1>0 DEF FileState
      <4>3. Position(p) < ParentsFile.upper /\ Position(p) \in Nat
        BY <4>1, <4>2, CreatedBeforeCursor
      <4> QED
        BY <4>2, <4>3
    <3>3. \A p \in Owed' : Position(p)' <= ParentsFile'.upper
      BY <1>5, <2>3, <3>2
    <3>4. ParentsFile'.status \in {"running", "failed"} =>
            \A p \in Owed' : Position(p)' <= ParentsFile'.cursor => There(p)'
      BY <1>0, <1>5, <2>3, <3>1 DEF OwedIsCopied, There
    <3> QED
      BY <2>4, <3>3, <3>4 DEF OwedIsCopied
  <2>9. NoOrphans'
    BY <1>5 DEF NoOrphans, MigrationIInv
  <2>10. DueIsCopied'
    <3>1. CASE ~resumed
      <4>1. State' = s
        BY <2>3, <2>4 DEF State
      <4>2. ChosenParents(ParentsFile)' = ChosenParents(ParentsFile)
        BY <1>5, <2>3 DEF ChosenParents
      <4>3. s.cursor = Null
        BY <1>3, <1>6, <3>1
      <4>4. \A c \in due' : /\ c \in sourceKids' /\ ForeignKey[c] \in ChosenParents(ParentsFile)'
                            /\ Between(State.cursor, c, State.upper)'
        BY <1>5, <1>7, <1>8, <3>1, <4>1, <4>2, <4>3 DEF Between
      <4> QED
        BY <2>4, <4>4 DEF DueIsCopied
    <3>2. CASE resumed
      BY <2>5, <3>2 DEF DueIsCopied
    <3> QED
      BY <3>1, <3>2
  <2> QED
    BY <2>3, <2>6, <2>7, <2>8, <2>9, <2>10 DEF MigrationIInv
<1> QED
  BY <1>11, <1>12

\* Within a table, a pass reads and copies what its state file and its beginning say.
LEMMA WorkKeepsMigration ==
  ASSUME MigrationIInv, UNCHANGED <<sourceVars, file, due>>, pass.at \in AtWork,
         pass' \in PassState, pass'.at \in AtWork,
         pass'.table = pass.table, pass'.resumed = pass.resumed, pass'.settled = pass.settled,
         target' \in [SourceRun -> {"absent", "running", "done"}], targetKids' \subseteq Child,
         \A p \in SourceRun : There(p) => There(p)',
         targetKids \subseteq targetKids',
         pass'.at \in {"rescan", "reread", "reapply"} => pass.table = "parents",
         PageFits', RescanSettles', NoOrphans',
         pass.table = "parents" /\ pass'.at = "apply" =>
             \A p \in Owed : There(p)' \/ p \in DOMAIN pass'.page \/ BehindPage(p)',
         pass.table = "parents" /\ pass'.at = "save" => \A p \in Owed : There(p)' \/ BehindPage(p)',
         pass.table = "parents" /\ pass'.at \in {"rescan", "reread", "reapply", "close"} =>
             \A p \in Owed : There(p)',
         pass.table = "children" /\ ~pass.resumed => \A c \in due :
             /\ pass'.at = "apply" => c \in targetKids' \/ c \in DOMAIN pass'.page \/ BehindKids(c)'
             /\ pass'.at = "save" => c \in targetKids' \/ BehindKids(c)'
             /\ pass'.at = "close" => c \in targetKids'
  PROVE  MigrationIInv'
<1> USE DEF MigrationIInv
<1>1. /\ clock' = clock /\ source' = source /\ sourceKids' = sourceKids /\ Visible' = Visible
      /\ (\A p : Position(p)' = Position(p)) /\ file' = file /\ due' = due
      /\ UNCHANGED ParentsFile /\ UNCHANGED State
  BY SourceIsStill DEF ParentsFile, State
<1>2. PassOK' /\ MigrationTypeOK'
  BY <1>1 DEF PassOK, PassState, MigrationTypeOK
<1>3. TimesOK'
  BY <1>1 DEF TimesOK, SecondOf
<1>4. PassFitsFile'
  BY <1>1 DEF PassFitsFile, AtWork
<1>5. CursorClaimsTarget'
  <2>1. \A p \in Visible : p \in SourceRun
    BY DEF Visible
  <2> QED
    BY <1>1, <2>1 DEF CursorClaimsTarget, SecondOf, There
<1>6. Owed' = Owed /\ Owed \subseteq SourceRun
  BY <1>1 DEF Owed, SecondOf, Visible
<1>7. OwedIsCopied'
  <2>1. /\ \A p \in Owed' : Position(p)' <= ParentsFile'.upper
        /\ ParentsFile'.status \in {"running", "failed"} =>
             \A p \in Owed' : Position(p)' <= ParentsFile'.cursor => There(p)'
    BY <1>1, <1>6 DEF OwedIsCopied
  <2> QED
    BY <1>6, <2>1 DEF OwedIsCopied
<1>8. DueIsCopied'
  <2>1. ChosenParents(ParentsFile)' = ChosenParents(ParentsFile)
    BY <1>1 DEF ChosenParents
  <2>2. pass.table = "children" /\ ~pass.resumed => \A c \in due :
          /\ c \in sourceKids' /\ ForeignKey[c] \in ChosenParents(ParentsFile)'
          /\ c \in targetKids' \/ Between(State.cursor, c, State.upper)'
    BY <1>1, <2>1 DEF DueIsCopied, Between
  <2> QED
    BY <1>1, <2>2 DEF DueIsCopied
<1> QED
  BY <1>2, <1>3, <1>4, <1>5, <1>7, <1>8


\* What a page is read as: rows of the table as they are.
LEMMA PageAsRead ==
  ASSUME MigrationIInv, NEW t \in Table,
         NEW few, t = "parents" => few \subseteq Visible, t = "children" => few \subseteq Child,
         NEW read, read = AsRead(t, few)
  PROVE  /\ read \in PageRows /\ DOMAIN read = few
         /\ t = "parents" => \A p \in few : source[p].status = "done" => read[p] = "done"
<1>1. read = [x \in few |-> IF t = "parents" THEN source[x].status ELSE "done"]
  BY DEF AsRead
<1>2. \A x \in few : t = "parents" => source[x].status \in {"running", "done"}
  BY DEF Visible
<1>3. read \in [few -> {"running", "done"}] /\ DOMAIN read = few
  BY <1>1, <1>2
<1>4. few \subseteq SourceRun \cup Child
  BY DEF Table, Visible
<1> QED
  BY <1>1, <1>3, <1>4 DEF PageRows

LEMMA ReadPageKeeps ==
  ASSUME MigrationIInv, ReadPage
  PROVE  MigrationIInv'
<1>0. /\ pass \in PassState /\ State \in FileState /\ ParentsFile \in FileState
      /\ due \subseteq Child /\ sourceKids \subseteq Child /\ pass.at = "page"
      /\ MigrationTypeOK /\ OwedIsCopied /\ DueIsCopied /\ RescanSettles /\ NoOrphans /\ PassFitsFile
      /\ target \in [SourceRun -> {"absent", "running", "done"}] /\ targetKids \subseteq Child
      /\ IsFiniteSet(SourceRun) /\ IsFiniteSet(Child) /\ Child \subseteq Nat
      /\ pass.table \in Table /\ pass.at \in AtWork
  BY TypesOfMigration DEF MigrationIInv, ReadPage, PassState, AtWork
<1>1. PICK S : S = Selection(pass.table, State.cursor, State.upper)
  OBVIOUS
<1>2. PICK few : few = FirstPage(pass.table, S)
  OBVIOUS
<1>3. PICK read : read = AsRead(pass.table, few)
  OBVIOUS
<1>4. pass' = IF few = {}
              THEN [pass EXCEPT !.at = IF pass.table = "parents" THEN "rescan" ELSE "close"]
              ELSE [pass EXCEPT !.at = "apply", !.page = read]
  BY <1>1, <1>2, <1>3 DEF ReadPage
<1>5. /\ UNCHANGED <<sourceVars, file, due>> /\ target' = target /\ targetKids' = targetKids
      /\ source' = source /\ Visible' = Visible /\ (\A p : Position(p)' = Position(p))
      /\ UNCHANGED ParentsFile
  BY SourceIsStill DEF ReadPage, targetVars, ParentsFile
<1>6. /\ pass.table = "parents" =>
           /\ State = ParentsFile
           /\ S = {p \in Visible : Between(ParentsFile.cursor, Position(p), ParentsFile.upper)}
      /\ pass.table # "parents" =>
           /\ pass.table = "children"
           /\ S = {c \in sourceKids : /\ Between(State.cursor, c, State.upper)
                                      /\ ForeignKey[c] \in ChosenParents(ParentsFile)}
  BY <1>0, <1>1 DEF Selection, State, ParentsFile, Table
<1>7. \A p \in Visible : Position(p) \in Nat /\ p \in SourceRun
  BY <1>0, PositionsSeen DEF Visible
<1>8. IsFiniteSet(S) /\ \A x \in S : PositionIn(pass.table, x) \in Nat
  <2>1. CASE pass.table = "parents"
    <3>1. S \in SUBSET SourceRun
      BY <1>6, <1>7, <2>1
    <3>2. IsFiniteSet(S)
      BY <1>0, <3>1, FS_Subset
    <3> QED
      BY <1>6, <1>7, <2>1, <3>2 DEF PositionIn
  <2>2. CASE pass.table # "parents"
    <3>1. S \in SUBSET Child
      BY <1>0, <1>6, <2>2
    <3>2. IsFiniteSet(S)
      BY <1>0, <3>1, FS_Subset
    <3> QED
      BY <1>0, <2>2, <3>1, <3>2 DEF PositionIn
  <2> QED
    BY <2>1, <2>2
<1>9. /\ few \subseteq S
      /\ few = {} => S = {}
      /\ \A x \in S, y \in few : PositionIn(pass.table, x) <= PositionIn(pass.table, y) => x \in few
  BY <1>2, <1>8, PagesHaveTheFirst
<1>10. /\ pass.table = "parents" => few \subseteq Visible
       /\ pass.table = "children" => few \subseteq Child
  BY <1>0, <1>6, <1>9
<1>11. /\ read \in PageRows /\ DOMAIN read = few
       /\ pass.table = "parents" => \A p \in few : source[p].status = "done" => read[p] = "done"
  BY <1>0, <1>3, <1>10, PageAsRead
<1>12. ASSUME NEW p \in Owed, pass.table = "parents", ~There(p)
       PROVE  p \in S
  <2>1. p \in Visible /\ Position(p) <= ParentsFile.upper /\ Position(p) \in Nat
    BY <1>0, <1>7 DEF Owed, OwedIsCopied
  <2>2. ParentsFile.status = "running"
    BY <1>0, <1>12 DEF PassFitsFile, ParentsFile
  <2>3. ~(Position(p) <= ParentsFile.cursor)
    BY <1>0, <1>12, <2>2 DEF OwedIsCopied
  <2>4. ParentsFile.cursor \in Int
    BY <1>0 DEF FileState
  <2>5. ParentsFile.cursor < Position(p)
    BY <2>1, <2>3, <2>4
  <2> QED
    BY <1>6, <1>12, <2>1, <2>5 DEF Between
<1>13. ASSUME NEW c \in due, pass.table = "children", ~pass.resumed, c \notin targetKids
       PROVE  c \in S
  BY <1>0, <1>6, <1>13 DEF DueIsCopied
<1>14. CASE few = {}
  <2>1. S = {}
    BY <1>9, <1>14
  <2>2. pass' = [pass EXCEPT !.at = IF pass.table = "parents" THEN "rescan" ELSE "close"]
    BY <1>4, <1>14
  <2>3. /\ pass' \in PassState /\ pass'.at = IF pass.table = "parents" THEN "rescan" ELSE "close"
        /\ pass'.table = pass.table /\ pass'.resumed = pass.resumed /\ pass'.settled = pass.settled
    BY <1>0, <2>2 DEF PassState, PassAt
  <2>4. pass'.at \in {"rescan", "close"} /\ pass'.at \in AtWork
        /\ (pass'.at = "rescan" <=> pass.table = "parents")
    BY <2>3 DEF AtWork
  <2>5. PageFits' /\ RescanSettles' /\ NoOrphans'
    BY <1>0, <1>5, <2>3, <2>4 DEF PageFits, RescanSettles, NoOrphans
  <2>6. \A p \in Owed : pass.table = "parents" => There(p)'
    BY <1>5, <1>12, <2>1 DEF There
  <2>7. \A c \in due : pass.table = "children" /\ ~pass.resumed => c \in targetKids'
    BY <1>5, <1>13, <2>1
  <2>8. \A p \in SourceRun : There(p) => There(p)'
    BY <1>5 DEF There
  <2>9. UNCHANGED <<sourceVars, file, due>> /\ targetKids \subseteq targetKids'
        /\ target' \in [SourceRun -> {"absent", "running", "done"}] /\ targetKids' \subseteq Child
    BY <1>0, <1>5
  <2> QED
    BY <1>0, <2>3, <2>4, <2>5, <2>6, <2>7, <2>8, <2>9, WorkKeepsMigration
<1>15. CASE few # {}
  <2>2. pass' = [pass EXCEPT !.at = "apply", !.page = read]
    BY <1>4, <1>15
  <2>3. /\ pass' \in PassState /\ pass'.at = "apply" /\ pass'.page = read
        /\ pass'.table = pass.table /\ pass'.resumed = pass.resumed /\ pass'.settled = pass.settled
    BY <1>0, <1>11, <2>2 DEF PassState, PassAt
  <2>4. pass'.at \in AtWork
    BY <2>3 DEF AtWork
  <2>5. PageFits'
    <3>1. pass.table = "parents" => \A p \in few : Position(p) <= ParentsFile.upper
      BY <1>6, <1>9 DEF Between
    <3>2. pass.table = "parents" => \A p \in few : p \in pass.settled => read[p] = "done"
      BY <1>0, <1>11 DEF RescanSettles
    <3> QED
      BY <1>5, <1>10, <1>11, <1>15, <2>3, <3>1, <3>2 DEF PageFits
  <2>6. RescanSettles' /\ NoOrphans'
    BY <1>0, <1>5, <2>3 DEF RescanSettles, NoOrphans
  <2>7. ASSUME NEW p \in Owed, pass.table = "parents"
        PROVE  There(p)' \/ p \in DOMAIN pass'.page \/ BehindPage(p)'
    <3>1. CASE There(p)
      BY <1>5, <3>1 DEF There
    <3>2. CASE ~There(p) /\ p \notin few
      <4>1. p \in S /\ Position(p) \in Nat
        BY <1>7, <1>12, <2>7, <3>2 DEF Owed
      <4>2. ASSUME NEW y \in few PROVE Position(y) < Position(p)
        <5>1. ~(Position(p) <= Position(y))
          BY <1>9, <2>7, <3>2, <4>1 DEF PositionIn
        <5>2. Position(y) \in Nat
          BY <1>7, <1>10, <2>7
        <5> QED
          BY <4>1, <5>1, <5>2
      <4> QED
        BY <1>5, <1>11, <2>3, <4>2 DEF BehindPage
    <3> QED
      BY <1>11, <2>3, <3>1, <3>2
  <2>8. ASSUME NEW c \in due, pass.table = "children", ~pass.resumed
        PROVE  c \in targetKids' \/ c \in DOMAIN pass'.page \/ BehindKids(c)'
    <3>1. CASE c \in targetKids
      BY <1>5, <3>1
    <3>2. CASE c \notin targetKids /\ c \notin few
      <4>1. c \in S
        BY <1>13, <2>8, <3>2
      <4>2. ASSUME NEW y \in few PROVE y < c
        <5>1. ~(c <= y)
          BY <1>9, <2>8, <3>2, <4>1 DEF PositionIn
        <5>2. y \in Nat /\ c \in Nat
          BY <1>0, <1>10, <2>8
        <5> QED
          BY <5>1, <5>2
      <4> QED
        BY <1>11, <2>3, <4>2 DEF BehindKids
    <3> QED
      BY <1>11, <2>3, <3>1, <3>2
  <2>9. \A p \in SourceRun : There(p) => There(p)'
    BY <1>5 DEF There
  <2>10. UNCHANGED <<sourceVars, file, due>> /\ targetKids \subseteq targetKids'
         /\ target' \in [SourceRun -> {"absent", "running", "done"}] /\ targetKids' \subseteq Child
    BY <1>0, <1>5
  <2> QED
    BY <1>0, <2>3, <2>4, <2>5, <2>6, <2>7, <2>8, <2>9, <2>10, WorkKeepsMigration
<1> QED
  BY <1>14, <1>15


\* The upserts of a page: its rows are there, and others stay as they are.
LEMMA UpsertsOfPages ==
  ASSUME MigrationIInv, PageUpserted, pass.at \in {"apply", "reapply"}
  PROVE  /\ target' \in [SourceRun -> {"absent", "running", "done"}] /\ targetKids' \subseteq Child
         /\ targetKids \subseteq targetKids'
         /\ \A p \in SourceRun : There(p) => There(p)'
         /\ pass.table = "parents" =>
              /\ targetKids' = targetKids
              /\ \A p \in SourceRun : target'[p] = IF p \in DOMAIN pass.page THEN pass.page[p] ELSE target[p]
              /\ \A p \in DOMAIN pass.page : p \in SourceRun /\ There(p)'
         /\ pass.table = "children" =>
              target' = target /\ targetKids' = targetKids \cup DOMAIN pass.page
<1>0. /\ pass \in PassState /\ target \in [SourceRun -> {"absent", "running", "done"}]
      /\ targetKids \subseteq Child /\ PageFits /\ PassFitsFile /\ pass.table \in Table
  BY TypesOfMigration DEF MigrationIInv, PassState
<1>1. \A x \in DOMAIN pass.page : pass.page[x] \in {"running", "done"}
  <2>1. pass.page \in PageRows
    BY <1>0 DEF PassState
  <2>2. PICK S : pass.page \in [S -> {"running", "done"}]
    BY <2>1 DEF PageRows
  <2> QED
    BY <2>2
<1>2. CASE pass.table = "parents"
  <2>1. target' = [p \in SourceRun |-> IF p \in DOMAIN pass.page THEN pass.page[p] ELSE target[p]]
        /\ targetKids' = targetKids
    BY <1>2 DEF PageUpserted
  <2>2. \A p \in DOMAIN pass.page : p \in SourceRun
    BY <1>0, <1>2 DEF PageFits, Visible
  <2>3. \A p \in SourceRun : target'[p] = IF p \in DOMAIN pass.page THEN pass.page[p] ELSE target[p]
    BY <2>1
  <2>4. target' \in [SourceRun -> {"absent", "running", "done"}]
    BY <1>0, <1>1, <2>1
  <2>5. \A p \in DOMAIN pass.page : target'[p] \in {"running", "done"}
    BY <1>1, <2>2, <2>3
  <2>6. \A p \in SourceRun : There(p) => There(p)'
    BY <2>3, <2>5 DEF There
  <2>7. \A p \in DOMAIN pass.page : p \in SourceRun /\ There(p)'
    BY <2>2, <2>5 DEF There
  <2> QED
    BY <1>0, <1>2, <2>1, <2>3, <2>4, <2>6, <2>7
<1>3. CASE pass.table # "parents"
  <2>1. targetKids' = targetKids \cup DOMAIN pass.page /\ target' = target /\ pass.table = "children"
    BY <1>0, <1>3 DEF PageUpserted, Table
  <2>2. pass.at = "apply"
    BY <1>0, <1>3 DEF PassFitsFile
  <2>3. DOMAIN pass.page \subseteq Child
    BY <1>0, <2>1, <2>2 DEF PageFits
  <2> QED
    BY <1>0, <1>3, <2>1, <2>3 DEF There
<1> QED
  BY <1>2, <1>3

LEMMA ApplyPageKeeps ==
  ASSUME MigrationIInv, ApplyPage
  PROVE  MigrationIInv'
<1>0. /\ pass \in PassState /\ pass.at = "apply" /\ pass.at \in AtWork /\ pass.table \in Table
      /\ PageFits /\ OwedIsCopied /\ RescanSettles /\ NoOrphans /\ DueIsCopied /\ ForeignKey \in [Child -> SourceRun]
      /\ targetKids \subseteq Child
  BY TypesOfMigration DEF MigrationIInv, ApplyPage, PassState, AtWork
<1>1. /\ target' \in [SourceRun -> {"absent", "running", "done"}] /\ targetKids' \subseteq Child
      /\ targetKids \subseteq targetKids'
      /\ \A p \in SourceRun : There(p) => There(p)'
      /\ pass.table = "parents" =>
           /\ targetKids' = targetKids
           /\ \A p \in DOMAIN pass.page : p \in SourceRun /\ There(p)'
      /\ pass.table = "children" =>
           target' = target /\ targetKids' = targetKids \cup DOMAIN pass.page
  BY <1>0, UpsertsOfPages DEF ApplyPage
<1>2. UNCHANGED <<sourceVars, file, due>> /\ pass' = [pass EXCEPT !.at = "save"]
  BY DEF ApplyPage, PassGoes
<1>3. Visible' = Visible /\ (\A p : Position(p)' = Position(p)) /\ UNCHANGED ParentsFile
      /\ source' = source
  BY <1>2, SourceIsStill DEF ParentsFile
<1>4. /\ pass' \in PassState /\ pass'.at = "save" /\ pass'.page = pass.page
      /\ pass'.table = pass.table /\ pass'.resumed = pass.resumed /\ pass'.settled = pass.settled
  BY <1>0, <1>2 DEF PassState, PassAt
<1>5. pass'.at \in AtWork
  BY <1>4 DEF AtWork
<1>6. PageFits'
  BY <1>0, <1>3, <1>4 DEF PageFits
<1>7. RescanSettles'
  BY <1>0, <1>3, <1>4 DEF RescanSettles
<1>8. NoOrphans'
  <2>1. ASSUME NEW c \in targetKids' PROVE There(ForeignKey[c])'
    <3>1. CASE c \in targetKids
      <4>1. There(ForeignKey[c]) /\ ForeignKey[c] \in SourceRun
        BY <1>0, <3>1 DEF NoOrphans, There
      <4> QED
        BY <1>1, <4>1
    <3>2. CASE c \notin targetKids
      <4>1. pass.table = "children" /\ c \in DOMAIN pass.page /\ target' = target
        BY <1>0, <1>1, <2>1, <3>2 DEF Table
      <4>2. There(ForeignKey[c])
        BY <4>1 DEF ApplyPage, ParentsThere, There
      <4> QED
        BY <4>1, <4>2 DEF There
    <3> QED
      BY <3>1, <3>2
  <2> QED
    BY <2>1 DEF NoOrphans, There
<1>9. ASSUME NEW p \in Owed, pass.table = "parents"
      PROVE  There(p)' \/ BehindPage(p)'
  <2>1. There(p) \/ p \in DOMAIN pass.page \/ BehindPage(p)
    BY <1>0, <1>9 DEF OwedIsCopied
  <2>2. BehindPage(p) => BehindPage(p)'
    BY <1>3, <1>4 DEF BehindPage
  <2>3. p \in SourceRun
    BY DEF Owed, Visible
  <2> QED
    BY <1>1, <1>9, <2>1, <2>2, <2>3
<1>10. ASSUME NEW c \in due, pass.table = "children", ~pass.resumed
       PROVE  c \in targetKids' \/ BehindKids(c)'
  <2>1. c \in targetKids \/ c \in DOMAIN pass.page \/ BehindKids(c)
    BY <1>0, <1>10 DEF DueIsCopied
  <2>2. BehindKids(c) => BehindKids(c)'
    BY <1>4 DEF BehindKids
  <2> QED
    BY <1>1, <1>10, <2>1, <2>2
<1> QED
  BY <1>0, <1>1, <1>2, <1>4, <1>5, <1>6, <1>7, <1>8, <1>9, <1>10, WorkKeepsMigration

LEMMA RetryPageKeeps ==
  ASSUME MigrationIInv, RetryPage
  PROVE  MigrationIInv'
<1>0. /\ pass \in PassState /\ pass.at = "apply" /\ pass.at \in AtWork
      /\ PageFits /\ OwedIsCopied /\ RescanSettles /\ NoOrphans /\ DueIsCopied
      /\ target \in [SourceRun -> {"absent", "running", "done"}] /\ targetKids \subseteq Child
  BY TypesOfMigration DEF MigrationIInv, RetryPage, AtWork
<1>1. pass.tries + 1 \in 0..MaxRetries
  BY <1>0, MigrationAssumption DEF RetryPage, RetriesLeft, PassState
<1>2. UNCHANGED <<sourceVars, targetVars, file, due>> /\ pass' = [pass EXCEPT !.tries = pass.tries + 1]
  BY DEF RetryPage
<1>3. Visible' = Visible /\ (\A p : Position(p)' = Position(p)) /\ UNCHANGED ParentsFile
      /\ source' = source /\ target' = target /\ targetKids' = targetKids
  BY <1>2, SourceIsStill DEF ParentsFile, targetVars
<1>4. /\ pass' \in PassState /\ pass'.at = "apply" /\ pass'.page = pass.page
      /\ pass'.table = pass.table /\ pass'.resumed = pass.resumed /\ pass'.settled = pass.settled
      /\ pass'.ids = pass.ids
  BY <1>0, <1>1, <1>2 DEF PassState, PassAt
<1>5. PageFits' /\ RescanSettles' /\ NoOrphans'
  BY <1>0, <1>3, <1>4 DEF PageFits, RescanSettles, NoOrphans
<1>6. \A p : (There(p) => There(p)') /\ (BehindPage(p) => BehindPage(p)') /\ (BehindKids(p) => BehindKids(p)')
  BY <1>3, <1>4 DEF There, BehindPage, BehindKids
<1>7. pass.table = "parents" => \A p \in Owed : There(p)' \/ p \in DOMAIN pass'.page \/ BehindPage(p)'
  BY <1>0, <1>4, <1>6 DEF OwedIsCopied
<1>8. pass.table = "children" /\ ~pass.resumed =>
        \A c \in due : c \in targetKids' \/ c \in DOMAIN pass'.page \/ BehindKids(c)'
  BY <1>0, <1>3, <1>4, <1>6 DEF DueIsCopied
<1>9. pass'.at \in AtWork /\ targetKids \subseteq targetKids' /\ targetKids' \subseteq Child
      /\ target' \in [SourceRun -> {"absent", "running", "done"}]
  BY <1>0, <1>3, <1>4
<1> QED
  BY <1>0, <1>2, <1>4, <1>5, <1>6, <1>7, <1>8, <1>9, WorkKeepsMigration

\* The rescan, from the ids it begins with to the last of its pages.
LEMMA RescanKeeps ==
  ASSUME MigrationIInv, RescanIds \/ RescanRead \/ RescanApply
  PROVE  MigrationIInv'
<1>0. /\ pass \in PassState /\ pass.at \in {"rescan", "reread", "reapply"} /\ pass.at \in AtWork
      /\ pass.table = "parents" /\ "parents" \in Table
      /\ PageFits /\ OwedIsCopied /\ RescanSettles /\ NoOrphans /\ targetKids \subseteq Child
      /\ target \in [SourceRun -> {"absent", "running", "done"}]
      /\ ForeignKey \in [Child -> SourceRun]
  BY TypesOfMigration DEF MigrationIInv, RescanIds, RescanRead, RescanApply, AtWork, PassFitsFile, Table
<1>1. /\ UNCHANGED <<sourceVars, file, due>>
      /\ Visible' = Visible /\ (\A p : Position(p)' = Position(p)) /\ UNCHANGED ParentsFile
      /\ source' = source
  <2>1. UNCHANGED <<sourceVars, file, due>>
    BY DEF RescanIds, RescanRead, RescanApply
  <2> QED
    BY <2>1, SourceIsStill DEF ParentsFile
<1>2. ASSUME /\ pass' \in PassState /\ pass'.at \in {"reread", "reapply", "close"}
             /\ pass'.table = pass.table /\ pass'.resumed = pass.resumed /\ pass'.settled = pass.settled
             /\ target' \in [SourceRun -> {"absent", "running", "done"}]
             /\ targetKids' = targetKids
             /\ \A p \in SourceRun : There(p) => There(p)'
             /\ PageFits' /\ RescanSettles'
      PROVE  MigrationIInv'
  <2>1. NoOrphans'
    <3>1. \A c \in targetKids : There(ForeignKey[c]) /\ ForeignKey[c] \in SourceRun
      BY <1>0 DEF NoOrphans, There
    <3> QED
      BY <1>2, <3>1 DEF NoOrphans, There
  <2>2. \A p \in Owed : There(p)'
    <3>1. \A p \in Owed : There(p) /\ p \in SourceRun
      BY <1>0 DEF OwedIsCopied, Owed, Visible
    <3> QED
      BY <1>2, <3>1
  <2>3. pass'.at \in AtWork /\ targetKids \subseteq targetKids' /\ targetKids' \subseteq Child
    BY <1>0, <1>2 DEF AtWork
  <2> QED
    BY <1>0, <1>1, <1>2, <2>1, <2>2, <2>3, WorkKeepsMigration
<1>3. \A p \in pass.settled : p \in Visible
  BY <1>0 DEF RescanSettles, Visible, PassState
<1>4. CASE RescanIds
  <2>1. Nonterminal \subseteq Visible /\ Nonterminal \in SUBSET SourceRun
    BY DEF Nonterminal, Visible
  <2>2. pass' = [pass EXCEPT !.at = IF Nonterminal = {} THEN "close" ELSE "reread", !.ids = Nonterminal]
        /\ target' = target /\ targetKids' = targetKids
    BY <1>4 DEF RescanIds, targetVars
  <2>3. /\ pass' \in PassState /\ pass'.ids = Nonterminal
        /\ pass'.at = IF Nonterminal = {} THEN "close" ELSE "reread"
        /\ pass'.table = pass.table /\ pass'.resumed = pass.resumed /\ pass'.settled = pass.settled
    BY <1>0, <2>1, <2>2 DEF PassState, PassAt
  <2>4. PageFits'
    BY <1>1, <2>1, <2>3 DEF PageFits
  <2>5. \A p \in pass.settled : target[p] = "running" => p \in Nonterminal
    BY <1>3 DEF Nonterminal
  <2>6. RescanSettles'
    BY <1>0, <1>1, <2>2, <2>3, <2>5 DEF RescanSettles
  <2>7. \A p \in SourceRun : There(p) => There(p)'
    BY <2>2 DEF There
  <2> QED
    BY <1>0, <1>2, <2>2, <2>3, <2>4, <2>6, <2>7
<1>5. CASE RescanRead
  <2>1. pass.ids \subseteq Visible
    BY <1>0, <1>5 DEF PageFits, RescanRead
  <2>2. PICK few : few = FirstPage("parents", pass.ids)
    OBVIOUS
  <2>3. few \subseteq Visible
    BY <2>1, <2>2 DEF FirstPage
  <2>4. PICK read : read = AsRead("parents", few)
    OBVIOUS
  <2>5. read \in PageRows /\ DOMAIN read = few
        /\ \A p \in few : source[p].status = "done" => read[p] = "done"
    BY <1>0, <2>3, <2>4, PageAsRead
  <2>6. pass' = [pass EXCEPT !.at = "reapply", !.page = read] /\ target' = target /\ targetKids' = targetKids
    BY <1>5, <2>2, <2>4 DEF RescanRead, targetVars
  <2>7. /\ pass' \in PassState /\ pass'.ids = pass.ids /\ pass'.at = "reapply" /\ pass'.page = read
        /\ pass'.table = pass.table /\ pass'.resumed = pass.resumed /\ pass'.settled = pass.settled
    BY <1>0, <2>5, <2>6 DEF PassState, PassAt
  <2>8. PageFits'
    <3>1. \A p \in few : p \in pass.settled => read[p] = "done"
      BY <1>0, <2>5 DEF RescanSettles
    <3> QED
      BY <1>1, <2>1, <2>3, <2>5, <2>7, <3>1 DEF PageFits
  <2>9. RescanSettles'
    BY <1>0, <1>1, <1>5, <2>6, <2>7 DEF RescanSettles, RescanRead
  <2>10. \A p \in SourceRun : There(p) => There(p)'
    BY <2>6 DEF There
  <2> QED
    BY <1>0, <1>2, <2>6, <2>7, <2>8, <2>9, <2>10
<1>6. CASE RescanApply
  <2>0. pass.at = "reapply" /\ PageUpserted
    BY <1>6 DEF RescanApply
  <2>1. /\ target' \in [SourceRun -> {"absent", "running", "done"}]
        /\ targetKids' = targetKids
        /\ \A p \in SourceRun : There(p) => There(p)'
        /\ \A p \in SourceRun : target'[p] = IF p \in DOMAIN pass.page THEN pass.page[p] ELSE target[p]
    BY <1>0, <2>0, UpsertsOfPages
  <2>2. PICK left \in SUBSET SourceRun : left = pass.ids \ DOMAIN pass.page
    BY <1>0 DEF PassState
  <2>3. pass' = [pass EXCEPT !.at = IF left = {} THEN "close" ELSE "reread", !.ids = left, !.page = <<>>]
    BY <1>6, <2>2 DEF RescanApply
  <2>4. <<>> \in PageRows
    <3>1. <<>> \in [{} -> {"running", "done"}]
      OBVIOUS
    <3> QED
      BY <3>1 DEF PageRows
  <2>5. /\ pass' \in PassState /\ pass'.ids = left
        /\ pass'.at = IF left = {} THEN "close" ELSE "reread"
        /\ pass'.table = pass.table /\ pass'.resumed = pass.resumed /\ pass'.settled = pass.settled
    BY <1>0, <2>3, <2>4 DEF PassState, PassAt
  <2>6. PageFits'
    <3>1. left \subseteq Visible
      BY <1>0, <2>0, <2>2 DEF PageFits
    <3> QED
      BY <1>1, <2>5, <3>1 DEF PageFits
  <2>7. \A p \in pass.settled : target'[p] = "running" => p \in left
    <3>1. ASSUME NEW p \in pass.settled, target'[p] = "running" PROVE p \in left
      <4>1. p \in SourceRun
        BY <1>3 DEF Visible
      <4>2. p \notin DOMAIN pass.page
        <5>1. p \in DOMAIN pass.page => pass.page[p] = "done"
          BY <1>0, <2>0 DEF PageFits
        <5> QED
          BY <2>1, <3>1, <4>1, <5>1
      <4>3. target[p] = "running"
        BY <2>1, <3>1, <4>1, <4>2
      <4> QED
        BY <1>0, <2>0, <2>2, <4>2, <4>3 DEF RescanSettles
    <3> QED
      BY <3>1
  <2>8. RescanSettles'
    BY <1>0, <1>1, <2>5, <2>7 DEF RescanSettles
  <2> QED
    BY <1>0, <1>2, <2>1, <2>5, <2>6, <2>8
<1> QED
  BY <1>4, <1>5, <1>6


\* The cursor that is saved is the position of a row of the page.
LEMMA SavedCursor ==
  ASSUME MigrationIInv, pass.at = "save",
         NEW h, h = Highest({PositionIn(pass.table, x) : x \in DOMAIN pass.page})
  PROVE  /\ h \in Nat
         /\ pass.table = "parents" => \E x \in DOMAIN pass.page : x \in Visible /\ h = Position(x)
         /\ pass.table = "children" => h \in DOMAIN pass.page
<1> DEFINE S == {PositionIn(pass.table, x) : x \in DOMAIN pass.page}
<1>0. /\ PageFits /\ MigrationTypeOK /\ pass.table \in Table
      /\ IsFiniteSet(SourceRun) /\ IsFiniteSet(Child) /\ Child \subseteq Nat
  BY TypesOfMigration DEF MigrationIInv, PassState
<1>1. IsFiniteSet(DOMAIN pass.page) /\ S \in SUBSET Nat
  <2>1. CASE pass.table = "parents"
    <3>1. \A x \in DOMAIN pass.page : x \in Visible /\ x \in SourceRun
      BY <1>0, <2>1 DEF PageFits, Visible
    <3>2. DOMAIN pass.page \in SUBSET SourceRun
      BY <3>1
    <3>3. \A x \in DOMAIN pass.page : PositionIn(pass.table, x) \in Nat
      BY <1>0, <2>1, <3>1, PositionsSeen DEF PositionIn
    <3> QED
      BY <1>0, <3>2, <3>3, FS_Subset
  <2>2. CASE pass.table # "parents"
    <3>1. DOMAIN pass.page \in SUBSET Child
      BY <1>0, <2>2 DEF PageFits, Table
    <3>2. \A x \in DOMAIN pass.page : PositionIn(pass.table, x) \in Nat
      BY <1>0, <2>2, <3>1 DEF PositionIn
    <3> QED
      BY <1>0, <3>1, <3>2, FS_Subset
  <2> QED
    BY <2>1, <2>2
<1>2. IsFiniteSet(S)
  <2>1. PICK at : at = [x \in DOMAIN pass.page |-> PositionIn(pass.table, x)]
    OBVIOUS
  <2>2. at \in Surjection(DOMAIN pass.page, S)
    BY <2>1 DEF Surjection
  <2> HIDE DEF S
  <2> QED
    BY <1>1, <2>2, FS_Surjection
<1>3. S # {} /\ h = Highest(S)
  BY <1>0 DEF PageFits
<1>4. h \in S /\ h \in Nat
  <2> HIDE DEF S
  <2> QED
    BY <1>1, <1>2, <1>3, HighestIsOne
<1>5. PICK x \in DOMAIN pass.page : h = PositionIn(pass.table, x)
  BY <1>4
<1> QED
  BY <1>0, <1>4, <1>5 DEF PositionIn, PageFits

LEMMA SavePageKeeps ==
  ASSUME MigrationIInv, SavePage
  PROVE  MigrationIInv'
<1>0. /\ pass \in PassState /\ pass.at = "save" /\ pass.table \in Table
      /\ file \in [Table -> FileState] /\ State = file[pass.table] /\ State.status = "running"
      /\ State \in FileState /\ ParentsFile \in FileState /\ "parents" \in Table
      /\ MigrationTypeOK /\ TimesOK /\ PageFits /\ OwedIsCopied /\ RescanSettles /\ NoOrphans
      /\ DueIsCopied /\ PassFitsFile /\ CursorClaimsTarget
      /\ Child \subseteq Nat /\ due \subseteq Child
  BY TypesOfMigration DEF MigrationIInv, SavePage, PassState, State, PassFitsFile, AtWork, Table
<1>1. PICK h : h = Highest({PositionIn(pass.table, x) : x \in DOMAIN pass.page})
  OBVIOUS
<1>2. /\ h \in Nat
      /\ pass.table = "parents" => \E x \in DOMAIN pass.page : x \in Visible /\ h = Position(x)
      /\ pass.table = "children" => h \in DOMAIN pass.page
  BY <1>0, <1>1, SavedCursor
<1>3. PICK f : f = [State EXCEPT !.cursor = h]
  OBVIOUS
<1>4. f \in FileState /\ f.cursor = h /\ f.upper = State.upper /\ f.status = "running"
      /\ f.overlap = State.overlap
  BY <1>0, <1>2, <1>3 DEF FileState
<1>5. file' = [file EXCEPT ![pass.table] = f]
  BY <1>1, <1>3 DEF SavePage, SetState
<1>6. file' \in [Table -> FileState] /\ file'[pass.table] = f
  BY <1>0, <1>4, <1>5
<1>7. UNCHANGED <<sourceVars, targetVars, due>> /\ pass' = [pass EXCEPT !.at = "page", !.page = <<>>, !.tries = 0]
  BY DEF SavePage
<1>8. clock' = clock /\ source' = source /\ sourceKids' = sourceKids /\ Visible' = Visible
      /\ (\A p : Position(p)' = Position(p)) /\ target' = target /\ targetKids' = targetKids
  BY <1>7, SourceIsStill DEF targetVars
<1>9. /\ pass' \in PassState /\ pass'.at = "page"
      /\ pass'.table = pass.table /\ pass'.resumed = pass.resumed /\ pass'.settled = pass.settled
  <2>1. <<>> \in PageRows
    <3>1. <<>> \in [{} -> {"running", "done"}]
      OBVIOUS
    <3> QED
      BY <3>1 DEF PageRows
  <2>2. 0 \in 0..MaxRetries
    BY MigrationAssumption
  <2>3. PICK none \in PageRows : none = <<>>
    BY <2>1
  <2>4. pass' = [pass EXCEPT !.at = "page", !.page = none, !.tries = 0]
    BY <1>7, <2>3
  <2> QED
    BY <1>0, <2>2, <2>4 DEF PassState, PassAt
<1>10. PassOK' /\ MigrationTypeOK'
  BY <1>0, <1>6, <1>7, <1>8, <1>9 DEF PassOK, PassState, MigrationTypeOK, FileState
<1>11. PassFitsFile' /\ PageFits' /\ RescanSettles' /\ NoOrphans'
  BY <1>0, <1>4, <1>6, <1>8, <1>9 DEF PassFitsFile, PageFits, RescanSettles, NoOrphans, AtWork
<1>12. State' = f
  BY <1>6, <1>9 DEF State
<1>13. CASE pass.table = "parents"
  <2>1. ParentsFile = State /\ ParentsFile' = f
    BY <1>0, <1>6, <1>13 DEF ParentsFile
  <2>2. PICK x \in DOMAIN pass.page : x \in Visible /\ h = Position(x)
    BY <1>2, <1>13
  <2>3. Owed' = Owed
    BY <1>4, <1>8, <1>9, <2>1 DEF Owed, SecondOf
  <2>4. h <= ParentsFile.upper /\ ParentsFile.upper \in Int
    BY <1>0, <1>13, <2>2 DEF PageFits, FileState
  <2>5. SecondOf(h) = source[x].at /\ source[x].at <= clock
    BY <1>0, <2>2, PositionsSeen DEF Visible, TimesOK
  <2>6. TimesOK'
    BY <1>0, <1>4, <1>8, <2>1, <2>5 DEF TimesOK, SecondOf
  <2>7. ASSUME NEW p \in Owed, Position(p) <= h PROVE There(p)
    <3>1. There(p) \/ BehindPage(p)
      BY <1>0, <1>13 DEF OwedIsCopied
    <3>2. BehindPage(p) => h < Position(p)
      BY <2>2 DEF BehindPage
    <3>3. Position(p) \in Nat
      BY <1>0, PositionsSeen DEF Owed, Visible
    <3> QED
      BY <1>2, <2>7, <3>1, <3>2, <3>3
  <2>8. OwedIsCopied'
    <3>1. \A p \in Owed' : Position(p)' <= ParentsFile'.upper /\ (Position(p)' <= ParentsFile'.cursor => There(p)')
      <4>1. \A p \in Owed : Position(p) <= ParentsFile.upper
        BY <1>0 DEF OwedIsCopied, AtWork
      <4> QED
        BY <1>4, <1>8, <2>1, <2>3, <2>7, <4>1 DEF There
    <3> QED
      BY <1>9, <3>1 DEF OwedIsCopied
  <2>9. CursorClaimsTarget'
    <3>1. ASSUME NEW p \in Visible, source[p].at + LateBy < SecondOf(h)
          PROVE  There(p)
      <4>1. Position(p) < h /\ Position(p) \in Nat
        BY <1>2, <3>1, CreatedBeforeCursor
      <4>2. SecondOf(h) <= SecondOf(ParentsFile.upper) /\ SecondOf(h) \in Int
            /\ SecondOf(ParentsFile.upper) \in Int
        BY <1>2, <2>4, SecondsOfCursors
      <4>3. source[p].at \in Nat /\ LateBy \in Nat
        BY <1>0, PositionsSeen, MigrationAssumption DEF Visible
      <4>4. source[p].at + LateBy < SecondOf(ParentsFile.upper)
        BY <3>1, <4>2, <4>3
      <4>5. p \in Owed
        BY <4>4 DEF Owed
      <4> QED
        BY <1>2, <2>7, <4>1, <4>5
    <3> QED
      BY <1>4, <1>8, <2>1, <3>1 DEF CursorClaimsTarget, SecondOf, ParentsFile, There
  <2>10. DueIsCopied'
    BY <1>9, <1>13 DEF DueIsCopied
  <2> QED
    BY <1>10, <1>11, <2>6, <2>8, <2>9, <2>10 DEF MigrationIInv
<1>14. CASE pass.table = "children"
  <2>1. UNCHANGED ParentsFile
    BY <1>0, <1>5, <1>14 DEF ParentsFile
  <2>2. TimesOK' /\ CursorClaimsTarget'
    BY <1>0, <1>8, <2>1 DEF TimesOK, SecondOf, CursorClaimsTarget, ParentsFile
  <2>3. Owed' = Owed
    BY <1>8, <1>9, <2>1 DEF Owed, SecondOf
  <2>4. OwedIsCopied'
    <3>1. /\ \A p \in Owed' : Position(p)' <= ParentsFile'.upper
          /\ ParentsFile'.status \in {"running", "failed"} =>
               \A p \in Owed' : Position(p)' <= ParentsFile'.cursor => There(p)'
      BY <1>0, <1>8, <2>1, <2>3 DEF OwedIsCopied, There, AtWork
    <3> QED
      BY <1>9, <1>14, <3>1 DEF OwedIsCopied
  <2>5. ChosenParents(ParentsFile)' = ChosenParents(ParentsFile)
    BY <1>8, <2>1 DEF ChosenParents
  <2>6. ASSUME NEW c \in due, ~pass.resumed
        PROVE  /\ c \in sourceKids /\ ForeignKey[c] \in ChosenParents(ParentsFile)
               /\ c \in targetKids \/ Between(h, c, State.upper)
    <3>1. /\ c \in sourceKids /\ ForeignKey[c] \in ChosenParents(ParentsFile)
          /\ c \in targetKids \/ Between(State.cursor, c, State.upper)
          /\ c \in targetKids \/ BehindKids(c)
      BY <1>0, <1>14, <2>6 DEF DueIsCopied, AtWork
    <3>2. BehindKids(c) => h < c
      BY <1>2, <1>14 DEF BehindKids
    <3> QED
      BY <3>1, <3>2 DEF Between
  <2>7. DueIsCopied'
    <3>1. ~pass'.resumed =>
            \A c \in due' : /\ c \in sourceKids' /\ ForeignKey[c] \in ChosenParents(ParentsFile)'
                            /\ c \in targetKids' \/ Between(State'.cursor, c, State'.upper)
      BY <1>4, <1>7, <1>8, <1>9, <1>12, <2>5, <2>6
    <3> QED
      BY <1>9, <3>1 DEF DueIsCopied, Between
  <2> QED
    BY <1>10, <1>11, <2>2, <2>4, <2>7 DEF MigrationIInv
<1> QED
  BY <1>0, <1>13, <1>14 DEF Table

LEMMA CloseTableKeeps ==
  ASSUME MigrationIInv, CloseTable
  PROVE  MigrationIInv'
<1>0. /\ pass \in PassState /\ pass.at = "close" /\ pass.table \in Table
      /\ file \in [Table -> FileState] /\ State = file[pass.table]
      /\ State \in FileState /\ ParentsFile \in FileState /\ "parents" \in Table
      /\ MigrationTypeOK /\ TimesOK /\ OwedIsCopied /\ CursorClaimsTarget
      /\ due \subseteq Child /\ clock \in Nat
  BY TypesOfMigration DEF MigrationIInv, CloseTable, PassState, State, Table
<1>1. PICK f : f = [State EXCEPT !.status = "completed", !.cursor = State.upper, !.upper = Null]
  OBVIOUS
<1>2. f \in FileState /\ f.cursor = State.upper /\ f.upper = Null /\ f.status = "completed"
  <2>1. PICK none \in Int : none = Null
    BY DEF Null
  <2>2. PICK s \in FileState : s = State
    BY <1>0
  <2>3. f = [s EXCEPT !.status = "completed", !.cursor = s.upper, !.upper = none]
    BY <1>1, <2>1, <2>2
  <2>4. f \in FileState /\ f.cursor = s.upper /\ f.upper = none /\ f.status = "completed"
    BY <2>3 DEF FileState
  <2> QED
    BY <2>1, <2>2, <2>4
<1>3. file' = [file EXCEPT ![pass.table] = f]
  BY <1>1 DEF CloseTable, SetState
<1>4. file' \in [Table -> FileState]
  BY <1>0, <1>2, <1>3
<1>5. UNCHANGED <<sourceVars, targetVars>> /\ pass' = NextTable
  BY DEF CloseTable
<1>6. due' \subseteq Child
  BY <1>0 DEF CloseTable
<1>7. clock' = clock /\ source' = source /\ sourceKids' = sourceKids /\ Visible' = Visible
      /\ (\A p : Position(p)' = Position(p)) /\ target' = target /\ targetKids' = targetKids
  BY <1>5, SourceIsStill DEF targetVars
<1>8. pass' \in PassState /\ pass'.settled = {} /\ pass'.at \in {"idle", "open"}
  BY <1>0, <1>5, NextTableIsState
<1>9. CASE pass.table = "parents"
  <2>1. ParentsFile = State /\ ParentsFile' = f
    BY <1>0, <1>3, <1>9 DEF ParentsFile
  <2>2. Null \in Int /\ Null < 0
    BY DEF Null
  <2>3. SecondOf(Null) <= clock
    <3>1. SecondOf(Null) < 0 /\ SecondOf(Null) \in Int
      BY <2>2, SecondsOfCursors
    <3> QED
      BY <1>0, <3>1
  <2>4. TimesOK'
    BY <1>0, <1>2, <1>7, <2>1, <2>3 DEF TimesOK, SecondOf
  <2>5. \A p \in Visible : source[p].at + LateBy < SecondOf(ParentsFile.upper) => There(p)
    BY <1>0, <1>9 DEF OwedIsCopied, Owed
  <2>6. CursorClaimsTarget'
    BY <1>2, <1>7, <2>1, <2>5 DEF CursorClaimsTarget, SecondOf, ParentsFile, There
  <2>7. ParentsFile'.status = "completed"
    BY <1>2, <2>1
  <2> QED
    BY <1>4, <1>5, <1>6, <1>8, <2>4, <2>6, <2>7, RestsKeepMigration
<1>10. CASE pass.table # "parents"
  <2>1. UNCHANGED ParentsFile
    BY <1>0, <1>3, <1>10 DEF ParentsFile
  <2>2. TimesOK' /\ CursorClaimsTarget'
    BY <1>0, <1>7, <2>1 DEF TimesOK, SecondOf, CursorClaimsTarget, ParentsFile
  <2> QED
    BY <1>4, <1>5, <1>6, <1>8, <2>1, <2>2, RestsKeepMigration
<1> QED
  BY <1>9, <1>10

LEMMA StutterKeepsMigration ==
  ASSUME MigrationIInv, UNCHANGED migrationVars
  PROVE  MigrationIInv'
<1>1. UNCHANGED <<clock, source, sourceKids, target, targetKids, file, pass, due>>
  BY DEF migrationVars, sourceVars, targetVars
<1> QED
  BY <1>1 DEF MigrationIInv, MigrationTypeOK, PassOK, TimesOK, PassFitsFile, PageFits,
     CursorClaimsTarget, OwedIsCopied, RescanSettles, NoOrphans, DueIsCopied, ParentsFile, State,
     Visible, Position, SecondOf, Owed, There, BehindPage, BehindKids, ChosenParents, Between

\* The overlap covers the commits, and everything a pass has to know holds at all
\* times.
THEOREM MigrationIsOnCourse ==
  ASSUME OverlapCoversCommits
  PROVE  MigrationSpec => []MigrationIInv
<1>1. MigrationIInv /\ [MigrationNext]_migrationVars => MigrationIInv'
  <2> SUFFICES ASSUME MigrationIInv, [MigrationNext]_migrationVars PROVE MigrationIInv'
    OBVIOUS
  <2>1. CASE SourceStep
    BY <2>1, SourceKeepsMigration
  <2>2. CASE (\E tables \in Selections : StartPass(tables)) \/ FailTable \/ KillPass
    BY <2>2, StopsKeepMigration
  <2>3. CASE OpenTable
    <3>1. pass.table = "parents" \/ pass.table = "children"
      BY TypesOfMigration DEF PassState, Table
    <3> QED
      BY <2>3, <3>1, OpenParentsKeeps, OpenChildrenKeeps
  <2>4. CASE ReadPage
    BY <2>4, ReadPageKeeps
  <2>5. CASE ApplyPage
    BY <2>5, ApplyPageKeeps
  <2>6. CASE RetryPage
    BY <2>6, RetryPageKeeps
  <2>7. CASE SavePage
    BY <2>7, SavePageKeeps
  <2>8. CASE RescanIds \/ RescanRead \/ RescanApply
    BY <2>8, RescanKeeps
  <2>9. CASE CloseTable
    BY <2>9, CloseTableKeeps
  <2>10. CASE UNCHANGED migrationVars
    BY <2>10, StutterKeepsMigration
  <2> QED
    BY <2>1, <2>2, <2>3, <2>4, <2>5, <2>6, <2>7, <2>8, <2>9, <2>10 DEF MigrationNext, PassStep
<1> QED
  BY <1>1, InitMigration, PTL DEF MigrationSpec

\* The durable cursor claims only what the target has, however often a pass failed
\* or died, and the target has no child without its parent.
THEOREM CursorsAreTrue ==
  ASSUME OverlapCoversCommits
  PROVE  MigrationSpec => []MigrationInv
<1>1. MigrationIInv => MigrationInv
  BY DEF MigrationIInv, MigrationInv
<1> QED
  BY <1>1, MigrationIsOnCourse, PTL

\* A pass that ends leaves what was final final in the target, and when it was not
\* resumed it has copied all that it had to.
THEOREM PassesDoTheirWork ==
  ASSUME OverlapCoversCommits
  PROVE  MigrationSpec => []PassIsWhole
<1>1. MigrationIInv => PassIsWhole
  <2> SUFFICES ASSUME MigrationIInv PROVE PassIsWhole
    OBVIOUS
  <2>0. /\ pass \in PassState /\ target \in [SourceRun -> {"absent", "running", "done"}]
        /\ ParentsFile \in FileState /\ OwedIsCopied /\ RescanSettles /\ DueIsCopied
    BY TypesOfMigration DEF MigrationIInv
  <2>1. PassSettlesRuns
    <3>1. ASSUME pass.at = "close", pass.table = "parents", NEW p \in pass.settled
          PROVE  target[p] # "running" /\ (~pass.resumed => target[p] = "done")
      <4>1. target[p] # "running" /\ p \in SourceRun /\ source[p].status = "done"
        BY <2>0, <3>1 DEF RescanSettles, PassState
      <4>2. ~pass.resumed => p \in Owed
        BY <4>1 DEF Owed, Visible
      <4>3. ~pass.resumed => There(p)
        BY <2>0, <3>1, <4>2 DEF OwedIsCopied
      <4> QED
        BY <2>0, <4>1, <4>3 DEF There
    <3> QED
      BY <3>1 DEF PassSettlesRuns
  <2>2. WholePassCopiesChildren
    BY <2>0 DEF WholePassCopiesChildren, DueIsCopied, AtWork
  <2> QED
    BY <2>1, <2>2 DEF PassIsWhole
<1> QED
  BY <1>1, MigrationIsOnCourse, PTL

-----------------------------------------------------------------------------
(***************************************************************************)
(* Locks and the current snapshot of the target.  A pass acts on what it    *)
(* read page by page while the source goes on: the invariant says, for each *)
(* page, what the rows read so far say of the rows that are there now.      *)
(***************************************************************************)
\* A page is the next keys: above the position, and leaving none out up to its
\* end; it is empty only when there is none.
LEMMA PageIsNext ==
  ASSUME NEW keys \in SUBSET LockRow, NEW after \in Nat,
         NEW next, next = NextPage(keys, after)
  PROVE  /\ next \subseteq keys
         /\ \A k \in next : k > after
         /\ next = {} => \A k \in keys : k <= after
         /\ next # {} => /\ Max(next) \in next
                         /\ \A k \in next : k <= Max(next)
                         /\ \A k \in keys : k > after /\ k <= Max(next) => k \in next
<1> DEFINE rest == {k \in keys : k > after}
           page == {k \in rest : Cardinality({j \in rest : j < k}) < KeyPage}
<1>1. next = page
  BY DEF NextPage
<1>2. rest \in SUBSET Nat /\ IsFiniteSet(rest) /\ KeyPage \in Nat /\ KeyPage > 0
  <2>1. rest \in SUBSET LockRow /\ LockRow \subseteq Nat
    BY ReconcileAssumption
  <2>2. IsFiniteSet(rest)
    BY <2>1, ReconcileAssumption, FS_Subset
  <2>3. KeyPage \in Nat /\ KeyPage > 0
    BY ReconcileAssumption
  <2> HIDE DEF rest
  <2> QED
    BY <2>1, <2>2, <2>3
<1>3. page \subseteq rest /\ (rest # {} => page # {})
  <2> HIDE DEF rest
  <2> QED
    BY <1>2, LeastFew
<1>4. ASSUME NEW k \in rest, NEW j \in page, k <= j
      PROVE  k \in page
  <2> HIDE DEF rest
  <2>1. {i \in rest : i < k} \in SUBSET {i \in rest : i < j}
    <3>1. k \in Nat /\ j \in Nat /\ \A i \in rest : i \in Nat
      BY <1>2, <1>3
    <3>2. \A i \in rest : i < k => i < j
      BY <1>4, <3>1
    <3> QED
      BY <3>2
  <2>2. IsFiniteSet({i \in rest : i < j}) /\ IsFiniteSet({i \in rest : i < k})
    BY <1>2, FS_Subset
  <2>3. Cardinality({i \in rest : i < k}) <= Cardinality({i \in rest : i < j})
    BY <2>1, <2>2, FS_Subset
  <2>4. Cardinality({i \in rest : i < k}) \in Nat /\ Cardinality({i \in rest : i < j}) \in Nat
    BY <2>2, FS_CardinalityType
  <2>5. Cardinality({i \in rest : i < j}) < KeyPage
    OBVIOUS
  <2> QED
    BY <1>2, <2>3, <2>4, <2>5
<1>5. ASSUME page # {}
      PROVE  Max(page) \in page /\ \A k \in page : k <= Max(page)
  <2> HIDE DEF page
  <2>1. page \in SUBSET Nat /\ IsFiniteSet(page)
    BY <1>2, <1>3, FS_Subset
  <2>2. \E x \in page : \A y \in page : y <= x
    BY <1>5, <2>1, GreatestOfFinite
  <2>3. \E x \in page : \A y \in page : x >= y
    BY <2>1, <2>2
  <2>4. Max(page) \in page /\ \A k \in page : Max(page) >= k
    BY <2>3 DEF Max
  <2> QED
    BY <2>1, <2>4
<1>6. page = {} => \A k \in keys : k <= after
  <2>1. page = {} => rest = {}
    BY <1>3
  <2>2. \A k \in keys : k \in Nat
    BY ReconcileAssumption
  <2> HIDE DEF page
  <2> QED
    BY <2>1, <2>2
<1>7. page # {} => \A k \in keys : k > after /\ k <= Max(page) => k \in page
  <2>1. \A k \in keys : k > after => k \in rest
    OBVIOUS
  <2> HIDE DEF page, rest
  <2> QED
    BY <1>4, <1>5, <2>1
<1>8. page \subseteq keys /\ \A k \in page : k > after
  OBVIOUS
<1> HIDE DEF page
<1> QED
  BY <1>1, <1>5, <1>6, <1>7, <1>8


-----------------------------------------------------------------------------
ReconAt == {"idle", "scanSource", "scanTarget", "delete", "copy", "snapshot", "pieces", "show",
            "keys", "report"}

\* The pass remembers keys of rows and a snapshot.
ReconState ==
              [at : ReconAt, apply : BOOLEAN, deletes : BOOLEAN, first : 0..Snapshots,
               after : Nat, seen : SUBSET LockRow, stale : SUBSET LockRow,
               snapshot : 0..Snapshots, pieces : SUBSET ((1..Snapshots) \X Piece),
               there : Nat, sourcePage : SUBSET LockRow, targetPage : SUBSET LockRow,
               sourceDone : BOOLEAN, targetDone : BOOLEAN,
               sourceOnly : SUBSET LockRow, targetOnly : SUBSET LockRow,
               before : SUBSET LockRow, gone : SUBSET LockRow]
ReconOK == recon \in ReconState

LEMMA NotRunningType == NotRunning \in ReconState
BY ReconcileAssumption DEF NotRunning, ReconState, ReconAt

\* A row of the target was one of the source, and what is gone there stays gone.
\* What both have is seen by the scan of the source, although rows come and go.
RowsComeFromSource ==
    /\ sourceLocks \cap pastLocks = {}
    /\ targetLocks \subseteq sourceLocks \cup pastLocks
    /\ recon.stale \subseteq pastLocks
    /\ recon.at = "scanSource" =>
         \A k \in targetLocks \cap sourceLocks : k > recon.after \/ k \in recon.seen
    /\ recon.at = "scanTarget" => targetLocks \cap sourceLocks \subseteq recon.seen

\* The snapshot a pass is about to show is one of the source's, not older than
\* the first it saw, and its rows are the ones that were read.
ShowsWhatItRead ==
    /\ shownThere <= published /\ recon.first <= published
    /\ recon.at \in {"pieces", "show"} => recon.snapshot \in recon.first..published
                                          /\ recon.snapshot # 0
    /\ recon.at = "show" => recon.pieces = PiecesOf(recon.snapshot)
    /\ TargetShowsWhole

\* Keys the source has had all the time since the comparison began.
Throughout == recon.before \cap sourceLocks

\* The merge of two streams of pages.  What a stream has left behind is before
\* all that is still to be compared, it was met by the other stream, and it was
\* reported when the other side did not have it.
MergeInOrder ==
    /\ recon.sourcePage \cap recon.gone = {}
    /\ \A k \in recon.sourcePage : k <= recon.after
    /\ recon.targetPage \subseteq targetLocks
    /\ \A k \in recon.targetPage : k <= recon.there
    /\ recon.sourceDone => recon.sourcePage = {} /\ \A k \in Throughout : k <= recon.after
    /\ recon.targetDone => recon.targetPage = {} /\ \A k \in targetLocks : k <= recon.there
    /\ \A k \in Throughout : k <= recon.after /\ k \notin recon.sourcePage =>
         /\ \A j \in recon.sourcePage \cup recon.targetPage : k < j
         /\ k <= recon.there \/ recon.targetDone
         /\ k \in targetLocks \cup recon.sourceOnly
    /\ \A k \in targetLocks : k <= recon.there /\ k \notin recon.targetPage =>
         /\ \A j \in recon.sourcePage \cup recon.targetPage : k < j
         /\ k <= recon.after \/ recon.sourceDone
         /\ k \in recon.gone => k \in recon.targetOnly

NothingCompared ==
    /\ recon.there = 0 /\ recon.sourcePage = {} /\ recon.targetPage = {}
    /\ ~recon.sourceDone /\ ~recon.targetDone
    /\ recon.sourceOnly = {} /\ recon.targetOnly = {}

MergeInv ==
    /\ recon.before \subseteq sourceLocks \cup pastLocks
    /\ recon.gone \subseteq pastLocks
    /\ recon.at \notin {"keys", "report"} => NothingCompared
    /\ recon.at \in {"snapshot", "pieces", "show"} => recon.after = 0
    /\ recon.sourceOnly \cap targetLocks = {} /\ recon.targetOnly \cap Throughout = {}
    /\ recon.at = "keys" => MergeInOrder
    /\ DifferencesAreReal

ReconcileIInv ==
    /\ ReconcileTypeOK /\ ReconOK
    /\ RowsComeFromSource /\ ShowsWhatItRead /\ MergeInv

\* A step of the pass that only moves it on to another place.
LEMMA InitReconcile == ReconcileInit => ReconcileIInv
<1> SUFFICES ASSUME ReconcileInit PROVE ReconcileIInv
  OBVIOUS
<1> USE DEF ReconcileInit, NotRunning
<1>1. ReconcileTypeOK /\ ReconOK
  BY ReconcileAssumption, NotRunningType DEF ReconcileTypeOK, ReconOK, NotRunning
<1>2. RowsComeFromSource
  BY DEF RowsComeFromSource
<1>3. ShowsWhatItRead
  BY DEF ShowsWhatItRead, TargetShowsWhole
<1>4. MergeInv
  BY DEF MergeInv, NothingCompared, Throughout, DifferencesAreReal
<1> QED
  BY <1>1, <1>2, <1>3, <1>4 DEF ReconcileIInv

\* The source goes on: rows that come were never there, rows that go are gone.
LEMMA SourceKeepsReconcile ==
  ASSUME ReconcileIInv,
         \/ \E l \in LockRow : InsertLock(l) \/ DeleteLock(l)
         \/ PublishNext
         \/ UNCHANGED reconcileVars
  PROVE  ReconcileIInv'
<1> USE DEF ReconcileIInv
<1>1. /\ UNCHANGED <<targetLocks, snapshotRows, pieces, shownThere, recon>>
      /\ published' \in 0..Snapshots /\ published <= published'
  BY ReconcileAssumption
  DEF InsertLock, DeleteLock, PublishNext, reconcileVars, sourceSide, siteThere, ReconcileTypeOK
<1>2. /\ sourceLocks' \subseteq LockRow /\ pastLocks' \subseteq LockRow
      /\ sourceLocks' \cap pastLocks' = {}
      /\ sourceLocks \cup pastLocks \subseteq sourceLocks' \cup pastLocks'
      /\ pastLocks \subseteq pastLocks'
      /\ sourceLocks' \cap (sourceLocks \cup pastLocks) \subseteq sourceLocks
  BY DEF InsertLock, DeleteLock, PublishNext, reconcileVars, sourceSide, ReconcileTypeOK,
         RowsComeFromSource
<1>3. ReconcileTypeOK' /\ ReconOK'
  BY <1>1, <1>2 DEF ReconcileTypeOK, ReconOK
<1>4. targetLocks' \cap sourceLocks' \subseteq targetLocks \cap sourceLocks
  BY <1>1, <1>2 DEF RowsComeFromSource
<1>5. RowsComeFromSource'
  BY <1>1, <1>2, <1>4 DEF RowsComeFromSource
<1>6. ShowsWhatItRead'
  <2>1. TargetShowsWhole'
    BY <1>1 DEF ShowsWhatItRead, TargetShowsWhole, PiecesOf
  <2>2. shownThere \in Int /\ published \in Int /\ published' \in Int /\ recon.first \in Int
        /\ recon.snapshot \in Int
    BY <1>1 DEF ReconcileTypeOK, ReconOK, ReconState
  <2> QED
    BY <1>1, <2>1, <2>2 DEF ShowsWhatItRead, PiecesOf
<1>7. Throughout' \subseteq Throughout
  BY <1>1, <1>2 DEF Throughout, MergeInv
<1>8. MergeInOrder => MergeInOrder'
  BY <1>1, <1>7 DEF MergeInOrder
<1>9. MergeInv'
  BY <1>1, <1>2, <1>7, <1>8
  DEF MergeInv, NothingCompared, DifferencesAreReal, Throughout
<1> QED
  BY <1>3, <1>5, <1>6, <1>9

\* A pass begins with nothing, and ends, or dies, leaving nothing.
LEMMA StartKeepsReconcile ==
  ASSUME ReconcileIInv,
         \/ \E apply, deletes \in BOOLEAN : StartReconcile(apply, deletes)
         \/ ReconStops
  PROVE  ReconcileIInv'
<1> USE DEF ReconcileIInv
<1>1. UNCHANGED <<sourceLocks, pastLocks, published, targetLocks, snapshotRows, pieces, shownThere>>
  BY DEF StartReconcile, ReconStops, sourceSide, siteThere
<1>2. /\ recon' \in ReconState
      /\ recon'.at \in {"idle", "scanSource"} /\ recon'.first \in {0, published}
      /\ recon'.after = 0 /\ recon'.stale = {} /\ recon'.before = {} /\ recon'.gone = {}
      /\ NothingCompared'
  <2>1. CASE ReconStops
    BY <2>1, NotRunningType DEF ReconStops, NotRunning, NothingCompared
  <2>2. ASSUME NEW apply \in BOOLEAN, NEW deletes \in BOOLEAN, StartReconcile(apply, deletes)
        PROVE  /\ recon' \in ReconState
               /\ recon'.at \in {"idle", "scanSource"} /\ recon'.first \in {0, published}
               /\ recon'.after = 0 /\ recon'.stale = {} /\ recon'.before = {} /\ recon'.gone = {}
               /\ NothingCompared'
    <3>1. PICK empty \in ReconState : empty = NotRunning
      BY NotRunningType
    <3>2. recon' = [empty EXCEPT !.at = "scanSource", !.apply = apply, !.deletes = deletes,
                                 !.first = published]
      BY <2>2, <3>1 DEF StartReconcile
    <3>3. published \in 0..Snapshots
      BY DEF ReconcileTypeOK
    <3>4. recon' \in ReconState
      BY ZenonT(30), <3>2, <3>3 DEF ReconState, ReconAt
    <3> QED
      BY <3>1, <3>2, <3>4 DEF NotRunning, NothingCompared, ReconState
  <2> QED
    BY <2>1, <2>2
<1>3. PICK at \in {"idle", "scanSource"}, first \in {0, published} :
        recon'.at = at /\ recon'.first = first
  BY <1>2
<1>4. ReconcileTypeOK' /\ ReconOK'
  BY <1>1, <1>2 DEF ReconcileTypeOK, ReconOK
<1>5. RowsComeFromSource'
  BY <1>1, <1>2, <1>3, ReconcileAssumption DEF RowsComeFromSource, ReconcileTypeOK
<1>6. ShowsWhatItRead'
  BY <1>1, <1>2, <1>3 DEF ShowsWhatItRead, TargetShowsWhole, ReconcileTypeOK, PiecesOf
<1>7. MergeInv'
  BY <1>1, <1>2, <1>3 DEF MergeInv, NothingCompared, DifferencesAreReal, Throughout
<1> QED
  BY <1>4, <1>5, <1>6, <1>7

-----------------------------------------------------------------------------
\* The scans, the removals and the copy touch neither what is shown nor what has
\* been compared.
LEMMA ScanKeepsRest ==
  ASSUME ReconcileIInv, ReconOK', UNCHANGED <<sourceLocks, pastLocks, published>>,
         targetLocks' \subseteq LockRow,
         recon.at \in {"scanSource", "scanTarget", "delete", "copy"},
         recon'.at \in {"scanSource", "scanTarget", "delete", "copy", "snapshot"},
         recon'.first = recon.first, recon'.before = recon.before, recon'.gone = recon.gone,
         recon'.at = "snapshot" => recon'.after = 0,
         NothingCompared => NothingCompared',
         shownThere' = shownThere, snapshotRows \subseteq snapshotRows', pieces \subseteq pieces',
         snapshotRows' \subseteq 1..Snapshots, pieces' \subseteq (1..Snapshots) \X Piece
  PROVE  ReconcileTypeOK' /\ ShowsWhatItRead' /\ MergeInv'
<1> USE DEF ReconcileIInv
<1>1. ReconcileTypeOK'
  BY DEF ReconcileTypeOK
<1>2. ShowsWhatItRead'
  BY DEF ShowsWhatItRead, TargetShowsWhole, PiecesOf
<1>3. NothingCompared'
  BY DEF MergeInv
<1>4. MergeInv'
  BY <1>3 DEF MergeInv, NothingCompared, DifferencesAreReal, Throughout
<1> QED
  BY <1>1, <1>2, <1>4

LEMMA ScansKeepReconcile ==
  ASSUME ReconcileIInv, ScanSource \/ ScanTarget \/ DeletePage \/ CopyTables
  PROVE  ReconcileIInv'
<1> USE DEF ReconcileIInv, ReconOK
<1>0. recon \in ReconState /\ recon.after \in Nat
      /\ sourceLocks \in SUBSET LockRow /\ targetLocks \in SUBSET LockRow
      /\ recon.stale \in SUBSET LockRow
  BY DEF ReconState, ReconcileTypeOK
<1>a. \A keys \in SUBSET LockRow : Max(keys) \in keys => Max(keys) \in Nat
  BY ReconcileAssumption
<1>1. CASE ScanSource
  <2>1. PICK page : page = NextPage(sourceLocks, recon.after)
    OBVIOUS
  <2>2. recon.at = "scanSource" /\ UNCHANGED <<sourceSide, targetLocks, siteThere>>
    BY <1>1 DEF ScanSource
  <2>3. /\ page \subseteq sourceLocks
        /\ page = {} => \A k \in sourceLocks : k <= recon.after
        /\ page # {} => /\ Max(page) \in page
                        /\ \A k \in sourceLocks : k > recon.after /\ k <= Max(page) => k \in page
    BY <1>0, <2>1, PageIsNext
  <2>4. CASE page = {}
    <3>1. recon' = [recon EXCEPT !.at = "scanTarget", !.after = 0]
      BY <1>1, <2>1, <2>4 DEF ScanSource, ReconGoes
    <3>2. ReconOK' /\ recon'.at = "scanTarget" /\ recon'.seen = recon.seen /\ recon'.stale = recon.stale
          /\ recon'.first = recon.first /\ recon'.before = recon.before /\ recon'.gone = recon.gone
          /\ (NothingCompared => NothingCompared')
      BY ZenonT(30), <1>0, <3>1 DEF ReconState, ReconAt, NothingCompared
    <3>3. \A k \in sourceLocks : k <= recon.after /\ k \in Nat
      BY <1>0, <2>3, <2>4, ReconcileAssumption
    <3>4. RowsComeFromSource'
      BY <1>0, <2>2, <3>2, <3>3 DEF RowsComeFromSource, sourceSide
    <3> QED
      BY <1>0, <2>2, <3>2, <3>4, ScanKeepsRest DEF sourceSide, siteThere, ReconcileTypeOK
  <2>5. CASE page # {}
    <3>1. recon' = [recon EXCEPT !.seen = recon.seen \cup page, !.after = Max(page)]
      BY <1>1, <2>1, <2>5 DEF ScanSource, Seen
    <3>2. ReconOK' /\ recon'.at = recon.at /\ recon'.seen = recon.seen \cup page
          /\ recon'.after = Max(page) /\ recon'.stale = recon.stale
          /\ recon'.first = recon.first /\ recon'.before = recon.before /\ recon'.gone = recon.gone
          /\ (NothingCompared => NothingCompared')
      BY <1>0, <1>a, <2>3, <2>5, <3>1 DEF ReconState, NothingCompared
    <3>a. PICK m \in Nat : m = Max(page)
      <4>1. page \in SUBSET LockRow
        BY <1>0, <2>3
      <4> QED
        BY <1>a, <2>3, <2>5, <4>1
    <3>b. \A k \in sourceLocks : k \in Nat
      BY <1>0, ReconcileAssumption
    <3>3. \A k \in sourceLocks : k > recon.after => k > Max(page) \/ k \in page
      BY <2>3, <2>5, <3>a, <3>b
    <3>4. RowsComeFromSource'
      BY <1>0, <2>2, <3>2, <3>3 DEF RowsComeFromSource, sourceSide
    <3> QED
      BY <1>0, <2>2, <3>2, <3>4, ScanKeepsRest DEF sourceSide, siteThere, ReconcileTypeOK
  <2> QED
    BY <2>4, <2>5
<1>2. CASE ScanTarget
  <2>1. PICK page : page = NextPage(targetLocks, recon.after)
    OBVIOUS
  <2>2. recon.at = "scanTarget" /\ UNCHANGED <<sourceSide, targetLocks, siteThere>>
    BY <1>2 DEF ScanTarget
  <2>3. page \subseteq targetLocks /\ (page # {} => Max(page) \in page)
    BY <1>0, <2>1, PageIsNext
  <2>4. CASE page = {}
    <3>1. PICK at \in {"delete", "copy"} : recon' = [recon EXCEPT !.at = at, !.after = 0]
      BY <1>2, <2>1, <2>4 DEF ScanTarget, ReconGoes
    <3>2. ReconOK' /\ recon'.at = at /\ recon'.stale = recon.stale
          /\ recon'.first = recon.first /\ recon'.before = recon.before /\ recon'.gone = recon.gone
          /\ (NothingCompared => NothingCompared')
      BY ZenonT(30), <1>0, <3>1 DEF ReconState, ReconAt, NothingCompared
    <3>3. RowsComeFromSource'
      BY <2>2, <3>2 DEF RowsComeFromSource, sourceSide
    <3> QED
      BY <1>0, <2>2, <3>2, <3>3, ScanKeepsRest DEF sourceSide, siteThere, ReconcileTypeOK
  <2>5. CASE page # {}
    <3>1. recon' = [recon EXCEPT !.stale = recon.stale \cup (page \ recon.seen), !.after = Max(page)]
      BY <1>2, <2>1, <2>5 DEF ScanTarget
    <3>2. ReconOK' /\ recon'.at = recon.at /\ recon'.stale = recon.stale \cup (page \ recon.seen)
          /\ recon'.seen = recon.seen
          /\ recon'.first = recon.first /\ recon'.before = recon.before /\ recon'.gone = recon.gone
          /\ (NothingCompared => NothingCompared')
      BY <1>0, <1>a, <2>3, <2>5, <3>1 DEF ReconState, NothingCompared
    <3>3. page \ recon.seen \subseteq pastLocks
      BY <2>2, <2>3 DEF RowsComeFromSource
    <3>4. RowsComeFromSource'
      BY <2>2, <3>2, <3>3 DEF RowsComeFromSource, sourceSide
    <3> QED
      BY <1>0, <2>2, <3>2, <3>4, ScanKeepsRest DEF sourceSide, siteThere, ReconcileTypeOK
  <2> QED
    BY <2>4, <2>5
<1>3. CASE DeletePage
  <2>1. PICK page : page = NextPage(recon.stale, recon.after)
    OBVIOUS
  <2>2. recon.at = "delete" /\ UNCHANGED <<sourceSide, siteThere>> /\ targetLocks' \subseteq targetLocks
    BY <1>3 DEF DeletePage
  <2>3. page # {} => Max(page) \in page /\ page \subseteq recon.stale
    BY <1>0, <2>1, PageIsNext
  <2>4. PICK at \in {"delete", "copy"}, after \in Nat :
          recon' = [recon EXCEPT !.at = at, !.after = after]
    <3>1. CASE page = {}
      <4>1. recon' = [recon EXCEPT !.at = "copy", !.after = 0]
        BY <1>3, <2>1, <3>1 DEF DeletePage, ReconGoes
      <4> QED
        BY <4>1
    <3>2. CASE page # {}
      <4>1. recon' = [recon EXCEPT !.after = Max(page)]
        BY <1>3, <2>1, <3>2 DEF DeletePage
      <4>2. recon' = [recon EXCEPT !.at = "delete", !.after = Max(page)]
        BY <1>0, <2>2, <4>1 DEF ReconState
      <4>3. Max(page) \in Nat
        BY <1>0, <1>a, <2>3, <3>2
      <4> QED
        BY <4>2, <4>3
    <3> QED
      BY <3>1, <3>2
  <2>5. ReconOK' /\ recon'.at = at /\ recon'.stale = recon.stale
        /\ recon'.first = recon.first /\ recon'.before = recon.before /\ recon'.gone = recon.gone
        /\ (NothingCompared => NothingCompared')
    BY ZenonT(30), <1>0, <2>4 DEF ReconState, ReconAt, NothingCompared
  <2>6. RowsComeFromSource'
    BY <2>2, <2>5 DEF RowsComeFromSource, sourceSide
  <2> QED
    BY <1>0, <2>2, <2>5, <2>6, ScanKeepsRest DEF sourceSide, siteThere, ReconcileTypeOK
<1>4. CASE CopyTables
  <2>1. /\ recon.at = "copy" /\ UNCHANGED <<sourceSide, shownThere>>
        /\ recon' = [recon EXCEPT !.at = "snapshot", !.after = 0, !.seen = {}, !.stale = {}]
    BY <1>4 DEF CopyTables
  <2>2. ReconOK' /\ recon'.at = "snapshot" /\ recon'.after = 0 /\ recon'.stale = {}
        /\ recon'.first = recon.first /\ recon'.before = recon.before /\ recon'.gone = recon.gone
        /\ (NothingCompared => NothingCompared')
    BY ZenonT(30), <1>0, <2>1 DEF ReconState, ReconAt, NothingCompared
  <2>3. /\ targetLocks' \subseteq targetLocks \cup sourceLocks
        /\ snapshotRows' \in {1..published, snapshotRows}
        /\ pieces \subseteq pieces'
        /\ pieces' \subseteq pieces \cup {x \in PiecesOf(published) \cup PiecesOf(published - 1) : x[1] > 0}
    BY <1>4 DEF CopyTables
  <2>4. RowsComeFromSource'
    BY <2>1, <2>2, <2>3 DEF RowsComeFromSource, sourceSide
  <2>5. snapshotRows' \subseteq 1..Snapshots /\ pieces' \subseteq (1..Snapshots) \X Piece
    <3>1. published \in 0..Snapshots /\ Snapshots \in Nat
      BY ReconcileAssumption DEF ReconcileTypeOK
    <3>2. \A x \in PiecesOf(published) \cup PiecesOf(published - 1) : x[1] > 0 =>
            x \in (1..Snapshots) \X Piece
      BY <3>1 DEF PiecesOf
    <3> QED
      BY <2>3, <3>1, <3>2 DEF ReconcileTypeOK
  <2>6. ReconcileTypeOK'
    BY <1>0, <2>1, <2>3, <2>5 DEF ReconcileTypeOK, sourceSide
  <2>7. ShowsWhatItRead'
    <3>1. shownThere # 0 => shownThere \in snapshotRows'
      BY <2>1, <2>3 DEF ShowsWhatItRead, TargetShowsWhole, ReconcileTypeOK
    <3> QED
      BY <2>1, <2>2, <2>3, <3>1 DEF ShowsWhatItRead, TargetShowsWhole, sourceSide, PiecesOf
  <2>8. MergeInv'
    BY <2>1, <2>2 DEF MergeInv, NothingCompared, DifferencesAreReal, Throughout, sourceSide
  <2> QED
    BY <2>2, <2>4, <2>6, <2>7, <2>8
<1> QED
  BY <1>1, <1>2, <1>3, <1>4

-----------------------------------------------------------------------------
\* The comparison begins with nothing behind it and all keys before it.
LEMMA ComparisonBegins ==
  ASSUME NothingCompared', recon'.after = 0, targetLocks' \subseteq LockRow,
         sourceLocks' \subseteq LockRow
  PROVE  MergeInOrder'
<1>1. \A k \in LockRow : ~(k <= 0)
  BY ReconcileAssumption
<1>2. \A k \in Throughout' \cup targetLocks' : ~(k <= 0)
  BY <1>1 DEF Throughout
<1> QED
  BY <1>2 DEF MergeInOrder, NothingCompared

LEMMA SnapshotKeepsReconcile ==
  ASSUME ReconcileIInv, ReadSnapshot \/ ReadPieces \/ ShowThere
  PROVE  ReconcileIInv'
<1> USE DEF ReconcileIInv, ReconOK
<1>0. /\ recon \in ReconState /\ NothingCompared /\ recon.after = 0
      /\ UNCHANGED <<sourceLocks, pastLocks, published, targetLocks>>
  BY DEF MergeInv, ReadSnapshot, ReadPieces, ShowThere, sourceSide
<1>a. published \in 0..Snapshots /\ recon.first \in 0..Snapshots /\ recon.snapshot \in 0..Snapshots
      /\ Snapshots \in Nat
  BY <1>0, ReconcileAssumption DEF ReconcileTypeOK, ReconState
<1>1. CASE ReadSnapshot
  <2>1. /\ recon.at = "snapshot" /\ UNCHANGED <<snapshotRows, pieces, shownThere>>
        /\ recon' = [recon EXCEPT !.at = IF published = 0 THEN "keys" ELSE "pieces",
                                  !.snapshot = published,
                                  !.before = sourceLocks, !.gone = pastLocks]
    BY <1>1 DEF ReadSnapshot, siteThere
  <2>2. /\ recon'.at = IF published = 0 THEN "keys" ELSE "pieces"
        /\ recon'.snapshot = published /\ recon'.before = sourceLocks /\ recon'.gone = pastLocks
        /\ recon'.first = recon.first /\ recon'.stale = recon.stale /\ recon'.after = 0
        /\ NothingCompared'
    BY <1>0, <2>1 DEF ReconState, NothingCompared
  <2>3. ReconOK' /\ ReconcileTypeOK'
    BY ZenonT(60), <1>0, <1>a, <2>1 DEF ReconState, ReconAt, ReconcileTypeOK
  <2>4. RowsComeFromSource'
    BY <1>0, <2>2 DEF RowsComeFromSource
  <2>5. ShowsWhatItRead'
    BY <1>0, <1>a, <2>1, <2>2 DEF ShowsWhatItRead, TargetShowsWhole, PiecesOf, ReconcileTypeOK
  <2>6. MergeInOrder'
    BY <1>0, <2>2, ComparisonBegins DEF ReconcileTypeOK
  <2>7. MergeInv'
    BY <1>0, <2>2, <2>6 DEF MergeInv, NothingCompared, DifferencesAreReal, Throughout
  <2> QED
    BY <2>3, <2>4, <2>5, <2>7
<1>2. CASE ReadPieces
  <2>1. /\ recon.at = "pieces" /\ UNCHANGED <<snapshotRows, pieces, shownThere>>
        /\ recon' = [recon EXCEPT !.at = "show", !.pieces = PiecesOf(recon.snapshot)]
    BY <1>2 DEF ReadPieces, PiecesRead, siteThere
  <2>2. /\ recon'.at = "show" /\ recon'.pieces = PiecesOf(recon.snapshot)
        /\ recon'.snapshot = recon.snapshot /\ recon'.before = recon.before
        /\ recon'.gone = recon.gone
        /\ recon'.first = recon.first /\ recon'.stale = recon.stale /\ recon'.after = 0
        /\ NothingCompared'
    BY <1>0, <2>1 DEF ReconState, NothingCompared
  <2>3. recon.snapshot \in 1..Snapshots
    BY <1>a, <2>1 DEF ShowsWhatItRead
  <2>4. ReconOK' /\ ReconcileTypeOK'
    BY ZenonT(60), <1>0, <2>1, <2>3 DEF ReconState, ReconAt, ReconcileTypeOK, PiecesOf
  <2>5. RowsComeFromSource'
    BY <1>0, <2>2 DEF RowsComeFromSource
  <2>6. ShowsWhatItRead'
    BY <1>0, <2>1, <2>2 DEF ShowsWhatItRead, TargetShowsWhole, PiecesOf
  <2>7. MergeInv'
    BY <1>0, <2>2 DEF MergeInv, NothingCompared, DifferencesAreReal, Throughout
  <2> QED
    BY <2>4, <2>5, <2>6, <2>7
<1>3. CASE ShowThere
  <2>1. /\ recon.at = "show"
        /\ recon' = [recon EXCEPT !.at = "keys", !.snapshot = 0, !.pieces = {},
                                  !.before = sourceLocks, !.gone = pastLocks]
    BY <1>3 DEF ShowThere
  <2>2. /\ recon'.at = "keys" /\ recon'.before = sourceLocks /\ recon'.gone = pastLocks
        /\ recon'.first = recon.first /\ recon'.stale = recon.stale /\ recon'.after = 0
        /\ recon'.apply = recon.apply
        /\ NothingCompared'
    BY <1>0, <2>1 DEF ReconState, NothingCompared
  <2>3. /\ recon.snapshot \in recon.first..published /\ recon.snapshot # 0
        /\ recon.pieces = PiecesOf(recon.snapshot) /\ recon.snapshot \in 1..Snapshots
        /\ recon.snapshot <= published /\ recon.snapshot >= recon.first
    BY <1>a, <2>1 DEF ShowsWhatItRead
  <2>4. \/ /\ recon.apply
           /\ snapshotRows' = snapshotRows \cup {recon.snapshot}
           /\ pieces' = PiecesOf(recon.snapshot) \cup {x \in pieces : x[1] # recon.snapshot}
           /\ shownThere' = recon.snapshot
        \/ ~recon.apply /\ UNCHANGED <<snapshotRows, pieces, shownThere>>
    BY <1>3, <2>3 DEF ShowThere, siteThere
  <2>5. ReconOK' /\ ReconcileTypeOK'
    <3>1. ReconOK'
      <4>1. 0 \in 0..Snapshots /\ "keys" \in ReconAt
            /\ sourceLocks \in SUBSET LockRow /\ pastLocks \in SUBSET LockRow
        BY <1>a DEF ReconAt, ReconcileTypeOK
      <4> QED
        BY ZenonT(30), <1>0, <2>1, <4>1 DEF ReconState
    <3>2. PiecesOf(recon.snapshot) \subseteq (1..Snapshots) \X Piece
      BY <2>3 DEF PiecesOf
    <3>3. snapshotRows' \subseteq 1..Snapshots /\ shownThere' \in 0..Snapshots
      BY <1>a, <2>3, <2>4 DEF ReconcileTypeOK
    <3>4. pieces' \subseteq (1..Snapshots) \X Piece
      BY <2>4, <3>2, Zenon DEF ReconcileTypeOK
    <3> QED
      BY <1>0, <3>1, <3>3, <3>4 DEF ReconcileTypeOK
  <2>6. RowsComeFromSource'
    BY <1>0, <2>2 DEF RowsComeFromSource
  <2>7. ShowsWhatItRead'
    BY <1>0, <1>a, <2>2, <2>3, <2>4 DEF ShowsWhatItRead, TargetShowsWhole
  <2>8. MergeInOrder'
    BY <1>0, <2>2, ComparisonBegins DEF ReconcileTypeOK
  <2>9. MergeInv'
    BY <1>0, <2>2, <2>8 DEF MergeInv, NothingCompared, DifferencesAreReal, Throughout
  <2> QED
    BY <2>5, <2>6, <2>7, <2>9
<1> QED
  BY <1>1, <1>2, <1>3

-----------------------------------------------------------------------------
\* While keys are compared nothing else moves.
LEMMA MergeKeepsRest ==
  ASSUME ReconcileIInv, ReconOK', recon.at = "keys", recon'.at \in {"keys", "report"},
         UNCHANGED <<sourceSide, targetLocks, siteThere>>,
         recon'.stale = recon.stale, recon'.first = recon.first, recon'.apply = recon.apply
  PROVE  ReconcileTypeOK' /\ RowsComeFromSource' /\ ShowsWhatItRead'
BY DEF ReconcileIInv, ReconcileTypeOK, RowsComeFromSource, ShowsWhatItRead, TargetShowsWhole,
       sourceSide, siteThere, PiecesOf

\* A page more of the source's keys: all after those that are left behind.
LEMMA SourcePageKeepsReconcile ==
  ASSUME ReconcileIInv, ReadSourceKeys
  PROVE  ReconcileIInv'
<1> USE DEF ReconcileIInv, ReconOK
<1>0. /\ recon \in ReconState /\ recon.after \in Nat /\ recon.there \in Nat
      /\ sourceLocks \in SUBSET LockRow /\ targetLocks \in SUBSET LockRow /\ LockRow \subseteq Nat
      /\ recon.sourcePage \in SUBSET LockRow /\ recon.targetPage \in SUBSET LockRow
  BY ReconcileAssumption DEF ReconState, ReconcileTypeOK
<1>1. PICK page : page = NextPage(sourceLocks, recon.after)
  OBVIOUS
<1>2. /\ recon.at = "keys" /\ recon.sourcePage = {} /\ ~recon.sourceDone /\ MergeInOrder
      /\ UNCHANGED <<sourceSide, targetLocks, siteThere>>
      /\ recon' = [recon EXCEPT !.sourcePage = page, !.sourceDone = page = {},
                                !.after = IF page = {} THEN recon.after ELSE Max(page)]
  BY <1>1 DEF ReadSourceKeys, NeedSource, MergeInv
<1>3. /\ page \subseteq sourceLocks /\ \A k \in page : k > recon.after
      /\ page = {} => \A k \in sourceLocks : k <= recon.after
      /\ page # {} => /\ Max(page) \in page /\ \A k \in page : k <= Max(page)
                      /\ \A k \in sourceLocks : k > recon.after /\ k <= Max(page) => k \in page
  BY <1>0, <1>1, PageIsNext
<1>4. PICK after \in Nat : after = IF page = {} THEN recon.after ELSE Max(page)
  BY <1>0, <1>3
<1>5. /\ recon'.at = "keys" /\ recon'.sourcePage = page /\ recon'.sourceDone = (page = {})
      /\ recon'.after = after /\ recon'.there = recon.there
      /\ recon'.targetPage = recon.targetPage /\ recon'.targetDone = recon.targetDone
      /\ recon'.sourceOnly = recon.sourceOnly /\ recon'.targetOnly = recon.targetOnly
      /\ recon'.before = recon.before /\ recon'.gone = recon.gone
      /\ recon'.stale = recon.stale /\ recon'.first = recon.first /\ recon'.apply = recon.apply
      /\ ReconOK'
  BY ZenonT(60), <1>0, <1>2, <1>3, <1>4 DEF ReconState
<1>6. Throughout' = Throughout /\ Throughout \subseteq sourceLocks
  BY <1>2, <1>5 DEF Throughout, sourceSide
<1>7. after >= recon.after /\ \A k \in page : k <= after
  BY <1>0, <1>3, <1>4
<1>8. \A k \in sourceLocks : k <= after /\ k \notin page => k <= recon.after
  BY <1>0, <1>3, <1>4
<1>9. \A k \in Nat, j \in page : k <= recon.after => k < j
  BY <1>0, <1>3
<1>10. MergeInOrder'
  <2> USE <1>0, <1>2, <1>5, <1>6 DEF MergeInOrder
  <2>1. recon'.sourcePage \cap recon'.gone = {}
    BY <1>3 DEF MergeInv, RowsComeFromSource
  <2>2. \A k \in recon'.sourcePage : k <= recon'.after
    BY <1>7
  <2>3. recon'.sourceDone => recon'.sourcePage = {} /\ \A k \in Throughout : k <= recon'.after
    BY <1>3, <1>4
  <2>4. ASSUME NEW k \in Throughout, k <= after, k \notin page
        PROVE  /\ \A j \in page \cup recon.targetPage : k < j
               /\ k <= recon.there \/ recon.targetDone
               /\ k \in targetLocks \cup recon.sourceOnly
    <3>1. k \in Nat /\ k <= recon.after /\ k \notin recon.sourcePage
      BY <1>8, <2>4
    <3>2. /\ \A j \in recon.targetPage : k < j
          /\ k <= recon.there \/ recon.targetDone
          /\ k \in targetLocks \cup recon.sourceOnly
      BY <3>1
    <3> QED
      BY <1>9, <3>1, <3>2
  <2>5. ASSUME NEW k \in targetLocks, k <= recon.there, k \notin recon.targetPage
        PROVE  /\ \A j \in page \cup recon.targetPage : k < j
               /\ k <= after \/ page = {}
               /\ k \in recon.gone => k \in recon.targetOnly
    <3>1. /\ \A j \in recon.targetPage : k < j
          /\ k <= recon.after
          /\ k \in recon.gone => k \in recon.targetOnly
      BY <2>5
    <3>2. k \in Nat /\ k <= after
      BY <1>7, <3>1
    <3> QED
      BY <1>9, <3>1, <3>2
  <2> QED
    BY <2>1, <2>2, <2>3, <2>4, <2>5
<1>11. MergeInv'
  BY <1>2, <1>5, <1>6, <1>10 DEF MergeInv, DifferencesAreReal, sourceSide
<1> QED
  BY <1>2, <1>5, <1>11, MergeKeepsRest

LEMMA TargetPageKeepsReconcile ==
  ASSUME ReconcileIInv, ReadTargetKeys
  PROVE  ReconcileIInv'
<1> USE DEF ReconcileIInv, ReconOK
<1>0. /\ recon \in ReconState /\ recon.after \in Nat /\ recon.there \in Nat
      /\ sourceLocks \in SUBSET LockRow /\ targetLocks \in SUBSET LockRow /\ LockRow \subseteq Nat
      /\ recon.sourcePage \in SUBSET LockRow /\ recon.targetPage \in SUBSET LockRow
  BY ReconcileAssumption DEF ReconState, ReconcileTypeOK
<1>1. PICK page : page = NextPage(targetLocks, recon.there)
  OBVIOUS
<1>2. /\ recon.at = "keys" /\ recon.targetPage = {} /\ ~recon.targetDone /\ MergeInOrder
      /\ UNCHANGED <<sourceSide, targetLocks, siteThere>>
      /\ recon' = [recon EXCEPT !.targetPage = page, !.targetDone = page = {},
                                !.there = IF page = {} THEN recon.there ELSE Max(page)]
  BY <1>1 DEF ReadTargetKeys, NeedTarget, MergeInv
<1>3. /\ page \subseteq targetLocks /\ \A k \in page : k > recon.there
      /\ page = {} => \A k \in targetLocks : k <= recon.there
      /\ page # {} => /\ Max(page) \in page /\ \A k \in page : k <= Max(page)
                      /\ \A k \in targetLocks : k > recon.there /\ k <= Max(page) => k \in page
  <2>1. targetLocks \in SUBSET LockRow /\ recon.there \in Nat
    BY <1>0
  <2> QED
    BY <1>1, <2>1, PageIsNext
<1>4. PICK there \in Nat : there = IF page = {} THEN recon.there ELSE Max(page)
  BY <1>0, <1>3
<1>5. /\ recon'.at = "keys" /\ recon'.targetPage = page /\ recon'.targetDone = (page = {})
      /\ recon'.there = there /\ recon'.after = recon.after
      /\ recon'.sourcePage = recon.sourcePage /\ recon'.sourceDone = recon.sourceDone
      /\ recon'.sourceOnly = recon.sourceOnly /\ recon'.targetOnly = recon.targetOnly
      /\ recon'.before = recon.before /\ recon'.gone = recon.gone
      /\ recon'.stale = recon.stale /\ recon'.first = recon.first /\ recon'.apply = recon.apply
      /\ ReconOK'
  BY ZenonT(60), <1>0, <1>2, <1>3, <1>4 DEF ReconState
<1>6. Throughout' = Throughout /\ Throughout \subseteq Nat
  BY <1>0, <1>2, <1>5 DEF Throughout, sourceSide
<1>7. there >= recon.there /\ \A k \in page : k <= there
  BY <1>0, <1>3, <1>4
<1>8. \A k \in targetLocks : k <= there /\ k \notin page => k <= recon.there
  BY <1>0, <1>3, <1>4
<1>9. \A k \in Nat, j \in page : k <= recon.there => k < j
  BY <1>0, <1>3
<1>10. MergeInOrder'
  <2> USE <1>0, <1>2, <1>5, <1>6 DEF MergeInOrder
  <2>1. recon'.targetPage \subseteq targetLocks /\ \A k \in recon'.targetPage : k <= recon'.there
    BY <1>3, <1>7
  <2>2. recon'.targetDone => recon'.targetPage = {} /\ \A k \in targetLocks : k <= recon'.there
    BY <1>3, <1>4
  <2>3. ASSUME NEW k \in Throughout, k <= recon.after, k \notin recon.sourcePage
        PROVE  /\ \A j \in recon.sourcePage \cup page : k < j
               /\ k <= there \/ page = {}
               /\ k \in targetLocks \cup recon.sourceOnly
    <3>1. /\ \A j \in recon.sourcePage : k < j
          /\ k <= recon.there
          /\ k \in targetLocks \cup recon.sourceOnly
      BY <2>3
    <3>2. k \in Nat /\ k <= there
      BY <1>7, <3>1
    <3> QED
      BY <1>9, <3>1, <3>2
  <2>4. ASSUME NEW k \in targetLocks, k <= there, k \notin page
        PROVE  /\ \A j \in recon.sourcePage \cup page : k < j
               /\ k <= recon.after \/ recon.sourceDone
               /\ k \in recon.gone => k \in recon.targetOnly
    <3>1. k \in Nat /\ k <= recon.there /\ k \notin recon.targetPage
      BY <1>8, <2>4
    <3>2. /\ \A j \in recon.sourcePage : k < j
          /\ k <= recon.after \/ recon.sourceDone
          /\ k \in recon.gone => k \in recon.targetOnly
      BY <3>1
    <3> QED
      BY <1>9, <3>1, <3>2
  <2> QED
    BY <2>1, <2>2, <2>3, <2>4
<1>11. MergeInv'
  BY <1>2, <1>5, <1>6, <1>10 DEF MergeInv, DifferencesAreReal, sourceSide
<1> QED
  BY <1>2, <1>5, <1>11, MergeKeepsRest

\* The least of the keys that are next on either side: the other side has it too,
\* or does not have it at all.
LEMMA CompareKeepsReconcile ==
  ASSUME ReconcileIInv, CompareKeys
  PROVE  ReconcileIInv'
<1> USE DEF ReconcileIInv, ReconOK
<1>0. /\ recon \in ReconState /\ recon.after \in Nat /\ recon.there \in Nat
      /\ sourceLocks \in SUBSET LockRow /\ targetLocks \in SUBSET LockRow /\ LockRow \subseteq Nat
      /\ recon.sourcePage \in SUBSET LockRow /\ recon.targetPage \in SUBSET LockRow
  BY ReconcileAssumption DEF ReconState, ReconcileTypeOK
<1>1. PICK next : next = recon.sourcePage \cup recon.targetPage
  OBVIOUS
<1>2. next \in SUBSET Nat /\ next # {}
  BY <1>0, <1>1 DEF CompareKeys, Comparable
<1>3. PICK l \in next : l = Min(next) /\ \A j \in next : l <= j
  <2>1. \E x \in next : \A y \in next : x <= y
    BY <1>2, LeastNat
  <2> QED
    BY <2>1 DEF Min
<1>4. /\ recon.at = "keys" /\ MergeInOrder
      /\ recon.sourcePage # {} \/ recon.sourceDone
      /\ recon.targetPage # {} \/ recon.targetDone
      /\ UNCHANGED <<sourceSide, targetLocks, siteThere>>
      /\ recon' = [recon EXCEPT
            !.sourcePage = recon.sourcePage \ {l}, !.targetPage = recon.targetPage \ {l},
            !.sourceOnly = IF l \in recon.targetPage THEN recon.sourceOnly ELSE recon.sourceOnly \cup {l},
            !.targetOnly = IF l \in recon.sourcePage THEN recon.targetOnly ELSE recon.targetOnly \cup {l}]
  BY <1>1, <1>3 DEF CompareKeys, Comparable, NeedSource, NeedTarget, MergeInv
<1>5. /\ recon'.at = "keys" /\ recon'.after = recon.after /\ recon'.there = recon.there
      /\ recon'.sourcePage = recon.sourcePage \ {l} /\ recon'.targetPage = recon.targetPage \ {l}
      /\ recon'.sourceDone = recon.sourceDone /\ recon'.targetDone = recon.targetDone
      /\ recon'.sourceOnly = IF l \in recon.targetPage THEN recon.sourceOnly ELSE recon.sourceOnly \cup {l}
      /\ recon'.targetOnly = IF l \in recon.sourcePage THEN recon.targetOnly ELSE recon.targetOnly \cup {l}
      /\ recon'.before = recon.before /\ recon'.gone = recon.gone
      /\ recon'.stale = recon.stale /\ recon'.first = recon.first /\ recon'.apply = recon.apply
  BY <1>0, <1>4 DEF ReconState
<1>6. ReconOK'
  <2>1. l \in LockRow /\ recon.sourceOnly \in SUBSET LockRow /\ recon.targetOnly \in SUBSET LockRow
    BY <1>0, <1>1 DEF ReconState
  <2> QED
    BY ZenonT(30), <1>0, <1>4, <2>1 DEF ReconState
<1>7. Throughout' = Throughout /\ Throughout \subseteq Nat
  BY <1>0, <1>4, <1>5 DEF Throughout, sourceSide
<1>8. l \in Nat /\ \A j \in recon.sourcePage \cup recon.targetPage : j \in Nat /\ l <= j
  BY <1>0, <1>1, <1>2, <1>3
<1>9. l \in targetLocks => l \in recon.targetPage
  <2> SUFFICES ASSUME l \in targetLocks, l \notin recon.targetPage PROVE FALSE
    OBVIOUS
  <2>1. l \in recon.sourcePage
    BY <1>1
  <2>2. CASE l <= recon.there
    <3>1. l < l
      BY <1>4, <2>1, <2>2 DEF MergeInOrder
    <3> QED
      BY <1>8, <3>1
  <2>3. CASE ~(l <= recon.there)
    <3>1. recon.targetPage # {}
      BY <1>4, <2>3 DEF MergeInOrder
    <3>2. PICK j \in recon.targetPage : j <= recon.there
      BY <1>4, <3>1 DEF MergeInOrder
    <3> QED
      BY <1>0, <1>8, <2>3, <3>2
  <2> QED
    BY <2>2, <2>3
<1>10. l \in Throughout => l \in recon.sourcePage
  <2> SUFFICES ASSUME l \in Throughout, l \notin recon.sourcePage PROVE FALSE
    OBVIOUS
  <2>1. l \in recon.targetPage
    BY <1>1
  <2>2. CASE l <= recon.after
    <3>1. l < l
      BY <1>4, <2>1, <2>2 DEF MergeInOrder
    <3> QED
      BY <1>8, <3>1
  <2>3. CASE ~(l <= recon.after)
    <3>1. recon.sourcePage # {}
      BY <1>4, <2>3 DEF MergeInOrder
    <3>2. PICK j \in recon.sourcePage : j <= recon.after
      BY <1>4, <3>1 DEF MergeInOrder
    <3> QED
      BY <1>0, <1>8, <2>3, <3>2
  <2> QED
    BY <2>2, <2>3
<1>11. l <= recon.after \/ recon.sourceDone
  <2>1. CASE recon.sourcePage # {}
    <3>1. PICK j \in recon.sourcePage : j <= recon.after
      BY <1>4, <2>1 DEF MergeInOrder
    <3> QED
      BY <1>0, <1>8, <3>1
  <2> QED
    BY <1>4, <2>1
<1>12. l <= recon.there \/ recon.targetDone
  <2>1. CASE recon.targetPage # {}
    <3>1. PICK j \in recon.targetPage : j <= recon.there
      BY <1>4, <2>1 DEF MergeInOrder
    <3> QED
      BY <1>0, <1>8, <3>1
  <2> QED
    BY <1>4, <2>1
<1>13. recon'.sourceOnly \cap targetLocks' = {} /\ recon'.targetOnly \cap Throughout' = {}
  BY <1>4, <1>5, <1>7, <1>9, <1>10 DEF MergeInv
<1>14. MergeInOrder'
  <2>a. \A j \in (recon.sourcePage \ {l}) \cup (recon.targetPage \ {l}) :
          j \in recon.sourcePage \cup recon.targetPage /\ l < j
    BY <1>8
  <2> USE <1>4, <1>5, <1>7
  <2>1. recon'.sourcePage \cap recon'.gone = {}
    BY DEF MergeInOrder
  <2>2. /\ \A k \in recon'.sourcePage : k <= recon'.after
        /\ recon'.targetPage \subseteq targetLocks
        /\ \A k \in recon'.targetPage : k <= recon'.there
        /\ recon'.sourceDone => recon'.sourcePage = {} /\ \A k \in Throughout : k <= recon'.after
        /\ recon'.targetDone => recon'.targetPage = {} /\ \A k \in targetLocks : k <= recon'.there
    BY DEF MergeInOrder
  <2>3. ASSUME NEW k \in Throughout, k <= recon.after, k \notin recon'.sourcePage
        PROVE  /\ \A j \in recon'.sourcePage \cup recon'.targetPage : k < j
               /\ k <= recon.there \/ recon.targetDone
               /\ k \in targetLocks \cup recon'.sourceOnly
    <3>1. CASE k = l
      BY <1>12, <2>a, <3>1 DEF MergeInOrder
    <3>2. CASE k # l
      <4>1. /\ \A j \in recon.sourcePage \cup recon.targetPage : k < j
            /\ k <= recon.there \/ recon.targetDone
            /\ k \in targetLocks \cup recon.sourceOnly
        BY <2>3, <3>2 DEF MergeInOrder
      <4> QED
        BY <2>a, <4>1
    <3> QED
      BY <3>1, <3>2
  <2>4. ASSUME NEW k \in targetLocks, k <= recon.there, k \notin recon'.targetPage
        PROVE  /\ \A j \in recon'.sourcePage \cup recon'.targetPage : k < j
               /\ k <= recon.after \/ recon.sourceDone
               /\ k \in recon.gone => k \in recon'.targetOnly
    <3>1. CASE k = l
      <4>1. k \in recon.gone => k \notin recon.sourcePage
        BY <3>1 DEF MergeInOrder
      <4> QED
        BY <1>11, <2>a, <3>1, <4>1
    <3>2. CASE k # l
      <4>1. /\ \A j \in recon.sourcePage \cup recon.targetPage : k < j
            /\ k <= recon.after \/ recon.sourceDone
            /\ k \in recon.gone => k \in recon.targetOnly
        BY <2>4, <3>2 DEF MergeInOrder
      <4> QED
        BY <2>a, <4>1
    <3> QED
      BY <3>1, <3>2
  <2> QED
    BY <2>1, <2>2, <2>3, <2>4 DEF MergeInOrder
<1>15. MergeInv'
  BY <1>4, <1>5, <1>7, <1>13, <1>14 DEF MergeInv, DifferencesAreReal, sourceSide
<1> QED
  BY <1>4, <1>5, <1>6, <1>15, MergeKeepsRest

\* Both streams are at their ends: everything was compared.
LEMMA EndKeepsReconcile ==
  ASSUME ReconcileIInv, EndReconcile
  PROVE  ReconcileIInv'
<1> USE DEF ReconcileIInv, ReconOK
<1>1. /\ recon \in ReconState /\ recon.at = "keys" /\ MergeInOrder
      /\ recon.sourcePage = {} /\ recon.targetPage = {} /\ recon.sourceDone /\ recon.targetDone
      /\ UNCHANGED <<sourceSide, targetLocks, siteThere>>
      /\ recon' = [recon EXCEPT !.at = "report", !.after = 0]
  BY DEF EndReconcile, Comparable, NeedSource, NeedTarget, ReconGoes, MergeInv
<1>2. /\ recon'.at = "report" /\ recon'.before = recon.before /\ recon'.gone = recon.gone
      /\ recon'.sourceOnly = recon.sourceOnly /\ recon'.targetOnly = recon.targetOnly
      /\ recon'.stale = recon.stale /\ recon'.first = recon.first /\ recon'.apply = recon.apply
      /\ ReconOK'
  BY ZenonT(30), <1>1 DEF ReconState, ReconAt
<1>3. /\ \A k \in Throughout : k \in targetLocks \cup recon.sourceOnly
      /\ \A k \in targetLocks : k \in recon.gone => k \in recon.targetOnly
  BY <1>1 DEF MergeInOrder
<1>4. MergeInv'
  BY <1>1, <1>2, <1>3 DEF MergeInv, DifferencesAreReal, Throughout, sourceSide
<1> QED
  BY <1>1, <1>2, <1>4, MergeKeepsRest

\* What a pass removes is gone in the source, what it shows is whole, and what
\* it reports differs, although the source works all the time.
THEOREM PassActsOnWhatIs == ReconcileSpec => []ReconcileInv
<1>1. ReconcileIInv /\ [ReconcileNext]_reconcileVars => ReconcileIInv'
  BY SourceKeepsReconcile, StartKeepsReconcile, ScansKeepReconcile, SnapshotKeepsReconcile,
     SourcePageKeepsReconcile, TargetPageKeepsReconcile, CompareKeepsReconcile,
     EndKeepsReconcile
  DEF ReconcileNext
<1>2. ReconcileIInv => ReconcileInv
  BY DEF ReconcileIInv, ReconcileInv, RowsComeFromSource, ShowsWhatItRead, MergeInv,
         OnlyDeadRowsRemoved
<1> QED
  BY InitReconcile, <1>1, <1>2, PTL DEF ReconcileSpec

-----------------------------------------------------------------------------
\* All of it: what is copied is whole, and what is removed, shown or reported is
\* right.
THEOREM CopiesAreRight ==
  ASSUME OverlapCoversCommits
  PROVE  MigrationSpec /\ ReconcileSpec => []CopyIsChecked
<1>1. PassIsWhole /\ ReconcileInv => CopyIsChecked
  BY DEF CopyIsChecked
<1> QED
  BY <1>1, PassesDoTheirWork, PassActsOnWhatIs, PTL
=============================================================================
