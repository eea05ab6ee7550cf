------------------------------ MODULE Reconcile ------------------------------
(***************************************************************************)
(* What a pass of scripts/dataset-migration does besides copying tables       *)
(* (Migration): it removes the locks that only the target has, makes the       *)
(* target show the snapshot that the source shows, and compares the keys of    *)
(* the two databases page by page.  Nothing of it is one transaction with      *)
(* anything else, and the source goes on working all the time.                *)
(*                                                                         *)
(* One table of keys, workflow_locks, stands for those that are compared.  A   *)
(* key is the rank of its hash.                                             *)
(***************************************************************************)
EXTENDS Integers, FiniteSets, FiniteSetsExt

CONSTANTS
    LockRow,        \* bound: keys of the rows the source may insert
    KeyPage,        \* rows of a page
    Snapshots,      \* bound: snapshots the source publishes, one after another
    Piece           \* the rows that belong to a snapshot

ASSUME ReconcileAssumption ==
    /\ LockRow \subseteq Nat \ {0} /\ IsFiniteSet(LockRow)
    /\ KeyPage \in Nat \ {0} /\ Snapshots \in Nat /\ Piece # {}

VARIABLES
    sourceLocks,    \* rows of the source
    pastLocks,      \* rows the source had and has deleted
    targetLocks,    \* rows of the target
    published,      \* the source's snapshots are 1..published, the last is current
    snapshotRows,   \* snapshots that have a row in the target
    pieces,         \* their rows in the target
    shownThere,     \* the current snapshot of the target, 0 if there is none
    recon           \* the pass

sourceSide == <<sourceLocks, pastLocks, published>>
siteThere == <<snapshotRows, pieces, shownThere>>
reconcileVars == <<sourceSide, targetLocks, siteThere, recon>>

NotRunning ==
    [at |-> "idle", apply |-> FALSE, deletes |-> FALSE, first |-> 0,
     after |-> 0, seen |-> {}, stale |-> {}, snapshot |-> 0, pieces |-> {},
     there |-> 0, sourcePage |-> {}, targetPage |-> {}, sourceDone |-> FALSE, targetDone |-> FALSE,
     sourceOnly |-> {}, targetOnly |-> {}, before |-> {}, gone |-> {}]

ReconcileInit ==
    /\ sourceLocks = {} /\ pastLocks = {} /\ published = 0
    /\ targetLocks = {}
    /\ snapshotRows = {} /\ pieces = {} /\ shownThere = 0
    /\ recon = NotRunning

PiecesOf(snapshot) == {snapshot} \X Piece

-----------------------------------------------------------------------------
(* The source *)

InsertLock(l) ==
    /\ l \notin sourceLocks \cup pastLocks
    /\ sourceLocks' = sourceLocks \cup {l}
    /\ UNCHANGED <<pastLocks, published, targetLocks, siteThere, recon>>

\* Retention deletes the rows of old locks.
DeleteLock(l) ==
    /\ l \in sourceLocks
    /\ sourceLocks' = sourceLocks \ {l} /\ pastLocks' = pastLocks \cup {l}
    /\ UNCHANGED <<published, targetLocks, siteThere, recon>>

PublishNext ==
    /\ published < Snapshots
    /\ published' = published + 1
    /\ UNCHANGED <<sourceLocks, pastLocks, targetLocks, siteThere, recon>>

-----------------------------------------------------------------------------
(* Locks that only the target has *)

ReconGoes(at) == recon' = [recon EXCEPT !.at = at, !.after = 0]

\* keyPage: the next rows in the order of the key.
NextPage(rows, after) ==
    LET rest == {l \in rows : l > after}
    IN  {l \in rest : Cardinality({k \in rest : k < l}) < KeyPage}

StartReconcile(apply, deletes) ==
    /\ recon.at = "idle"
    /\ recon' = [NotRunning EXCEPT !.at = "scanSource", !.apply = apply, !.deletes = deletes,
                                   !.first = published]
    /\ UNCHANGED <<sourceSide, targetLocks, siteThere>>

\* MUTANT: each page replaces the one before.
SeenLast(page) == page

Seen(page) == recon.seen \cup page

ScanSource ==
    /\ recon.at = "scanSource"
    /\ LET page == NextPage(sourceLocks, recon.after)
       IN  IF page = {} THEN ReconGoes("scanTarget")
           ELSE recon' = [recon EXCEPT !.seen = Seen(page), !.after = Max(page)]
    /\ UNCHANGED <<sourceSide, targetLocks, siteThere>>

ScanTarget ==
    /\ recon.at = "scanTarget"
    /\ LET page == NextPage(targetLocks, recon.after)
       IN  IF page = {} THEN ReconGoes(IF recon.apply /\ recon.deletes THEN "delete" ELSE "copy")
           ELSE recon' = [recon EXCEPT !.stale = @ \cup (page \ recon.seen), !.after = Max(page)]
    /\ UNCHANGED <<sourceSide, targetLocks, siteThere>>

\* One transaction for each page of what the scan has found.
DeletePage ==
    /\ recon.at = "delete"
    /\ LET page == NextPage(recon.stale, recon.after)
       IN  IF page = {} THEN ReconGoes("copy") /\ UNCHANGED targetLocks
           ELSE /\ targetLocks' = targetLocks \ page
                /\ recon' = [recon EXCEPT !.after = Max(page)]
    /\ UNCHANGED <<sourceSide, siteThere>>

\* The engine copies locks, snapshots and their rows (see Migration); rows of
\* snapshots are copied in a table of their own, and page by page.
CopyTables ==
    /\ recon.at = "copy"
    /\ recon' = [recon EXCEPT !.at = "snapshot", !.after = 0, !.seen = {}, !.stale = {}]
    /\ IF recon.apply
       THEN \E some \in {{}, PiecesOf(published), PiecesOf(published - 1)} :
              /\ targetLocks' = targetLocks \cup sourceLocks
              /\ snapshotRows' = 1..published
              /\ pieces' = pieces \cup {x \in some : x[1] > 0}
       ELSE UNCHANGED <<targetLocks, snapshotRows, pieces>>
    /\ UNCHANGED <<sourceSide, shownThere>>

-----------------------------------------------------------------------------
(* The snapshot that is shown: reconcileCurrentPublication *)

ReadSnapshot ==
    /\ recon.at = "snapshot"
    /\ recon' = [recon EXCEPT !.at = IF published = 0 THEN "keys" ELSE "pieces",
                              !.snapshot = published,
                              !.before = sourceLocks, !.gone = pastLocks]
    /\ UNCHANGED <<sourceSide, targetLocks, siteThere>>

\* MUTANT: the rows of the snapshot that is current by now.
PiecesOfCurrent(snapshot) == PiecesOf(published)

\* The rows are read by the id of the snapshot.
PiecesRead(snapshot) == PiecesOf(snapshot)

ReadPieces ==
    /\ recon.at = "pieces"
    /\ recon' = [recon EXCEPT !.at = "show", !.pieces = PiecesRead(recon.snapshot)]
    /\ UNCHANGED <<sourceSide, targetLocks, siteThere>>

\* One transaction: rows that are missing, rows that are stale, the two flags.
\* A dry run rolls back.
ShowThere ==
    /\ recon.at = "show"
    /\ recon' = [recon EXCEPT !.at = "keys", !.snapshot = 0, !.pieces = {},
                              !.before = sourceLocks, !.gone = pastLocks]
    /\ IF recon.apply
       THEN /\ snapshotRows' = snapshotRows \cup {recon.snapshot}
            /\ pieces' = recon.pieces \cup {x \in pieces : x[1] # recon.snapshot}
            /\ shownThere' = recon.snapshot
       ELSE UNCHANGED siteThere
    /\ UNCHANGED <<sourceSide, targetLocks>>

-----------------------------------------------------------------------------
(* The comparison of keys: antiJoinKeys merges two ordered streams of pages *)

NeedSource == recon.sourcePage = {} /\ ~recon.sourceDone
NeedTarget == recon.targetPage = {} /\ ~recon.targetDone

ReadSourceKeys ==
    /\ recon.at = "keys" /\ NeedSource
    /\ LET page == NextPage(sourceLocks, recon.after)
       IN  recon' = [recon EXCEPT !.sourcePage = page, !.sourceDone = page = {},
                                  !.after = IF page = {} THEN @ ELSE Max(page)]
    /\ UNCHANGED <<sourceSide, targetLocks, siteThere>>

ReadTargetKeys ==
    /\ recon.at = "keys" /\ ~NeedSource /\ NeedTarget
    /\ LET page == NextPage(targetLocks, recon.there)
       IN  recon' = [recon EXCEPT !.targetPage = page, !.targetDone = page = {},
                                  !.there = IF page = {} THEN @ ELSE Max(page)]
    /\ UNCHANGED <<sourceSide, targetLocks, siteThere>>

\* MUTANT: a stream whose page is used up counts as ended.
ComparableWithOne == recon.sourcePage # {} \/ recon.targetPage # {}

Comparable == ~NeedSource /\ ~NeedTarget /\ (recon.sourcePage # {} \/ recon.targetPage # {})

\* The smaller of the first keys of the two pages.
CompareKeys ==
    /\ recon.at = "keys" /\ Comparable
    /\ LET l == Min(recon.sourcePage \cup recon.targetPage)
       IN  recon' = [recon EXCEPT
              !.sourcePage = @ \ {l}, !.targetPage = @ \ {l},
              !.sourceOnly = IF l \in recon.targetPage THEN @ ELSE @ \cup {l},
              !.targetOnly = IF l \in recon.sourcePage THEN @ ELSE @ \cup {l}]
    /\ UNCHANGED <<sourceSide, targetLocks, siteThere>>

EndReconcile ==
    /\ recon.at = "keys" /\ ~NeedSource /\ ~NeedTarget /\ ~Comparable
    /\ ReconGoes("report")
    /\ UNCHANGED <<sourceSide, targetLocks, siteThere>>

\* The report is written; or an error, or the death of the process, ends it.
ReconStops ==
    /\ recon.at # "idle"
    /\ recon' = NotRunning
    /\ UNCHANGED <<sourceSide, targetLocks, siteThere>>

ReconcileNext ==
    \/ \E l \in LockRow : InsertLock(l) \/ DeleteLock(l)
    \/ PublishNext
    \/ \E apply, deletes \in BOOLEAN : StartReconcile(apply, deletes)
    \/ ScanSource \/ ScanTarget \/ DeletePage \/ CopyTables
    \/ ReadSnapshot \/ ReadPieces \/ ShowThere
    \/ ReadSourceKeys \/ ReadTargetKeys \/ CompareKeys \/ EndReconcile
    \/ ReconStops

ReconcileSpec == ReconcileInit /\ [][ReconcileNext]_reconcileVars

-----------------------------------------------------------------------------
ReconcileTypeOK ==
    /\ sourceLocks \subseteq LockRow /\ pastLocks \subseteq LockRow
    /\ targetLocks \subseteq LockRow
    /\ published \in 0..Snapshots /\ shownThere \in 0..Snapshots
    /\ snapshotRows \subseteq 1..Snapshots /\ pieces \subseteq (1..Snapshots) \X Piece

\* No row is chosen for removal that the source still has, although the two scans
\* are pages at different times and locks come and go in between; one that is
\* gone does not come back.
OnlyDeadRowsRemoved == recon.stale \cap sourceLocks = {}

\* Whatever the target shows is whole, and never older than what the source
\* showed when the pass began, although the source publishes between the reads.
TargetShowsWhole ==
    /\ shownThere # 0 => shownThere \in snapshotRows /\ PiecesOf(shownThere) \subseteq pieces
    /\ recon.at \in {"keys", "report"} /\ recon.apply => shownThere >= recon.first

\* A comparison reports what differs all the time it takes, rows included that the
\* source deleted before it, and nothing that is on both sides all the time.
DifferencesAreReal ==
    LET throughout == recon.before \cap sourceLocks
    IN  recon.at = "report" =>
          /\ throughout \ targetLocks \subseteq recon.sourceOnly
          /\ recon.sourceOnly \cap targetLocks = {}
          /\ targetLocks \cap recon.gone \subseteq recon.targetOnly
          /\ recon.targetOnly \cap throughout = {}

ReconcileInv ==
    /\ ReconcileTypeOK /\ OnlyDeadRowsRemoved /\ TargetShowsWhole /\ DifferencesAreReal
=============================================================================
