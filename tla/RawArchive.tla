----------------------------- MODULE RawArchive -----------------------------
(***************************************************************************)
(* The archive of raw API snapshots (lib/archive) and the sweep that drops  *)
(* their payloads from the database afterwards (lib/retention/rawPayload).  *)
(*                                                                         *)
(* Archivers claim a row of raw_snapshot_archives with a lease, upload the  *)
(* payload under a key that is a function of the snapshot, read it back and *)
(* mark the row.  A lease can end while its archiver is still at work: then *)
(* a second one does the same for the same row.  Neither mark checks whose  *)
(* row it is.                                                               *)
(*                                                                         *)
(* A snapshot is a number, in the order of created_at.  The lengths of      *)
(* leases and backoffs are left out: they end at some time.                 *)
(***************************************************************************)
EXTENDS Integers, FiniteSets

CONSTANTS
    Snapshot,       \* the rows of raw_api_snapshots, oldest first
    Damaged,        \* those whose payload no longer has its recorded checksum
    Archiver,       \* requests that archive
    Sweeper,        \* requests that sweep
    EnqueueLimit,   \* snapshots enqueued by a request
    ScanLimit,      \* snapshots a sweep looks at
    SweepBatch,     \* payloads a sweep removes
    MaxDamage       \* bound: uploads that leave other bytes than were sent

ASSUME RawArchiveAssumption ==
    /\ Snapshot \subseteq Nat /\ IsFiniteSet(Snapshot)
    /\ Damaged \subseteq Snapshot
    /\ EnqueueLimit \in Nat \ {0} /\ ScanLimit \in Nat \ {0} /\ SweepBatch \in Nat \ {0}
    /\ MaxDamage \in Nat

VARIABLES
    payload,        \* raw_api_snapshots.payload: is it still there
    archive,        \* rows of raw_snapshot_archives
    object,         \* the object stored for a snapshot
    archiver,       \* what each archiving request is doing
    sweeper,        \* what each sweeping request is doing
    damage          \* uploads that went wrong so far

rawVars == <<payload, archive, object, archiver, sweeper, damage>>

NoRow == [status |-> "none", leased |-> FALSE, backoff |-> FALSE, grace |-> "none"]

AtRest == [at |-> "idle", snapshots |-> {}]
Down == [at |-> "down", snapshots |-> {}]

RawInit ==
    /\ payload = [s \in Snapshot |-> TRUE]
    /\ archive = [s \in Snapshot |-> NoRow]
    /\ object = [s \in Snapshot |-> "none"]
    /\ archiver = [w \in Archiver |-> AtRest]
    /\ sweeper = [x \in Sweeper |-> AtRest]
    /\ damage = 0

RawTypeOK ==
    /\ payload \in [Snapshot -> BOOLEAN]
    /\ archive \in [Snapshot -> [status : {"none", "pending", "uploading", "verified", "failed"},
                                 leased : BOOLEAN, backoff : BOOLEAN,
                                 grace : {"none", "running", "over"}]]
    /\ object \in [Snapshot -> {"none", "good", "bad"}]
    /\ archiver \in [Archiver -> [at : {"idle", "down", "enqueue", "read", "put", "check", "mark", "fail", "lost"},
                                  snapshots : SUBSET Snapshot]]
    /\ sweeper \in [Sweeper -> [at : {"idle", "sweep", "locked"}, snapshots : SUBSET Snapshot]]
    /\ damage \in 0..MaxDamage

OldestOf(S) == CHOOSE s \in S : \A t \in S : s <= t
Oldest(limit, S) == {s \in S : Cardinality({t \in S : t < s}) < limit}

\* The row of the archive is locked by a removal that has not committed.
RowLocked(s) == \E x \in Sweeper : sweeper[x].at = "locked" /\ OldestOf(sweeper[x].snapshots) = s

Resting(w) == archiver[w].at \in {"idle", "down"}
WorksOn(w, s) == ~Resting(w) /\ s \in archiver[w].snapshots

ArchiverGoesTo(w, at) == archiver' = [archiver EXCEPT ![w].at = at]
ArchiverRests(w) == archiver' = [archiver EXCEPT ![w] = AtRest]

-----------------------------------------------------------------------------
(* Archiving *)

\* enqueuePendingArchives: the oldest snapshots without a row are selected,
StartEnqueue(w) ==
    /\ Resting(w)
    /\ LET new == Oldest(EnqueueLimit, {s \in Snapshot : archive[s].status = "none"})
       IN  /\ new # {}
           /\ archiver' = [archiver EXCEPT ![w] = [at |-> "enqueue", snapshots |-> new]]
    /\ UNCHANGED <<payload, archive, object, sweeper, damage>>

\* and inserted one by one; INSERT IGNORE leaves a row alone that has come since.
EnqueueNext(w) ==
    /\ archiver[w].at = "enqueue"
    /\ LET s == OldestOf(archiver[w].snapshots)
           rest == archiver[w].snapshots \ {s}
       IN  /\ ~RowLocked(s)
           /\ archive' = IF archive[s].status # "none" THEN archive
                         ELSE [archive EXCEPT ![s].status = "pending"]
           /\ archiver' = [archiver EXCEPT ![w] =
                 IF rest = {} THEN AtRest ELSE [at |-> "enqueue", snapshots |-> rest]]
    /\ UNCHANGED <<payload, object, sweeper, damage>>

Claimable(s) ==
    \/ archive[s].status \in {"pending", "failed"} /\ ~archive[s].backoff
    \/ archive[s].status = "uploading" /\ ~archive[s].leased

\* claimNextArchive: FOR UPDATE SKIP LOCKED, the oldest that is due.
ClaimArchive(w) ==
    /\ Resting(w)
    /\ LET due == {s \in Snapshot : Claimable(s) /\ ~RowLocked(s)}
       IN  /\ due # {}
           /\ archive' = [archive EXCEPT ![OldestOf(due)] =
                            [@ EXCEPT !.status = "uploading", !.leased = TRUE]]
           /\ archiver' = [archiver EXCEPT ![w] = [at |-> "read", snapshots |-> {OldestOf(due)}]]
    /\ UNCHANGED <<payload, object, sweeper, damage>>

\* getRawPayload and its checksum.  A payload that is gone cannot be hashed.
ReadRawPayload(w) ==
    /\ archiver[w].at = "read"
    /\ LET s == OldestOf(archiver[w].snapshots)
       IN  ArchiverGoesTo(w, IF payload[s] /\ s \notin Damaged THEN "put" ELSE "fail")
    /\ UNCHANGED <<payload, archive, object, sweeper, damage>>

\* putObject: the bytes arrive whole; or others are stored, and the answer may
\* still be that all went well.
UploadPayload(w) ==
    /\ archiver[w].at = "put"
    /\ LET s == OldestOf(archiver[w].snapshots)
       IN  object' = [object EXCEPT ![s] = "good"]
    /\ ArchiverGoesTo(w, "check")
    /\ UNCHANGED <<payload, archive, sweeper, damage>>

UploadDamages(w) ==
    /\ archiver[w].at = "put"
    /\ damage < MaxDamage
    /\ damage' = damage + 1
    /\ LET s == OldestOf(archiver[w].snapshots)
       IN  object' = [object EXCEPT ![s] = "bad"]
    /\ \E at \in {"check", "lost"} : ArchiverGoesTo(w, at)
    /\ UNCHANGED <<payload, archive, sweeper>>

\* headObject, getObject and the checksums of both forms.
CheckUpload(w) ==
    /\ archiver[w].at = "check"
    /\ LET s == OldestOf(archiver[w].snapshots)
       IN  ArchiverGoesTo(w, IF object[s] = "good" THEN "mark" ELSE "fail")
    /\ UNCHANGED <<payload, archive, object, sweeper, damage>>

\* A request to the store fails or is not answered.
StoreRequestFails(w) ==
    /\ archiver[w].at \in {"put", "check"}
    /\ ArchiverGoesTo(w, "lost")
    /\ UNCHANGED <<payload, archive, object, sweeper, damage>>

\* markArchiveVerified, whatever the row has become.  The time of verification
\* is new each time.
MarkVerified(w) ==
    /\ archiver[w].at = "mark"
    /\ LET s == OldestOf(archiver[w].snapshots)
       IN  /\ ~RowLocked(s)
           /\ archive' = [archive EXCEPT ![s] =
                            [@ EXCEPT !.status = "verified", !.leased = FALSE, !.grace = "running"]]
    /\ ArchiverRests(w)
    /\ UNCHANGED <<payload, object, sweeper, damage>>

\* MUTANT: the next attempt need not wait.
FailedAtOnce(row) == [row EXCEPT !.status = "failed", !.leased = FALSE]

\* markArchiveFailed, whatever the row has become.  The next attempt waits.
FailedRow(row) == [row EXCEPT !.status = "failed", !.leased = FALSE, !.backoff = TRUE]

MarkFailed(w) ==
    /\ archiver[w].at \in {"fail", "lost"}
    /\ LET s == OldestOf(archiver[w].snapshots)
       IN  /\ ~RowLocked(s)
           /\ archive' = [archive EXCEPT ![s] = FailedRow(@)]
    /\ ArchiverRests(w)
    /\ UNCHANGED <<payload, object, sweeper, damage>>

\* The process that serves the request dies, or loses the database.
ArchiverDies(w) ==
    /\ ~Resting(w)
    /\ archiver' = [archiver EXCEPT ![w] = Down]
    /\ UNCHANGED <<payload, archive, object, sweeper, damage>>

-----------------------------------------------------------------------------
(* Time *)

ArchiveLeaseEnds(s) ==
    /\ archive[s].leased
    /\ archive' = [archive EXCEPT ![s].leased = FALSE]
    /\ UNCHANGED <<payload, object, archiver, sweeper, damage>>

\* BACKOFF: a backoff, a minute at least and an hour at most, outlasts the
\* rows that are due when it begins.
RetryDue(s) ==
    /\ archive[s].backoff
    /\ \A t \in Snapshot : ~Claimable(t)
    /\ archive' = [archive EXCEPT ![s].backoff = FALSE]
    /\ UNCHANGED <<payload, object, archiver, sweeper, damage>>

\* GRACE: the days of grace outlast every request that was at work on the row
\* when it was verified.
GraceEnds(s) ==
    /\ archive[s].grace = "running"
    /\ \A w \in Archiver : ~WorksOn(w, s)
    /\ archive' = [archive EXCEPT ![s].grace = "over"]
    /\ UNCHANGED <<payload, object, archiver, sweeper, damage>>

-----------------------------------------------------------------------------
(* The sweep *)

\* classify, and again under the lock in removeOnePayload.
Removable(s) ==
    /\ payload[s]
    /\ archive[s].status = "verified" /\ archive[s].grace = "over"

\* planRawPayloadRemoval: the removable ones of the oldest that have a payload.
StartSweep(x) ==
    /\ sweeper[x].at = "idle"
    /\ LET scanned == Oldest(ScanLimit, {s \in Snapshot : payload[s]})
           chosen == Oldest(SweepBatch, {s \in scanned : Removable(s)})
       IN  /\ chosen # {}
           /\ sweeper' = [sweeper EXCEPT ![x] = [at |-> "sweep", snapshots |-> chosen]]
    /\ UNCHANGED <<payload, archive, object, archiver, damage>>

SweepNextAfter(x) ==
    LET rest == sweeper[x].snapshots \ {OldestOf(sweeper[x].snapshots)}
    IN  sweeper' = [sweeper EXCEPT ![x] =
                      IF rest = {} THEN AtRest ELSE [at |-> "sweep", snapshots |-> rest]]

\* MUTANT: the object is not read again.
ReverifiedNot(s) == TRUE

\* reverify: the object, its decompressed bytes and the payload agree.
Reverified(s) == object[s] = "good" /\ s \notin Damaged

\* removeOnePayload: the rows are locked and every gate is checked again,
Recheck(x) ==
    /\ sweeper[x].at = "sweep"
    /\ LET s == OldestOf(sweeper[x].snapshots)
       IN  /\ ~RowLocked(s)
           /\ IF Removable(s) /\ Reverified(s)
              THEN sweeper' = [sweeper EXCEPT ![x].at = "locked"]
              ELSE SweepNextAfter(x)
    /\ UNCHANGED <<payload, archive, object, archiver, damage>>

\* then the payload is set to NULL.
RemovePayload(x) ==
    /\ sweeper[x].at = "locked"
    /\ payload' = [payload EXCEPT ![OldestOf(sweeper[x].snapshots)] = FALSE]
    /\ SweepNextAfter(x)
    /\ UNCHANGED <<archive, object, archiver, damage>>

\* The transaction is rolled back, or the process dies.
RemovalFails(x) ==
    /\ sweeper[x].at # "idle"
    /\ \/ SweepNextAfter(x)
       \/ sweeper' = [sweeper EXCEPT ![x] = AtRest]
    /\ UNCHANGED <<payload, archive, object, archiver, damage>>

-----------------------------------------------------------------------------
ArchiverStep(w) ==
    \/ StartEnqueue(w) \/ EnqueueNext(w)
    \/ ClaimArchive(w) \/ ReadRawPayload(w) \/ UploadPayload(w) \/ CheckUpload(w)
    \/ MarkVerified(w) \/ MarkFailed(w)

SweeperStep(x) == StartSweep(x) \/ Recheck(x) \/ RemovePayload(x)

RawFault == \E w \in Archiver : UploadDamages(w) \/ StoreRequestFails(w) \/ ArchiverDies(w)

RawTime == \E s \in Snapshot : ArchiveLeaseEnds(s) \/ RetryDue(s) \/ GraceEnds(s)

RawNext ==
    \/ \E w \in Archiver : ArchiverStep(w)
    \/ \E x \in Sweeper : SweeperStep(x) \/ RemovalFails(x)
    \/ RawFault
    \/ RawTime

\* Cron calls again and again, time goes on, and at some point archivers no longer
\* die and the store answers.  Removals may go on failing.
RawFairness ==
    /\ \A w \in Archiver : WF_rawVars(ArchiverStep(w))
    /\ \A x \in Sweeper : WF_rawVars(SweeperStep(x))
    /\ \A s \in Snapshot : WF_rawVars(ArchiveLeaseEnds(s)) /\ SF_rawVars(RetryDue(s)) /\ WF_rawVars(GraceEnds(s))
    /\ <>[][~RawFault]_rawVars

RawSpec == RawInit /\ [][RawNext]_rawVars /\ RawFairness

-----------------------------------------------------------------------------
\* A payload that is gone is in an object that is whole, and its row says so:
\* no archiver that lost its lease, no damaged upload and no second sweep can
\* undo that.
RemovedIsArchived ==
    \A s \in Snapshot : ~payload[s] => object[s] = "good" /\ archive[s].status = "verified"

\* A row that was enqueued is verified in the end and stays so, although the
\* archivers that had it died, failed or were overtaken, and although damaged
\* snapshots before it fail again and again.
EveryRowSettles ==
    \A s \in Snapshot \ Damaged :
        archive[s].status # "none" ~> [](archive[s].status = "verified")

\* At no time is the only copy of a payload one that cannot be restored.
RawInv == RawTypeOK /\ RemovedIsArchived
=============================================================================
