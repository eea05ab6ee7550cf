-------------------------- MODULE SchemaMigrations --------------------------
(***************************************************************************)
(* The runner of schema migrations (scripts/migrate.mjs up).  A run takes a     *)
(* named lock, reads the files and what has been applied, refuses to go on over  *)
(* an applied file that was edited, and applies what is pending in the order of   *)
(* the versions: the statements of a file, then its row in schema_migrations.     *)
(*                                                                         *)
(* The files consist of CREATE and ALTER TABLE, for which the database commits    *)
(* the open transaction: a run that is cut short leaves the statements it has      *)
(* done, and a statement that has been done fails when it is done again.           *)
(***************************************************************************)
EXTENDS Integers, FiniteSets, FiniteSetsExt

CONSTANTS
    Version,        \* numbers of migrations
    Text,           \* contents that a file may have
    Statements,     \* Statements[v]: how many a file has
    AcceptedPrior,  \* pairs <<version, text>>: applied so, whatever the file is now
    Runner,         \* runs of the script that can be in progress at once
    NoText

ASSUME MigrationsAssumption ==
    /\ Version \subseteq Nat /\ Statements \in [Version -> Nat \ {0}]
    /\ AcceptedPrior \subseteq Version \X Text /\ NoText \notin Text

VARIABLES
    file,           \* text of each file of the directory
    done,           \* statements of each version that the database has done
    recorded,       \* checksum in schema_migrations
    namedLock,      \* the runs that have the named lock: none or one
    runner,
    cut             \* versions that a run was cut short in

migrationVars == <<file, done, recorded, namedLock, runner, cut>>

NoRun(at) == [at |-> at, files |-> [v \in Version |-> NoText], pending |-> {}]

MigrationsInit ==
    /\ file = [v \in Version |-> NoText]
    /\ done = [v \in Version |-> 0]
    /\ recorded = [v \in Version |-> NoText]
    /\ namedLock = {} /\ cut = {}
    /\ runner = [x \in Runner |-> NoRun("idle")]

-----------------------------------------------------------------------------
(* The directory of the deployed revision *)

AddFile(v, text) ==
    /\ file[v] = NoText
    /\ file' = [file EXCEPT ![v] = text]
    /\ UNCHANGED <<done, recorded, namedLock, runner, cut>>

EditFile(v, text) ==
    /\ file[v] \notin {NoText, text}
    /\ file' = [file EXCEPT ![v] = text]
    /\ UNCHANGED <<done, recorded, namedLock, runner, cut>>

-----------------------------------------------------------------------------
(* cmdUp *)

IsAcceptedPriorChecksum(v, text) == <<v, text>> \in AcceptedPrior

\* MUTANT: only files that are still to be applied are compared.
PendingDrift(files) ==
    \E v \in Version : recorded[v] = NoText /\ files[v] \notin {NoText, recorded[v]}

\* verifyNoChecksumDrift finds an applied file that was edited.
ChecksumDrift(files) ==
    \E v \in Version :
        /\ NoText \notin {files[v], recorded[v]} /\ files[v] # recorded[v]
        /\ ~IsAcceptedPriorChecksum(v, recorded[v])

\* The table of applied migrations exists.
StartUp(x) ==
    /\ runner[x].at = "idle"
    /\ runner' = [runner EXCEPT ![x] = NoRun("lock")]
    /\ UNCHANGED <<file, done, recorded, namedLock, cut>>

\* MUTANT: GET_LOCK is not looked at.
LockAnyway(x) == TRUE

LockGranted(x) == namedLock = {}

\* GET_LOCK waits; the files are read once it has been granted.
GetLock(x) ==
    /\ runner[x].at = "lock" /\ LockGranted(x)
    /\ namedLock' = {x}
    /\ runner' = [runner EXCEPT ![x].at = "read", ![x].files = file]
    /\ UNCHANGED <<file, done, recorded, cut>>

LockTimesOut(x) ==
    /\ runner[x].at = "lock" /\ namedLock # {}
    /\ runner' = [runner EXCEPT ![x] = NoRun("idle")]
    /\ UNCHANGED <<file, done, recorded, namedLock, cut>>

Pending(files) == {v \in Version : files[v] # NoText /\ recorded[v] = NoText}

\* MUTANT: newest first.
NewestOf(pending) == Max(pending)

\* The files are gone through in the order of their names.
FirstOf(pending) == Min(pending)

\* loadAppliedMigrations, verifyNoChecksumDrift and the list of what is pending.
LoadApplied(x) ==
    /\ runner[x].at = "read"
    /\ runner' = [runner EXCEPT ![x] =
            IF ChecksumDrift(runner[x].files) THEN NoRun("release")
            ELSE [@ EXCEPT !.at = "apply", !.pending = Pending(runner[x].files)]]
    /\ UNCHANGED <<file, done, recorded, namedLock, cut>>

\* The next statement of the first pending file: it is executed and committed, or
\* fails because it was executed before.
Execute(x) ==
    /\ runner[x].at \in {"apply", "applying"} /\ runner[x].pending # {}
    /\ LET v == FirstOf(runner[x].pending)
       IN  /\ runner[x].at = "apply" \/ done[v] < Statements[v]
           /\ IF runner[x].at = "apply" /\ done[v] > 0
              THEN runner' = [runner EXCEPT ![x] = NoRun("failed")] /\ UNCHANGED done
              ELSE /\ done' = [done EXCEPT ![v] = @ + 1]
                   /\ runner' = [runner EXCEPT ![x].at = "applying"]
    /\ UNCHANGED <<file, recorded, namedLock, cut>>

Executed(v) == done[v] = Statements[v]

\* The row of the file; its version is the key of the table.
Record(x) ==
    /\ runner[x].at = "applying"
    /\ LET v == FirstOf(runner[x].pending)
       IN  /\ Executed(v)
           /\ IF recorded[v] # NoText
              THEN runner' = [runner EXCEPT ![x] = NoRun("failed")] /\ UNCHANGED recorded
              ELSE /\ recorded' = [recorded EXCEPT ![v] = runner[x].files[v]]
                   /\ runner' = [runner EXCEPT ![x].at = "apply", ![x].pending = @ \ {v}]
    /\ UNCHANGED <<file, done, namedLock, cut>>

AllApplied(x) ==
    /\ runner[x].at = "apply" /\ runner[x].pending = {}
    /\ runner' = [runner EXCEPT ![x] = NoRun("release")]
    /\ UNCHANGED <<file, done, recorded, namedLock, cut>>

\* RELEASE_LOCK, and the end of the connection.
ReleaseLock(x) ==
    /\ runner[x].at \in {"release", "failed"}
    /\ namedLock' = namedLock \ {x}
    /\ runner' = [runner EXCEPT ![x] = NoRun("idle")]
    /\ UNCHANGED <<file, done, recorded, cut>>

\* A statement fails, or the process dies: the lock goes with the connection.
RunIsCut(x) ==
    /\ runner[x].at \in {"read", "apply", "applying"}
    /\ namedLock' = namedLock \ {x}
    /\ cut' = IF runner[x].at = "applying" THEN cut \cup {FirstOf(runner[x].pending)} ELSE cut
    /\ runner' = [runner EXCEPT ![x] = NoRun("idle")]
    /\ UNCHANGED <<file, done, recorded>>

RunStep(x) ==
    GetLock(x) \/ LoadApplied(x) \/ Execute(x) \/ Record(x) \/ AllApplied(x) \/ ReleaseLock(x)

StartAny == \E x \in Runner : StartUp(x)

Edit == \E v \in Version, text \in Text : EditFile(v, text) \/ AddFile(v, text)

MigrationsNext ==
    \/ Edit
    \/ StartAny
    \/ \E x \in Runner : RunStep(x) \/ LockTimesOut(x) \/ RunIsCut(x)

\* Deployments go on, and runs are not cut for ever.
MigrationsFairness ==
    /\ \A x \in Runner : WF_migrationVars(RunStep(x))
    /\ WF_migrationVars(StartAny)
    /\ <>[][~\E x \in Runner : RunIsCut(x)]_migrationVars

MigrationsSpec == MigrationsInit /\ [][MigrationsNext]_migrationVars /\ MigrationsFairness

-----------------------------------------------------------------------------
MigrationsTypeOK ==
    /\ \A v \in Version : done[v] \in 0 .. Statements[v]
    /\ Cardinality(namedLock) <= 1 /\ namedLock \subseteq Runner
    /\ \A x \in Runner : runner[x].at \in {"read", "apply", "applying", "release", "failed"} => x \in namedLock

\* A row of schema_migrations stands for a schema: all statements of the file it
\* names have been done, and each pending one either not at all or by a run that
\* is still at it or was cut short.
RecordedIsDone ==
    \A v \in Version :
        /\ recorded[v] # NoText => done[v] = Statements[v]
        /\ recorded[v] = NoText /\ done[v] > 0 => \/ v \in cut
                                                  \/ \E x \in Runner : runner[x].at = "applying"

\* Runs never make each other fail: one that meets a statement that was done
\* before comes after a run that was cut short.
OnlyCutsFail == (\E x \in Runner : runner[x].at = "failed") => cut # {}

\* The schema is what schema_migrations says, and only a run that was cut short can
\* make one fail.
MigrationsInv == MigrationsTypeOK /\ RecordedIsDone /\ OnlyCutsFail

\* "Later pending migrations are never attempted", and nothing is applied over an
\* applied file that was edited: while there is either, the schema stays.
NothingPastAFault ==
    [][\A v \in Version : done'[v] # done[v] =>
          /\ \A u \in cut : v <= u
          /\ \A x \in Runner, u \in Version :
                x \in namedLock /\ recorded[u] \notin {NoText, runner[x].files[u]}
                    => runner[x].files[u] = NoText \/ <<u, recorded[u]>> \in AcceptedPrior]_migrationVars

\* When files no longer change, every file is applied some day, unless a run was
\* cut short in one or an applied one was edited: those need a hand.
AllIsApplied ==
    <>[][~Edit]_migrationVars
        => <>[](\/ cut # {}
                \/ \E v \in Version : /\ recorded[v] \notin {NoText, file[v]}
                                     /\ <<v, recorded[v]>> \notin AcceptedPrior
                \/ \A v \in Version : file[v] # NoText => recorded[v] # NoText)
=============================================================================
