----------------------------- MODULE Migration ------------------------------
(***************************************************************************)
(* The incremental copy of scripts/dataset-migration: a pass copies the    *)
(* rows of a live source database to a target, table by table and page by   *)
(* page, between a lower cursor and an upper watermark fixed when the       *)
(* table's pass begins, and keeps its progress in one state file per table. *)
(*                                                                         *)
(* Two tables stand for the plans of model.ts: "parents" is a run table     *)
(* (workflow_runs, aggregation_runs, ...), read in order of created_at, and *)
(* "children" has a foreign key to it and is read in order of a hash of its *)
(* primary key.  A position is a created_at and an id in one integer, or    *)
(* the rank of a child's hash.                                             *)
(*                                                                         *)
(* The source goes on working: a row gets its created_at before its         *)
(* transaction commits.  A pass can fail, be retried, or die at any step.   *)
(*                                                                         *)
(* A definition whose comment starts with MUTANT is a faulty variant of    *)
(* the one that follows it and is used by nothing.                         *)
(***************************************************************************)
EXTENDS Integers, FiniteSets

CONSTANTS
    SourceRun,      \* ids 1, 2, ... of the parent rows the source may create
    Child,          \* child rows, numbered in the order of their hashes
    ForeignKey,     \* the parent row of each child row
    Statuses,       \* parent statuses whose children are copied: final ones, or all
    Overlap,        \* overlap-seconds, in ticks
    LateBy,         \* longest time between a created_at and its commit, in ticks
    MaxClock,       \* bound: the source's clock
    PageSize,       \* rows of a page
    MaxRetries,     \* attempts of a page after the first
    Selections      \* the sets of tables an operator runs a pass over

ASSUME MigrationAssumption ==
    /\ SourceRun \subseteq Nat \ {0} /\ IsFiniteSet(SourceRun)
    /\ Child \subseteq Nat \ {0} /\ IsFiniteSet(Child)
    /\ ForeignKey \in [Child -> SourceRun]
    /\ \A p \in SourceRun : p <= Cardinality(SourceRun)
    /\ Statuses \subseteq {"running", "done"}
    /\ "running" \in Statuses => "done" \in Statuses
    /\ Overlap \in Nat /\ LateBy \in Nat /\ MaxClock \in Nat
    /\ PageSize \in Nat \ {0} /\ MaxRetries \in Nat
    /\ Selections \subseteq SUBSET {"parents", "children"} \ {{}}

\* Overlap has to cover the longest open INSERT of the source.
OverlapCoversCommits == LateBy <= Overlap

VARIABLES
    clock,          \* the source's clock
    source,         \* its parent rows
    sourceKids,     \* its child rows
    target,         \* status of the target's parent rows
    targetKids,     \* the target's child rows
    file,           \* the state files
    pass,           \* the process that runs a pass
    due             \* children the newest pass over "children" had to copy

sourceVars == <<clock, source, sourceKids>>
targetVars == <<target, targetKids>>
migrationVars == <<sourceVars, targetVars, file, pass, due>>

Table == {"parents", "children"}

Null == -1000               \* no cursor: below every position
Width == Cardinality(SourceRun) + 2
Position(p) == source[p].at * Width + p
SecondOf(cursor) == cursor \div Width

NoState == [status |-> "none", cursor |-> Null, upper |-> Null, overlap |-> Null]

NoPass == [at |-> "idle", tables |-> {}, table |-> "parents", resumed |-> FALSE, page |-> <<>>, tries |-> 0, ids |-> {}, settled |-> {}]

MigrationInit ==
    /\ clock = 0
    /\ source = [p \in SourceRun |-> [status |-> "absent", at |-> 0]]
    /\ sourceKids = {}
    /\ target = [p \in SourceRun |-> "absent"]
    /\ targetKids = {}
    /\ file = [t \in Table |-> NoState]
    /\ pass = NoPass
    /\ due = {}

PassAt == {"idle", "open", "page", "apply", "save", "rescan", "reread", "reapply", "close"}

MigrationTypeOK ==
    /\ clock \in 0..MaxClock
    /\ source \in [SourceRun -> [status : {"absent", "open", "running", "done"}, at : 0..MaxClock]]
    /\ sourceKids \subseteq Child
    /\ target \in [SourceRun -> {"absent", "running", "done"}]
    /\ targetKids \subseteq Child
    /\ file \in [Table -> [status : {"none", "running", "completed", "failed"},
                          cursor : Int, upper : Int, overlap : Int]]
    /\ pass.at \in PassAt /\ pass.table \in Table
    /\ pass.tries \in 0..MaxRetries
    /\ pass.ids \subseteq SourceRun /\ pass.settled \subseteq SourceRun
    /\ due \subseteq Child

-----------------------------------------------------------------------------
(* The source *)

Visible == {p \in SourceRun : source[p].status \in {"running", "done"}}

\* A transaction inserts a run: created_at is set, nobody else sees the row.
InsertParent(p) ==
    /\ source[p].status = "absent"
    /\ source' = [source EXCEPT ![p] = [status |-> "open", at |-> clock]]
    /\ UNCHANGED <<clock, sourceKids, targetVars, file, pass, due>>

CommitParent(p) ==
    /\ source[p].status = "open"
    /\ source' = [source EXCEPT ![p].status = "running"]
    /\ UNCHANGED <<clock, sourceKids, targetVars, file, pass, due>>

FinishParent(p) ==
    /\ source[p].status = "running"
    /\ source' = [source EXCEPT ![p].status = "done"]
    /\ UNCHANGED <<clock, sourceKids, targetVars, file, pass, due>>

InsertChild(c) ==
    /\ c \notin sourceKids
    /\ source[ForeignKey[c]].status = "running"
    /\ sourceKids' = sourceKids \cup {c}
    /\ UNCHANGED <<clock, source, targetVars, file, pass, due>>

Second ==
    /\ clock < MaxClock
    /\ \A p \in SourceRun : source[p].status = "open" => clock < source[p].at + LateBy
    /\ clock' = clock + 1
    /\ UNCHANGED <<source, sourceKids, targetVars, file, pass, due>>

-----------------------------------------------------------------------------
(* What a page is read from *)

Highest(S) == IF S = {} THEN Null ELSE CHOOSE x \in S : \A y \in S : y <= x

PositionIn(t, x) == IF t = "parents" THEN Position(x) ELSE x

\* upperWatermark: the last position of the whole table.
UpperWatermark(t) ==
    Highest({PositionIn(t, x) : x \in IF t = "parents" THEN Visible ELSE sourceKids})

\* MUTANT: the next pass starts at the old cursor.
NoOverlap(cursor) == cursor

\* startWithOverlap for a time cursor: the id is empty, so the row at exactly
\* that time is read again.
StartWithOverlap(cursor) ==
    IF cursor = Null THEN Null ELSE (SecondOf(cursor) - Overlap) * Width

\* pagePredicate: (lower, upper].
Between(lower, x, upper) == lower < x /\ x <= upper

\* The parents whose children are read: those in the range of the parents'
\* state file, and with a status that counts.
ChosenParents(parents) ==
    {p \in Visible : /\ source[p].status \in Statuses
                     /\ parents.overlap # Null /\ parents.cursor # Null =>
                          Between(parents.overlap, Position(p), parents.cursor)}

Selection(t, lower, upper) ==
    IF t = "parents"
    THEN {p \in Visible : Between(lower, Position(p), upper)}
    ELSE {c \in sourceKids : /\ Between(lower, c, upper)
                             /\ ForeignKey[c] \in ChosenParents(file["parents"])}

FirstPage(t, S) ==
    {x \in S : Cardinality({y \in S : PositionIn(t, y) < PositionIn(t, x)}) < PageSize}

\* The rows as they are read: a parent's status can change afterwards.
AsRead(t, rows) ==
    [x \in rows |-> IF t = "parents" THEN source[x].status ELSE "done"]

-----------------------------------------------------------------------------
(* A pass *)

State == file[pass.table]
SetState(s) == file' = [file EXCEPT ![pass.table] = s]
PassGoes(at) == pass' = [pass EXCEPT !.at = at]

\* The process goes on with the next selected table, or ends.
NextTable ==
    IF pass.table = "parents" /\ "children" \in pass.tables
    THEN [NoPass EXCEPT !.at = "open", !.tables = pass.tables, !.table = "children"]
    ELSE NoPass

\* runSelection: the selected tables in the order of the plans.
StartPass(tables) ==
    /\ pass.at = "idle"
    /\ pass' = [NoPass EXCEPT !.at = "open", !.tables = tables,
                   !.table = IF "parents" \in tables THEN "parents" ELSE "children"]
    /\ UNCHANGED <<sourceVars, targetVars, file, due>>

\* The state a table's pass begins with: the interrupted one as it was, or a
\* new one between the overlap and the present end of the table.  Hash scans
\* begin at the first row.
OpeningState ==
    IF State.status \in {"running", "failed"}
    THEN [State EXCEPT !.status = "running"]
    ELSE LET lower == IF pass.table = "parents" THEN StartWithOverlap(State.cursor) ELSE Null
         IN  [status |-> "running", cursor |-> lower, overlap |-> lower,
              upper |-> UpperWatermark(pass.table)]

OpenTable ==
    /\ pass.at = "open"
    /\ LET s == OpeningState
           resumed == State.status \in {"running", "failed"}
           children == pass.table = "children"
       IN  /\ IF s.upper = Null
              THEN /\ SetState([s EXCEPT !.status = "completed"])
                   /\ pass' = NextTable
              ELSE /\ SetState(s)
                   /\ pass' = [pass EXCEPT !.at = "page", !.resumed = resumed,
                                 !.settled = {p \in Visible : ~children /\ source[p].status = "done"}]
           /\ due' = IF children /\ ~resumed
                     THEN Selection("children", Null, s.upper) ELSE due
    /\ UNCHANGED <<sourceVars, targetVars>>

\* readPage.  Run tables go on to the rescan of rows that are not final.
ReadPage ==
    /\ pass.at = "page"
    /\ LET rows == FirstPage(pass.table, Selection(pass.table, State.cursor, State.upper))
       IN  pass' = IF rows = {}
                   THEN [pass EXCEPT !.at = IF pass.table = "parents" THEN "rescan" ELSE "close"]
                   ELSE [pass EXCEPT !.at = "apply", !.page = AsRead(pass.table, rows)]
    /\ UNCHANGED <<sourceVars, targetVars, file, due>>

\* MUTANT: a child row is inserted whether or not its parent is there.
ParentsThereUnchecked == TRUE

\* applyRow looks for the parent row in the target.
ParentsThere ==
    pass.table = "children" =>
        \A c \in DOMAIN pass.page : target[ForeignKey[c]] # "absent"

\* The upserts of a page, and their verification, commit together.
PageUpserted ==
    IF pass.table = "parents"
    THEN /\ target' = [p \in SourceRun |->
                         IF p \in DOMAIN pass.page THEN pass.page[p] ELSE target[p]]
         /\ UNCHANGED targetKids
    ELSE /\ targetKids' = targetKids \cup DOMAIN pass.page
         /\ UNCHANGED target

ApplyPage ==
    /\ pass.at = "apply"
    /\ ParentsThere
    /\ PageUpserted
    /\ PassGoes("save")
    /\ UNCHANGED <<sourceVars, file, due>>

RetriesLeft == pass.tries < MaxRetries

\* The page's transaction is rolled back and tried again with the same rows.
RetryPage ==
    /\ pass.at = "apply" /\ RetriesLeft
    /\ pass' = [pass EXCEPT !.tries = @ + 1]
    /\ UNCHANGED <<sourceVars, targetVars, file, due>>

\* The page's manifest, then the cursor behind its last row.
SavePage ==
    /\ pass.at = "save"
    /\ SetState([State EXCEPT !.cursor =
                   Highest({PositionIn(pass.table, x) : x \in DOMAIN pass.page})])
    /\ pass' = [pass EXCEPT !.at = "page", !.page = <<>>, !.tries = 0]
    /\ UNCHANGED <<sourceVars, targetVars, due>>

\* Runs that are not final in the source or not in the target.
Nonterminal ==
    {p \in Visible : source[p].status = "running" \/ target[p] = "running"}

RescanIds ==
    /\ pass.at = "rescan"
    /\ pass' = [pass EXCEPT !.at = IF Nonterminal = {} THEN "close" ELSE "reread",
                            !.ids = Nonterminal]
    /\ UNCHANGED <<sourceVars, targetVars, file, due>>

RescanRead ==
    /\ pass.at = "reread"
    /\ pass' = [pass EXCEPT !.at = "reapply",
                            !.page = AsRead("parents", FirstPage("parents", pass.ids))]
    /\ UNCHANGED <<sourceVars, targetVars, file, due>>

RescanApply ==
    /\ pass.at = "reapply"
    /\ PageUpserted
    /\ LET left == pass.ids \ DOMAIN pass.page
       IN  pass' = [pass EXCEPT !.at = IF left = {} THEN "close" ELSE "reread",
                                !.ids = left, !.page = <<>>]
    /\ UNCHANGED <<sourceVars, file, due>>

\* The table is completed: its cursor is the watermark.
CloseTable ==
    /\ pass.at = "close"
    /\ SetState([State EXCEPT !.status = "completed", !.cursor = State.upper, !.upper = Null])
    /\ pass' = NextTable
    /\ due' = IF pass.table = "children" THEN {} ELSE due
    /\ UNCHANGED <<sourceVars, targetVars>>

\* An error that no retry is left for, or that is not retried: the state file
\* says failed, with the cursor it had, and the process ends.
FailTable ==
    /\ pass.at \in {"page", "apply", "save", "rescan", "reread", "reapply", "close"}
    /\ SetState([State EXCEPT !.status = "failed"])
    /\ pass' = NoPass
    /\ UNCHANGED <<sourceVars, targetVars, due>>

\* The process is killed; a transaction in flight is rolled back.
KillPass ==
    /\ pass.at # "idle"
    /\ pass' = NoPass
    /\ UNCHANGED <<sourceVars, targetVars, file, due>>

SourceStep ==
    \/ \E p \in SourceRun : InsertParent(p) \/ CommitParent(p) \/ FinishParent(p)
    \/ \E c \in Child : InsertChild(c)
    \/ Second

PassStep ==
    \/ \E tables \in Selections : StartPass(tables)
    \/ OpenTable
    \/ ReadPage \/ ApplyPage \/ RetryPage \/ SavePage
    \/ RescanIds \/ RescanRead \/ RescanApply
    \/ CloseTable
    \/ FailTable \/ KillPass

MigrationNext == SourceStep \/ PassStep

MigrationSpec == MigrationInit /\ [][MigrationNext]_migrationVars

-----------------------------------------------------------------------------
\* The durable cursor only claims what the target has: a row created more than
\* the longest open transaction before the cursor is in the target, whatever
\* failed, was retried or died on the way, and although the row may not have
\* been visible when the watermark was fixed.
CursorClaimsTarget ==
    \A p \in Visible :
        source[p].at + LateBy < SecondOf(file["parents"].cursor) => target[p] # "absent"

\* A run that was final when a pass began is not left unfinished by it, even
\* when it was created long before the overlap; and a pass that was not resumed
\* leaves it final in the target, even when its row became visible only after
\* an earlier pass had fixed a watermark beyond it.
PassSettlesRuns ==
    pass.at = "close" /\ pass.table = "parents" =>
        \A p \in pass.settled :
            IF pass.resumed THEN target[p] # "running" ELSE target[p] = "done"

\* The target never has a child row without its parent row.
NoOrphans == \A c \in targetKids : target[ForeignKey[c]] # "absent"

\* A pass over the children that was not interrupted has copied what it had to.
WholePassCopiesChildren ==
    pass.at = "close" /\ pass.table = "children" /\ ~pass.resumed =>
        due \subseteq targetKids

\* "If a synchronization pass fails, correct the cause and use `resume`.  The
\* fixed watermark and durable lower cursor are retained.  The failed page is
\* retried": a pass that ends, after however many resumes, has copied what it
\* had to.
ResumedPassCopiesChildren ==
    pass.at = "close" /\ pass.table = "children" =>
        due \subseteq targetKids

\* What the durable state and the rows of the target say is true at every moment.
MigrationInv == MigrationTypeOK /\ CursorClaimsTarget /\ NoOrphans

\* A pass that ends has done its work: the runs that were final are final in the
\* target, and unless it was resumed the children are there.
PassIsWhole == PassSettlesRuns /\ WholePassCopiesChildren
=============================================================================
