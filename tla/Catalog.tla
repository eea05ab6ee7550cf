------------------------------ MODULE Catalog ------------------------------
(***************************************************************************)
(* The catalog sync of lib/catalog: a request fetches the list of brawlers, *)
(* compares it with the last accepted one, and in one transaction accepts    *)
(* it, updates the canonical brawlers and, when anything changed, begins a   *)
(* new inferred patch (lib/patches).                                         *)
(*                                                                         *)
(* A payload is what validation leaves of an answer: for each brawler it     *)
(* lists, its name and its kit (gadgets and star powers).  An item that is   *)
(* rejected is a brawler that is not listed.                                 *)
(*                                                                         *)
(* What it writes to workflow_runs and data_fetch_runs is read by no sync:  *)
(* those are steps here, at which it can die, without a state of their own. *)
(*                                                                         *)
(* The sync holds the lock of its definition, whose TTL is five minutes, and *)
(* is assumed to be over by then: a lock row only expires when its owner is  *)
(* dead.                                                                     *)
(***************************************************************************)
EXTENDS Integers, FiniteSets

CONSTANTS
    SourceBrawler,  \* source ids
    SlugOf,         \* the slug made of each name
    Payloads,       \* bound: the lists the source may answer with
    Syncer,         \* requests that sync
    Nothing,
    MaxSecond       \* bound: the clock

Name == DOMAIN SlugOf
Slug == {SlugOf[n] : n \in Name}

ASSUME CatalogAssumption ==
    /\ IsFiniteSet(SourceBrawler)
    /\ Nothing \notin Syncer \cup Name \cup Slug \cup {"dead"}
    /\ "dead" \notin Syncer
    /\ MaxSecond \in Nat
    /\ \A p \in Payloads : DOMAIN p \subseteq SourceBrawler /\ \A b \in DOMAIN p : p[b].name \in Name

VARIABLES
    second,         \* the clock, in seconds
    syncLock,       \* owner of the unreleased lock row
    sync,           \* what each request is doing
    accepted,       \* the brawlers with an accepted normalized snapshot, and it
    canonical,      \* rows of canonical_brawlers with their gadgets and star powers
    aliases,        \* rows of brawler_aliases
    patches,        \* the labels in patches, and the active one
    roster,         \* history: the payload applied last
    named           \* history: every name a brawler had in an applied payload

catalogTables == <<accepted, canonical, aliases, patches>>
catalogVars == <<second, syncLock, sync, catalogTables, roster, named>>

Unseen == [slug |-> Nothing, name |-> Nothing, active |-> FALSE, kit |-> {}]
NoPatch == -1
Empty == [b \in {} |-> {}]

Resting == [at |-> "idle", payload |-> Empty, since |-> 0]

CatalogInit ==
    /\ second = 0
    /\ syncLock = Nothing
    /\ sync = [x \in Syncer |-> Resting]
    /\ accepted = Empty
    /\ canonical = [b \in SourceBrawler |-> Unseen]
    /\ aliases = [b \in SourceBrawler |-> {}]
    /\ patches = [labels |-> {}, active |-> NoPatch]
    /\ roster = Empty
    /\ named = [b \in SourceBrawler |-> {}]

CatalogTypeOK ==
    /\ second \in 0..MaxSecond
    /\ syncLock \in Syncer \cup {Nothing, "dead"}
    /\ \A x \in Syncer :
        /\ sync[x].at \in {"idle", "lock", "fetch", "apply", "record", "end", "release"}
        /\ sync[x].payload \in Payloads \cup {Empty}
        /\ sync[x].since \in 0..MaxSecond
    /\ DOMAIN accepted \subseteq SourceBrawler
    /\ \A b \in SourceBrawler :
        /\ canonical[b].slug \in Slug \cup {Nothing} /\ canonical[b].name \in Name \cup {Nothing}
        /\ canonical[b].active => canonical[b].slug # Nothing
        /\ aliases[b] \subseteq Name
    /\ patches.labels \subseteq 0..MaxSecond
    /\ patches.active \in patches.labels \cup {NoPatch}

Listed(p) == DOMAIN p
Active == {b \in SourceBrawler : canonical[b].active}

-----------------------------------------------------------------------------
(* Change detection *)

\* detectVolumeAnomaly: nothing is left, or more than half of what was ever
\* accepted is missing.
VolumeAnomaly(p) ==
    LET known == DOMAIN accepted
    IN  /\ known # {}
        /\ \/ Listed(p) = {}
           \/ 2 * Cardinality(known \ Listed(p)) > Cardinality(known)

\* Brawlers a sync reports as changed: new ones, those whose kit differs from
\* the accepted one (a new name alone is none), and those not listed.
New(p) == Listed(p) \ DOMAIN accepted
KitChanged(p) == {b \in Listed(p) \cap DOMAIN accepted : p[b].kit # accepted[b].kit}
Removed(p) == DOMAIN accepted \ Listed(p)
Changed(p) == New(p) \cup KitChanged(p) \cup Removed(p)

-----------------------------------------------------------------------------
(* Writing the canonical tables *)

Inserted(p) == {b \in Listed(p) : canonical[b].slug = Nothing}

\* The slug of a brawler to be inserted belongs to another one.
SlugTaken(p) ==
    \E b \in Inserted(p) : \E c \in SourceBrawler \ {b} :
        \/ canonical[c].slug = SlugOf[p[b].name]
        \/ c \in Inserted(p) /\ SlugOf[p[c].name] = SlugOf[p[b].name]

\* MUTANT: a brawler that is listed again stays inactive.
UpdatedInPlace(row, item) == [row EXCEPT !.name = item.name, !.kit = item.kit]

\* updateCanonicalBrawler and the upserts of its kit: active again, slug kept.
Updated(row, item) == [row EXCEPT !.name = item.name, !.kit = item.kit, !.active = TRUE]

Upserted(p, b) ==
    CASE b \in Inserted(p) ->
            [slug |-> SlugOf[p[b].name], name |-> p[b].name, active |-> TRUE, kit |-> p[b].kit]
      [] b \in Listed(p) \ Inserted(p) -> Updated(canonical[b], p[b])
      [] b \in Removed(p) -> [canonical[b] EXCEPT !.active = FALSE]
      [] OTHER -> canonical[b]

\* The alias updateCanonicalBrawler records for a renamed brawler.
AliasOf(p, b) == {canonical[b].name}

Renamed(p) == {b \in Listed(p) \ Inserted(p) : canonical[b].name # p[b].name}

\* recordInferredPatchIfMeaningful: the active patch is superseded, then a new
\* one inserted with the current second as its label.  When the label exists
\* the insertion fails, the error is swallowed and the rest is committed.
WithPatch ==
    IF second \in patches.labels THEN [patches EXCEPT !.active = NoPatch]
    ELSE [labels |-> patches.labels \cup {second}, active |-> second]

-----------------------------------------------------------------------------
(* A sync *)

Goes(x, at) == sync' = [sync EXCEPT ![x] = [Resting EXCEPT !.at = at]]

\* The workflow run is inserted.
StartSync(x) ==
    /\ sync[x].at = "idle"
    /\ Goes(x, "lock")
    /\ UNCHANGED <<second, syncLock, catalogTables, roster, named>>

SyncLockFree == syncLock = Nothing

AcquireSyncLock(x) ==
    /\ sync[x].at = "lock"
    /\ IF SyncLockFree
       THEN /\ syncLock' = x
            /\ sync' = [sync EXCEPT ![x] = [@ EXCEPT !.at = "fetch", !.since = second]]
       ELSE /\ Goes(x, "idle")
            /\ UNCHANGED syncLock
    /\ UNCHANGED <<second, catalogTables, roster, named>>

\* The proxy answers with a list; the fetch run is created.
FetchBrawlers(x) ==
    /\ sync[x].at = "fetch"
    /\ \E p \in Payloads : sync' = [sync EXCEPT ![x] = [@ EXCEPT !.at = "apply", !.payload = p]]
    /\ UNCHANGED <<second, syncLock, catalogTables, roster, named>>

\* The whole run is quarantined: its transaction only opens an incident.
HoldPayload(x) ==
    /\ sync[x].at = "apply" /\ second > sync[x].since
    /\ VolumeAnomaly(sync[x].payload)
    /\ Goes(x, "record")
    /\ UNCHANGED <<second, syncLock, catalogTables, roster, named>>

\* The transaction of a sync that is not held.  A sync takes a second at least.
ApplyPayload(x) ==
    LET p == sync[x].payload
    IN  /\ sync[x].at = "apply" /\ second > sync[x].since
        /\ ~VolumeAnomaly(p) /\ ~SlugTaken(p)
        /\ accepted' = [b \in DOMAIN accepted \cup Listed(p) |->
                          IF b \in Listed(p) THEN p[b] ELSE accepted[b]]
        /\ canonical' = [b \in SourceBrawler |-> Upserted(p, b)]
        /\ aliases' = [b \in SourceBrawler |->
                         IF b \in Renamed(p) THEN aliases[b] \cup AliasOf(p, b) ELSE aliases[b]]
        /\ patches' = IF Changed(p) = {} THEN patches ELSE WithPatch
        /\ roster' = p
        /\ named' = [b \in SourceBrawler |->
                       IF b \in Listed(p) THEN named[b] \cup {p[b].name} ELSE named[b]]
        /\ Goes(x, "record")
        /\ UNCHANGED <<second, syncLock>>

\* completeFetchRun, then completeWorkflowRun.
RecordFetch(x) ==
    /\ sync[x].at = "record"
    /\ Goes(x, "end")
    /\ UNCHANGED <<second, syncLock, catalogTables, roster, named>>

RecordRun(x) ==
    /\ sync[x].at = "end"
    /\ Goes(x, "release")
    /\ UNCHANGED <<second, syncLock, catalogTables, roster, named>>

\* The proxy cannot be reached or its answer is invalid; a slug is taken or
\* another statement fails, before or after the commit: the run has failed.
FailSync(x) ==
    /\ sync[x].at \in {"fetch", "apply", "record", "end"}
    /\ Goes(x, "release")
    /\ UNCHANGED <<second, syncLock, catalogTables, roster, named>>

ReleaseSyncLock(x) ==
    /\ sync[x].at = "release"
    /\ Goes(x, "idle")
    /\ syncLock' = IF syncLock = x THEN Nothing ELSE syncLock
    /\ UNCHANGED <<second, catalogTables, roster, named>>

\* The process dies; its run, its fetch run and its lock row stay.
SyncerDies(x) ==
    /\ sync[x].at # "idle"
    /\ Goes(x, "idle")
    /\ syncLock' = IF syncLock = x THEN "dead" ELSE syncLock
    /\ UNCHANGED <<second, catalogTables, roster, named>>

SyncLockExpires ==
    /\ syncLock = "dead"
    /\ syncLock' = Nothing
    /\ UNCHANGED <<second, sync, catalogTables, roster, named>>

Ticks ==
    /\ second < MaxSecond
    /\ second' = second + 1
    /\ UNCHANGED <<syncLock, sync, catalogTables, roster, named>>

CatalogNext ==
    \/ \E x \in Syncer :
        \/ StartSync(x) \/ AcquireSyncLock(x) \/ FetchBrawlers(x)
        \/ HoldPayload(x) \/ ApplyPayload(x) \/ RecordFetch(x) \/ RecordRun(x)
        \/ FailSync(x) \/ ReleaseSyncLock(x) \/ SyncerDies(x)
    \/ SyncLockExpires
    \/ Ticks

CatalogSpec == CatalogInit /\ [][CatalogNext]_catalogVars

-----------------------------------------------------------------------------
\* What aggregation, ranking and the site take for the roster is the list that
\* was applied last, names and kits included: held runs, rejected transactions
\* and dead processes leave no mixture, and a brawler that was gone and is
\* listed again is back.
RosterFollowsSource ==
    /\ Active = Listed(roster)
    /\ \A b \in Active : canonical[b].name = roster[b].name /\ canonical[b].kit = roster[b].kit

\* "A rename never produces a new canonical row or a slug change -- it always
\* produces an alias": every name a brawler ever had leads to its one row.
NamesRemembered ==
    \A b \in SourceBrawler : named[b] \subseteq aliases[b] \cup {canonical[b].name}

\* From the first change on, one patch is active: battles are never collected
\* without a patch because an inferred one was superseded but not replaced.
OnePatchActive == patches.labels # {} => patches.active # NoPatch

\* However removals and returns add up over many syncs, at least half of the
\* brawlers ever known stay on the site.
HalfStaysActive ==
    2 * Cardinality(Active) >= Cardinality({b \in SourceBrawler : canonical[b].slug # Nothing})

\* Whatever order lists, failures and expired locks come in, the catalog is one list
\* of the source with a history of names, one active patch and most of its brawlers.
CatalogInv ==
    /\ CatalogTypeOK
    /\ RosterFollowsSource /\ NamesRemembered
    /\ OnePatchActive /\ HalfStaysActive
=============================================================================
