----------------------------- MODULE Discovery ------------------------------
(***************************************************************************)
(* Which players are crawled (lib/ingestion/sync, rankingSeedSync and        *)
(* playerDiscoverySync): the seed refresh schedules the players of the       *)
(* rankings of each region at once; players who were only observed, in a      *)
(* battle or as members of a club, are promoted a batch at a time, in turns   *)
(* of their sources.  Scheduling a player and marking it as promoted are two   *)
(* statements without a transaction, and a lock row may expire under its      *)
(* owner.                                                                  *)
(***************************************************************************)
EXTENDS Integers, Sequences, FiniteSets

CONSTANTS
    PlayerTag,      \* players
    FromBattle,     \* the source of players observed in battles
    FromClub,       \* the sources of club members, one for each club
    Region,         \* regions with a ranking
    Promoter,       \* requests that promote players
    PromotionBatch, \* players promoted by a request
    Oversample,     \* candidates read for each of them
    NoValue

ObservedIn == {FromBattle} \cup FromClub
Coarse(source) == IF source \in FromClub THEN "club_member" ELSE "battle"

ASSUME DiscoveryAssumption ==
    /\ IsFiniteSet(PlayerTag) /\ ObservedIn \subseteq Nat /\ FromBattle \notin FromClub
    /\ PromotionBatch \in Nat \ {0} /\ Oversample \in Nat \ {0}
    /\ NoValue \notin Promoter \cup Region

VARIABLES
    observed,       \* rows of observed_players, oldest first
    promoted,       \* those with promoted_to_active
    entry,          \* rows of player_crawl_schedule
    promoterLock,   \* owner of the lock row of player-discovery
    promoter,       \* what each request is doing
    refresh         \* the regions the seed refresh still has to do

discoveryVars == <<observed, promoted, entry, promoterLock, promoter, refresh>>

Unscheduled == [scheduled |-> FALSE, source |-> "none", region |-> NoValue, active |-> FALSE]
NoPromotion == [at |-> "idle", batch |-> {}]
FailedPromotion == [at |-> "down", batch |-> {}]

DiscoveryInit ==
    /\ observed = <<>>
    /\ promoted = {}
    /\ entry = [t \in PlayerTag |-> Unscheduled]
    /\ promoterLock = NoValue
    /\ promoter = [x \in Promoter |-> NoPromotion]
    /\ refresh = {}

Observed == {observed[i].tag : i \in 1..Len(observed)}

DiscoveryTypeOK ==
    /\ \A i \in 1..Len(observed) : observed[i] \in [tag : PlayerTag, source : ObservedIn]
    /\ Len(observed) = Cardinality(Observed)
    /\ promoted \subseteq Observed
    /\ entry \in [PlayerTag -> [scheduled : BOOLEAN, source : {"none", "battle", "club_member", "seed"},
                          region : Region \cup {NoValue}, active : BOOLEAN]]
    /\ promoterLock \in Promoter \cup {NoValue}
    /\ \A x \in Promoter : /\ promoter[x].at \in {"idle", "down", "lock", "promote", "mark", "release"}
                           /\ promoter[x].batch \subseteq Observed
                           /\ Cardinality(promoter[x].batch) <= PromotionBatch
    /\ refresh \subseteq Region

-----------------------------------------------------------------------------
(* The schedule *)

\* MUTANT: region and source are those of the last call.
RescheduledAnew(row, source, region) == [row EXCEPT !.source = source, !.region = region]

\* ON DUPLICATE KEY UPDATE: the region is set once, the rest is kept.
Rescheduled(row, source, region) ==
    [row EXCEPT !.region = IF row.region = NoValue THEN region ELSE @]

\* ensureCrawlScheduleEntry.
Ensured(t, source, region) ==
    [entry EXCEPT ![t] = IF @.scheduled THEN Rescheduled(@, source, region)
                         ELSE [scheduled |-> TRUE, source |-> source, region |-> region, active |-> TRUE]]

\* A crawl finds the player dead.
Deactivate(t) ==
    /\ entry[t].active
    /\ entry' = [entry EXCEPT ![t].active = FALSE]
    /\ UNCHANGED <<observed, promoted, promoterLock, promoter, refresh>>

\* recordObservedPlayer, by a crawl or a club fetch: the first one counts.
RecordObserved(t, source) ==
    /\ t \notin Observed
    /\ observed' = Append(observed, [tag |-> t, source |-> source])
    /\ UNCHANGED <<promoted, entry, promoterLock, promoter, refresh>>

-----------------------------------------------------------------------------
(* runPlayerDiscovery *)

PromoterGoes(x, at) == promoter' = [promoter EXCEPT ![x].at = at]

StartPromotion(x) ==
    /\ promoter[x].at \in {"idle", "down"}
    /\ PromoterGoes(x, "lock")
    /\ UNCHANGED <<observed, promoted, entry, promoterLock, refresh>>

\* getUnpromotedObservedPlayers: the oldest few, by their places in observed.
OldestFewOf(places) ==
    {i \in places : Cardinality({j \in places : j < i}) < PromotionBatch * Oversample}

\* MUTANT: promoted players are read as well.
OldestOfAll == OldestFewOf(1..Len(observed))

OldestUnpromoted == OldestFewOf({i \in 1..Len(observed) : observed[i].tag \notin promoted})

\* getActiveCrawlCountsByStratumSource.
ActiveOf(coarse) == Cardinality({t \in PlayerTag : entry[t].active /\ entry[t].source = coarse})

\* Sources with fewer active players come first, then by name.
ComesBefore(a, b) ==
    \/ ActiveOf(Coarse(a)) < ActiveOf(Coarse(b))
    \/ ActiveOf(Coarse(a)) = ActiveOf(Coarse(b)) /\ a < b

\* selectPromotionBatch: one candidate of each source in each round.
Round(window, i) == Cardinality({j \in window : j < i /\ observed[j].source = observed[i].source})

PickedBefore(window, i, j) ==
    \/ Round(window, i) < Round(window, j)
    \/ Round(window, i) = Round(window, j) /\ ComesBefore(observed[i].source, observed[j].source)

SelectPromotionBatch(window) ==
    {observed[k].tag : k \in {j \in window :
        Cardinality({i \in window : PickedBefore(window, i, j)}) < PromotionBatch}}

\* The lock, or none of the rest; the candidates and the counts are read.
LockAndSelect(x) ==
    LET batch == SelectPromotionBatch(OldestUnpromoted)
    IN  /\ promoter[x].at = "lock"
        /\ IF promoterLock = NoValue
           THEN /\ promoterLock' = x
                /\ promoter' = [promoter EXCEPT ![x] =
                      [at |-> IF batch = {} THEN "release" ELSE "promote", batch |-> batch]]
           ELSE PromoterGoes(x, "idle") /\ UNCHANGED promoterLock
        /\ UNCHANGED <<observed, promoted, entry, refresh>>

SourceOf(t) == LET o == CHOOSE i \in 1..Len(observed) : observed[i].tag = t IN observed[o].source

Chosen(x) == CHOOSE t \in promoter[x].batch : TRUE

\* MUTANT: a player is marked before it is scheduled.
MarkFirst(x) ==
    /\ promoter[x].at = "promote"
    /\ promoted' = promoted \cup {Chosen(x)}
    /\ PromoterGoes(x, "mark")
    /\ UNCHANGED <<observed, entry, promoterLock, refresh>>

SchedulePlayer(x) ==
    /\ promoter[x].at = "promote"
    /\ entry' = Ensured(Chosen(x), Coarse(SourceOf(Chosen(x))), NoValue)
    /\ PromoterGoes(x, "mark")
    /\ UNCHANGED <<observed, promoted, promoterLock, refresh>>

MarkPromoted(x) ==
    /\ promoter[x].at = "mark"
    /\ promoted' = promoted \cup {Chosen(x)}
    /\ LET left == promoter[x].batch \ {Chosen(x)}
       IN  promoter' = [promoter EXCEPT ![x].batch = left,
                          ![x].at = IF left = {} THEN "release" ELSE "promote"]
    /\ UNCHANGED <<observed, entry, promoterLock, refresh>>

FreePromoterLock(x) == promoterLock' = IF promoterLock = x THEN NoValue ELSE promoterLock

\* The run is completed and the lock released.
EndPromotion(x) ==
    /\ promoter[x].at = "release"
    /\ promoter' = [promoter EXCEPT ![x] = NoPromotion]
    /\ FreePromoterLock(x)
    /\ UNCHANGED <<observed, promoted, entry, refresh>>

\* A statement throws: the run has failed, and the lock is released.
PromotionFails(x) ==
    /\ promoter[x].at \in {"promote", "mark", "release"}
    /\ promoter' = [promoter EXCEPT ![x] = FailedPromotion]
    /\ FreePromoterLock(x)
    /\ UNCHANGED <<observed, promoted, entry, refresh>>

PromoterDies(x) ==
    /\ promoter[x].at \notin {"idle", "down"}
    /\ promoter' = [promoter EXCEPT ![x] = FailedPromotion]
    /\ UNCHANGED <<observed, promoted, entry, promoterLock, refresh>>

PromoterLockExpires ==
    /\ promoterLock # NoValue
    /\ promoterLock' = NoValue
    /\ UNCHANGED <<observed, promoted, entry, promoter, refresh>>

-----------------------------------------------------------------------------
(* runRankingSeedSync.  Its lock keeps a second one away. *)

StartRefresh ==
    /\ refresh = {}
    /\ refresh' = Region
    /\ UNCHANGED <<observed, promoted, entry, promoterLock, promoter>>

AnyRegion == CHOOSE r \in refresh : TRUE

\* The next player of the ranking of the region: ensureCrawlScheduleEntry.
SeedPlayer(t) ==
    /\ refresh # {}
    /\ entry' = Ensured(t, "seed", AnyRegion)
    /\ UNCHANGED <<observed, promoted, promoterLock, promoter, refresh>>

\* The players of the region are all seeded; or none, because the region is
\* none, the budget exhausted or the answer invalid.
EndRegion ==
    /\ refresh # {}
    /\ refresh' = refresh \ {AnyRegion}
    /\ UNCHANGED <<observed, promoted, entry, promoterLock, promoter>>

\* A statement throws, or the process dies.
RefreshStops ==
    /\ refresh # {}
    /\ refresh' = {}
    /\ UNCHANGED <<observed, promoted, entry, promoterLock, promoter>>

PromoterStep(x) ==
    LockAndSelect(x) \/ SchedulePlayer(x) \/ MarkPromoted(x) \/ EndPromotion(x)

DiscoveryNext ==
    \/ \E t \in PlayerTag : Deactivate(t) \/ \E source \in ObservedIn : RecordObserved(t, source)
    \/ \E x \in Promoter : StartPromotion(x) \/ PromoterStep(x) \/ PromotionFails(x) \/ PromoterDies(x)
    \/ PromoterLockExpires
    \/ StartRefresh \/ EndRegion \/ RefreshStops
    \/ \E t \in PlayerTag : SeedPlayer(t)

\* A timer starts promotions again and again, requests go on to their end, lock
\* rows grow old, and neither processes nor statements fail for ever.
DiscoveryFairness ==
    /\ \A x \in Promoter : WF_discoveryVars(StartPromotion(x) \/ PromoterStep(x))
    /\ WF_discoveryVars(PromoterLockExpires)
    /\ <>[][~\E x \in Promoter : PromotionFails(x) \/ PromoterDies(x)]_discoveryVars

DiscoverySpec == DiscoveryInit /\ [][DiscoveryNext]_discoveryVars /\ DiscoveryFairness

-----------------------------------------------------------------------------
\* A player that is marked as promoted is in the schedule, wherever a request
\* died: nobody drops out between the two statements.
PromotedIsScheduled == \A t \in promoted : entry[t].scheduled

\* The observed and the scheduled players agree.
DiscoveryInv == DiscoveryTypeOK /\ PromotedIsScheduled

\* "A player is never silently reassigned to a different stratum": once set, its
\* source and its region stay, whoever schedules it again.
StratumSticks ==
    [][\A t \in PlayerTag :
          /\ entry[t].scheduled => entry'[t].source = entry[t].source
          /\ entry[t].region # NoValue => entry'[t].region = entry[t].region]_discoveryVars

\* Every player that is observed is promoted some day, whichever source has the
\* first turns.
EveryObservedIsPromoted ==
    []<>(Observed \subseteq promoted)
=============================================================================
