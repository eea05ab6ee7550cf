------------------------------ MODULE Profiles ------------------------------
(***************************************************************************)
(* Player profiles and clubs (lib/ingestion/sync, playerProfileSync and      *)
(* clubSync, and the routes player-crawl-batch and club-expansion).          *)
(*                                                                         *)
(* A request fetches the profiles of a batch of players and then the first   *)
(* few clubs it did not know.  A player whose club is unknown waits for it    *)
(* with its tag (pending_club_tag), and whoever fetches the club links all    *)
(* who wait.  No statement is in a transaction with another.                 *)
(*                                                                         *)
(* Requests overlap: only the fetch of a club takes a lock, and its row can   *)
(* expire.  Budgets (Crawl has them) deny a request or not.                  *)
(***************************************************************************)
EXTENDS Integers, FiniteSets

CONSTANTS
    Tag,            \* players, numbered in the order in which they are first seen
    Club,
    Requester,      \* requests in progress at once
    BatchLimit,     \* players of a request
    ClubLimit,      \* clubs a request fetches after its players
    NoClub, Nobody

ASSUME ProfilesAssumption ==
    /\ Tag \subseteq Nat /\ IsFiniteSet(Tag)
    /\ IsFiniteSet(Club) /\ NoClub \notin Club
    /\ Nobody \notin Requester
    /\ BatchLimit \in Nat \ {0} /\ ClubLimit \in Nat

VARIABLES
    player,         \* rows of normalized_players
    clubs,          \* rows of normalized_clubs
    recent,         \* clubs with a fetch run in the last six hours
    clubLock,       \* owner of the lock row of club-expansion
    request,        \* what each request is doing
    reported        \* history: the club in the profile that was written last

profileVars == <<player, clubs, recent, clubLock, request, reported>>

NoPlayer == [known |-> "no", reachable |-> TRUE, club |-> NoClub, pending |-> NoClub]

NoRequest == [at |-> "idle", tags |-> {}, club |-> NoClub, found |-> FALSE, exists |-> FALSE,
              wanted |-> {}]

ProfilesInit ==
    /\ player = [t \in Tag |-> NoPlayer]
    /\ clubs = {}
    /\ recent = {}
    /\ clubLock = Nobody
    /\ request = [x \in Requester |-> NoRequest]
    /\ reported = [t \in Tag |-> NoClub]

RequestAt == {"idle", "down", "fetch", "unreachable", "club", "player", "write",
              "guard", "lock", "open", "fetchclub", "upsert", "backfill", "release"}

ProfilesTypeOK ==
    /\ player \in [Tag -> [known : {"no", "stub", "profiled"}, reachable : BOOLEAN,
                           club : clubs \cup {NoClub}, pending : Club \cup {NoClub}]]
    /\ \A t \in Tag : player[t].club = NoClub \/ player[t].pending = NoClub
    /\ clubs \subseteq Club /\ recent \subseteq Club
    /\ clubLock \in Requester \cup {Nobody}
    /\ \A x \in Requester :
        /\ request[x].at \in RequestAt
        /\ request[x].tags \subseteq Tag /\ request[x].wanted \subseteq Club
        /\ Cardinality(request[x].tags) <= BatchLimit
    /\ reported \in [Tag -> Club \cup {NoClub}]

Oldest(S) == CHOOSE t \in S : \A u \in S : t <= u
Current(x) == Oldest(request[x].tags)

\* Its last request was answered, or came to nothing.
Rests(x) == request[x].at \in {"idle", "down"}
Goes(x, at) == request' = [request EXCEPT ![x].at = at]

-----------------------------------------------------------------------------
(* The crawl *)

\* ensurePlayerStub: a participant of a battle gets a row without a profile.
EnsurePlayerStub(t) ==
    /\ player[t].known = "no"
    /\ \A u \in Tag : u < t => player[u].known # "no"
    /\ player' = [player EXCEPT ![t].known = "stub"]
    /\ UNCHANGED <<clubs, recent, clubLock, request, reported>>

-----------------------------------------------------------------------------
(* A batch of profiles *)

\* Rows without trophies: a stub, or a profile that was answered without them.
Unprofiled == {t \in Tag : player[t].known = "stub" /\ player[t].reachable}

OldestFew(S) == {t \in S : Cardinality({u \in S : u < t}) < BatchLimit}

StartBatch(x) ==
    /\ Rests(x)
    /\ Unprofiled # {}
    /\ request' = [request EXCEPT ![x] = [NoRequest EXCEPT !.at = "fetch", !.tags = OldestFew(Unprofiled)]]
    /\ UNCHANGED <<player, clubs, recent, clubLock, reported>>

\* The body of the request names the player.
StartTag(x, t) ==
    /\ Rests(x)
    /\ \A u \in Tag : u < t => player[u].known # "no"
    /\ request' = [request EXCEPT ![x] = [NoRequest EXCEPT !.at = "fetch", !.tags = {t}]]
    /\ UNCHANGED <<player, clubs, recent, clubLock, reported>>

\* The next player; after the last one the first few clubs that were unknown.
NextPlayer(x, wanted) ==
    LET left == request[x].tags \ {Current(x)}
    IN  request' = [request EXCEPT ![x] =
          [NoRequest EXCEPT !.tags = left, !.wanted = wanted,
             !.at = IF left # {} THEN "fetch" ELSE IF wanted # {} THEN "guard" ELSE "idle"]]

\* The budget is exhausted, the proxy fails, or the answer is not a profile.
FetchNothing(x) ==
    /\ request[x].at = "fetch"
    /\ NextPlayer(x, request[x].wanted)
    /\ UNCHANGED <<player, clubs, recent, clubLock, reported>>

FetchNotFound(x) ==
    /\ request[x].at = "fetch"
    /\ Goes(x, "unreachable")
    /\ UNCHANGED <<player, clubs, recent, clubLock, reported>>

MarkPlayerUnreachable(x) ==
    /\ request[x].at = "unreachable"
    /\ player' = [player EXCEPT ![Current(x)].reachable = player[Current(x)].known = "no"]
    /\ NextPlayer(x, request[x].wanted)
    /\ UNCHANGED <<clubs, recent, clubLock, reported>>

\* A profile, of a player with a club or without.
FetchProfile(x, c) ==
    /\ request[x].at = "fetch"
    /\ request' = [request EXCEPT ![x].at = "club", ![x].club = c]
    /\ UNCHANGED <<player, clubs, recent, clubLock, reported>>

GetClubByTag(x) ==
    /\ request[x].at = "club"
    /\ request' = [request EXCEPT ![x].at = "player", ![x].found = request[x].club \in clubs]
    /\ UNCHANGED <<player, clubs, recent, clubLock, reported>>

GetPlayerByTag(x) ==
    /\ request[x].at = "player"
    /\ request' = [request EXCEPT ![x].at = "write", ![x].exists = player[Current(x)].known # "no"]
    /\ UNCHANGED <<player, clubs, recent, clubLock, reported>>

\* upsertNormalizedPlayer, of a profile with trophies or without them.
WriteProfile(x) ==
    LET r == request[x]  t == Current(x)  waits == r.club # NoClub /\ ~r.found
    IN  /\ r.at = "write"
        /\ r.exists \/ player[t].known = "no"
        /\ \E known \in {"stub", "profiled"} : player' = [player EXCEPT ![t] =
              [known |-> known, reachable |-> TRUE,
               club |-> IF r.found THEN r.club ELSE NoClub,
               pending |-> IF waits THEN r.club ELSE NoClub]]
        /\ reported' = [reported EXCEPT ![t] = r.club]
        /\ NextPlayer(x, IF waits /\ Cardinality(r.wanted) < ClubLimit
                         THEN r.wanted \cup {r.club} ELSE r.wanted)
        /\ UNCHANGED <<clubs, recent, clubLock>>

\* Somebody else inserted the player meanwhile: the unique key rejects the row,
\* and the request ends with the rest of its batch undone.
InsertRejected(x) ==
    /\ request[x].at = "write"
    /\ ~request[x].exists /\ player[Current(x)].known # "no"
    /\ request' = [request EXCEPT ![x] = NoRequest]
    /\ UNCHANGED <<player, clubs, recent, clubLock, reported>>

-----------------------------------------------------------------------------
(* A club *)

\* club-expansion: the body of the request names the club.
StartClub(x, c) ==
    /\ Rests(x)
    /\ request' = [request EXCEPT ![x] = [NoRequest EXCEPT !.at = "guard", !.wanted = {c}]]
    /\ UNCHANGED <<player, clubs, recent, clubLock, reported>>

AnyOf(S) == CHOOSE c \in S : TRUE
Wanted(x) == AnyOf(request[x].wanted)

NextClub(x) ==
    LET left == request[x].wanted \ {Wanted(x)}
    IN  request' = [request EXCEPT ![x] =
          [NoRequest EXCEPT !.at = IF left = {} THEN "idle" ELSE "guard", !.wanted = left]]

\* MUTANT: a club that has a row is not fetched again.
FetchedOrKnown(c) == c \in recent \cup clubs

\* hasRecentFetchRunForContext, whatever became of that fetch.
FetchedLately(c) == c \in recent

GuardClub(x) ==
    /\ request[x].at = "guard"
    /\ IF FetchedLately(Wanted(x)) THEN NextClub(x) ELSE Goes(x, "lock")
    /\ UNCHANGED <<player, clubs, recent, clubLock, reported>>

LockClub(x) ==
    /\ request[x].at = "lock"
    /\ IF clubLock = Nobody THEN clubLock' = x /\ Goes(x, "open")
                            ELSE NextClub(x) /\ UNCHANGED clubLock
    /\ UNCHANGED <<player, clubs, recent, reported>>

\* The budget is consumed and the fetch run created.
OpenClubFetch(x) ==
    /\ request[x].at = "open"
    /\ recent' = recent \cup {Wanted(x)}
    /\ Goes(x, "fetchclub")
    /\ UNCHANGED <<player, clubs, clubLock, reported>>

FetchClub(x) ==
    /\ request[x].at = "fetchclub"
    /\ Goes(x, "upsert")
    /\ UNCHANGED <<player, clubs, recent, clubLock, reported>>

\* The budget is exhausted, the proxy fails, or the answer is not a club.
FetchClubFails(x) ==
    /\ request[x].at \in {"open", "fetchclub"}
    /\ Goes(x, "release")
    /\ UNCHANGED <<player, clubs, recent, clubLock, reported>>

UpsertClub(x) ==
    /\ request[x].at = "upsert"
    /\ clubs' = clubs \cup {Wanted(x)}
    /\ Goes(x, "backfill")
    /\ UNCHANGED <<player, recent, clubLock, reported>>

\* MUTANT: every player without a club is linked.
WithoutClub(t, c) == player[t].known # "no" /\ player[t].club = NoClub

WaitsFor(t, c) == player[t].pending = c

Linked(row, c) == [row EXCEPT !.club = c, !.pending = NoClub]

BackfillPendingClubLinks(x) ==
    LET c == Wanted(x)
    IN  /\ request[x].at = "backfill"
        /\ player' = [t \in Tag |-> IF WaitsFor(t, c) THEN Linked(player[t], c) ELSE player[t]]
        /\ Goes(x, "release")
        /\ UNCHANGED <<clubs, recent, clubLock, reported>>

Free(x) == clubLock' = IF clubLock = x THEN Nobody ELSE clubLock

\* The members are recorded (RecordObserved of Discovery), runs are completed, and the
\* lock is released.
ReleaseClub(x) ==
    /\ request[x].at = "release"
    /\ NextClub(x)
    /\ Free(x)
    /\ UNCHANGED <<player, clubs, recent, reported>>

-----------------------------------------------------------------------------
\* A statement throws: the whole request ends, with its lock released.
Throws(x) ==
    /\ ~Rests(x)
    /\ request' = [request EXCEPT ![x] = [NoRequest EXCEPT !.at = "down"]]
    /\ Free(x)
    /\ UNCHANGED <<player, clubs, recent, reported>>

RequesterDies(x) ==
    /\ ~Rests(x)
    /\ request' = [request EXCEPT ![x] = [NoRequest EXCEPT !.at = "down"]]
    /\ UNCHANGED <<player, clubs, recent, clubLock, reported>>

\* The lock row outlives its TTL, whether its owner is dead or slow.
ClubLockExpires ==
    /\ clubLock # Nobody
    /\ clubLock' = Nobody
    /\ UNCHANGED <<player, clubs, recent, request, reported>>

SixHoursPass(c) ==
    /\ c \in recent
    /\ recent' = recent \ {c}
    /\ UNCHANGED <<player, clubs, clubLock, request, reported>>

PlayerStep(x) ==
    \/ FetchNothing(x) \/ FetchNotFound(x) \/ MarkPlayerUnreachable(x)
    \/ \E c \in Club \cup {NoClub} : FetchProfile(x, c)
    \/ GetClubByTag(x) \/ GetPlayerByTag(x) \/ WriteProfile(x) \/ InsertRejected(x)

ClubStep(x) ==
    \/ GuardClub(x) \/ LockClub(x) \/ OpenClubFetch(x) \/ FetchClub(x) \/ FetchClubFails(x)
    \/ UpsertClub(x) \/ BackfillPendingClubLinks(x) \/ ReleaseClub(x)

ProfilesNext ==
    \/ \E t \in Tag : EnsurePlayerStub(t)
    \/ \E x \in Requester :
        \/ StartBatch(x)
        \/ \E t \in Tag : StartTag(x, t)
        \/ \E c \in Club : StartClub(x, c)
        \/ PlayerStep(x) \/ ClubStep(x)
        \/ Throws(x) \/ RequesterDies(x)
    \/ ClubLockExpires
    \/ \E c \in Club : SixHoursPass(c)

\* Requests go on to their end, lock rows and fetch runs grow old, operators ask
\* for each club again and again, and neither processes nor the proxy fail for
\* ever.
ProfilesFairness ==
    /\ \A x \in Requester : WF_profileVars(PlayerStep(x) \/ ClubStep(x))
    /\ WF_profileVars(ClubLockExpires)
    /\ \A c \in Club : /\ WF_profileVars(SixHoursPass(c))
                      /\ []<><<\E x \in Requester : StartClub(x, c)>>_profileVars
    /\ <>[][~\E x \in Requester : Throws(x) \/ RequesterDies(x) \/ FetchClubFails(x)]_profileVars

ProfilesSpec == ProfilesInit /\ [][ProfilesNext]_profileVars /\ ProfilesFairness

-----------------------------------------------------------------------------
\* The club of a player is the one of the profile written last, be it linked or
\* waited for: what links the players of another club in between does not touch
\* it, and no player is in two clubs.
ClubIsFromProfile ==
    \A t \in Tag : {player[t].club, player[t].pending} \ {NoClub} = {reported[t]} \ {NoClub}

\* The rows of players and clubs agree with the profiles.
ProfilesInv == ProfilesTypeOK /\ ClubIsFromProfile

\* Whoever waits for a club is linked some day, also when the club was inserted
\* between the look for it and the row that waits for it.
EveryLinkIsMade ==
    \A t \in Tag, c \in Club : []<>(player[t].pending # c)
=============================================================================
