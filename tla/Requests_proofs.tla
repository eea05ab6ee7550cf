-------------------------- MODULE Requests_proofs ---------------------------
(***************************************************************************)
(* The requests that keep no cursor (MC_Requests), for any number of them    *)
(* and of players, clubs, regions and rows: profiles and clubs agree,         *)
(* promoted players are scheduled, and no row goes without its archive.       *)
(***************************************************************************)
EXTENDS Profiles, Discovery, Families, Orders

-----------------------------------------------------------------------------
(* Profiles: what a request carries between its statements is still true.  A  *)
(* club it found has a row, because no club loses it, and a player it is at    *)
(* work on is one of its batch.                                             *)

RequestRow == [at : RequestAt, tags : SUBSET Tag, club : Club \cup {NoClub},
               found : BOOLEAN, exists : BOOLEAN, wanted : SUBSET Club]
PlayerRow == [known : {"no", "stub", "profiled"}, reachable : BOOLEAN,
              club : Club \cup {NoClub}, pending : Club \cup {NoClub}]

\* A request has players, or a club, as long as it needs them,
AtPlayers == {"fetch", "unreachable", "club", "player", "write"}
AtClub == {"guard", "lock", "open", "fetchclub", "upsert", "backfill", "release"}
RequestHasWork(r) ==
    /\ r.at \in AtPlayers => r.tags # {}
    /\ r.at \in AtClub => r.wanted # {}
    /\ IsFiniteSet(r.tags) /\ Cardinality(r.tags) <= BatchLimit

\* and what it found is there.
RequestKnows(r) ==
    /\ r.found => r.at \in {"player", "write"} /\ r.club \in clubs
    /\ r.at = "backfill" => AnyOf(r.wanted) \in clubs

RequestsKnow ==
    /\ request \in [Requester -> RequestRow]
    /\ \A x \in Requester : RequestHasWork(request[x]) /\ RequestKnows(request[x])

\* A player is linked to a club that has a row, or waits for one, and it is that
\* of the last profile.
RowAgrees(t) ==
    /\ player[t].club \in clubs \cup {NoClub}
    /\ player[t].club = NoClub \/ player[t].pending = NoClub
    /\ {player[t].club, player[t].pending} \ {NoClub} = {reported[t]} \ {NoClub}
RowsAgree ==
    /\ player \in [Tag -> PlayerRow] /\ reported \in [Tag -> Club \cup {NoClub}]
    /\ \A t \in Tag : RowAgrees(t)

ClubsTyped == clubs \subseteq Club /\ recent \subseteq Club /\ clubLock \in Requester \cup {Nobody}

ProfilesIInv == RowsAgree /\ ClubsTyped /\ RequestsKnow

LEMMA ProfilesIInvImplies == ProfilesIInv => ProfilesInv
BY DEF ProfilesIInv, RowsAgree, RowAgrees, PlayerRow, ClubsTyped, RequestsKnow, RequestHasWork, RequestRow,
       ProfilesInv, ProfilesTypeOK, ClubIsFromProfile

LEMMA OldestOfBatch ==
    ASSUME NEW S \in SUBSET Tag, S # {}
    PROVE  Oldest(S) \in S
<1>1. S \in SUBSET Nat
  BY ProfilesAssumption
<1>2. \E t \in S : \A u \in S : t <= u
  BY <1>1, LeastNat
<1> QED
  BY <1>2 DEF Oldest

LEMMA BatchHasRoom ==
    ASSUME NEW S \in SUBSET Tag, S # {}
    PROVE  /\ OldestFew(S) \in SUBSET Tag /\ OldestFew(S) # {}
           /\ IsFiniteSet(OldestFew(S)) /\ Cardinality(OldestFew(S)) <= BatchLimit
<1>1. S \in SUBSET Nat /\ IsFiniteSet(S) /\ BatchLimit \in Nat /\ BatchLimit > 0
  <2>1. IsFiniteSet(Tag) /\ Tag \subseteq Nat /\ BatchLimit \in Nat \ {0}
    BY ProfilesAssumption
  <2>2. IsFiniteSet(S)
    BY <2>1, FS_Subset
  <2> QED
    BY <2>1, <2>2
<1>2. Cardinality(OldestFew(S)) <= BatchLimit /\ OldestFew(S) # {}
  BY <1>1, LeastFew DEF OldestFew
<1>3. OldestFew(S) \in SUBSET S
  BY DEF OldestFew
<1> QED
  BY <1>1, <1>2, <1>3, FS_Subset

\* A request that rests, or begins with some players or a club.
LEMMA NewRequest ==
    ASSUME NEW r \in RequestRow, ~r.found, r.at # "backfill",
           r.tags = {}, r.at \notin AtPlayers, r.at \in AtClub => r.wanted # {}
    PROVE  RequestHasWork(r) /\ RequestKnows(r)
<1>1. IsFiniteSet(r.tags) /\ Cardinality(r.tags) = 0 /\ BatchLimit \in Nat
  BY FS_EmptySet, ProfilesAssumption
<1> QED
  BY <1>1 DEF RequestHasWork, RequestKnows

LEMMA InitRequests == ProfilesInit => ProfilesIInv
<1> SUFFICES ASSUME ProfilesInit PROVE ProfilesIInv
  OBVIOUS
<1>1. NoRequest \in RequestRow /\ RequestHasWork(NoRequest) /\ RequestKnows(NoRequest)
  <2>1. NoRequest \in RequestRow
    BY DEF NoRequest, RequestRow, RequestAt
  <2> QED
    BY <2>1, NewRequest DEF NoRequest, AtPlayers, AtClub
<1>2. RequestsKnow
  BY <1>1 DEF ProfilesInit, RequestsKnow
<1>3. RowsAgree /\ ClubsTyped
  BY DEF ProfilesInit, RowsAgree, RowAgrees, PlayerRow, NoPlayer, ClubsTyped
<1> QED
  BY <1>2, <1>3 DEF ProfilesIInv

\* A step of one request, which keeps rows and clubs as they should be.
LEMMA RequestSteps ==
    ASSUME ProfilesIInv, NEW x \in Requester, NEW r \in RequestRow,
           request' = [request EXCEPT ![x] = r], RequestHasWork(r), RequestKnows(r)',
           RowsAgree', clubs \subseteq clubs', ClubsTyped'
    PROVE  ProfilesIInv'
<1>1. \A y \in Requester : request'[y] = IF y = x THEN r ELSE request[y]
  BY DEF ProfilesIInv, RequestsKnow
<1>2. request' \in [Requester -> RequestRow]
  BY DEF ProfilesIInv, RequestsKnow
<1>3. ASSUME NEW y \in Requester
      PROVE  RequestHasWork(request'[y]) /\ RequestKnows(request[y])'
  BY <1>1 DEF ProfilesIInv, RequestsKnow, RequestKnows
<1> QED
  BY <1>2, <1>3 DEF ProfilesIInv, RequestsKnow, RequestHasWork

\* A step that touches no row of a player leaves them as they should be.
LEMMA RowsUntouched ==
    ASSUME ProfilesIInv, UNCHANGED <<player, reported>>, clubs \subseteq clubs'
    PROVE  RowsAgree'
BY DEF ProfilesIInv, RowsAgree, RowAgrees

\* The next player of a batch, or the first of the clubs it asks for.
LEMMA NextPlayerGoesOn ==
    ASSUME ProfilesIInv, NEW x \in Requester, request[x].at \in AtPlayers,
           NEW wanted \in SUBSET Club, NextPlayer(x, wanted),
           RowsAgree', UNCHANGED <<clubs, recent, clubLock>>
    PROVE  ProfilesIInv'
<1> DEFINE left == request[x].tags \ {Current(x)}
<1>0. request[x] \in RequestRow /\ RequestHasWork(request[x])
  BY DEF ProfilesIInv, RequestsKnow
<1>1. PICK r : r = [NoRequest EXCEPT !.tags = left, !.wanted = wanted,
             !.at = IF left # {} THEN "fetch" ELSE IF wanted # {} THEN "guard" ELSE "idle"]
  OBVIOUS
<1>2. request' = [request EXCEPT ![x] = r]
  BY <1>1 DEF NextPlayer
<1>3. /\ r.tags = left /\ r.wanted = wanted /\ r.found = FALSE
      /\ r.at = IF left # {} THEN "fetch" ELSE IF wanted # {} THEN "guard" ELSE "idle"
  BY <1>1 DEF NoRequest
<1>4. r \in RequestRow
  <2>1. left \in SUBSET Tag
    BY <1>0 DEF RequestRow
  <2> HIDE DEF left
  <2> QED
    BY <1>1, <2>1 DEF NoRequest, RequestRow, RequestAt
<1>5. IsFiniteSet(left) /\ Cardinality(left) <= BatchLimit
  <2>1. left \in SUBSET request[x].tags /\ IsFiniteSet(request[x].tags)
    BY <1>0 DEF RequestHasWork
  <2>2. Cardinality(left) <= Cardinality(request[x].tags) /\ IsFiniteSet(left)
    BY <2>1, FS_Subset
  <2>3. Cardinality(left) \in Nat /\ Cardinality(request[x].tags) \in Nat
    BY <2>1, <2>2, FS_CardinalityType
  <2>4. Cardinality(request[x].tags) <= BatchLimit /\ BatchLimit \in Nat
    BY <1>0, ProfilesAssumption DEF RequestHasWork
  <2> QED
    BY <2>2, <2>3, <2>4
<1>6. RequestHasWork(r) /\ RequestKnows(r)'
  BY <1>3, <1>5 DEF RequestHasWork, RequestKnows, AtPlayers, AtClub
<1>7. ClubsTyped'
  BY DEF ProfilesIInv, ClubsTyped
<1> QED
  BY <1>2, <1>4, <1>6, <1>7, RequestSteps

\* A request that goes on with the same players and clubs.
LEMMA StageGoesOn ==
    ASSUME ProfilesIInv, NEW x \in Requester, NEW r \in RequestRow,
           request' = [request EXCEPT ![x] = r],
           r.tags = request[x].tags, r.wanted = request[x].wanted,
           \/ request[x].at \in AtPlayers /\ r.at \in AtPlayers
           \/ request[x].at \in AtClub /\ r.at \in AtClub,
           r.found => r.at \in {"player", "write"} /\ r.club \in clubs', r.at = "backfill" => AnyOf(r.wanted) \in clubs',
           RowsAgree', clubs \subseteq clubs', ClubsTyped'
    PROVE  ProfilesIInv'
<1>1. request[x] \in RequestRow /\ RequestHasWork(request[x])
  BY DEF ProfilesIInv, RequestsKnow
<1>2. RequestHasWork(r)
  BY <1>1 DEF RequestHasWork, AtPlayers, AtClub
<1>3. RequestKnows(r)'
  BY DEF RequestKnows
<1> QED
  BY <1>2, <1>3, RequestSteps

\* A request that ends, however.
LEMMA RequestEnds ==
    ASSUME ProfilesIInv, NEW x \in Requester, NEW r,
           r = NoRequest \/ r = [NoRequest EXCEPT !.at = "down"],
           request' = [request EXCEPT ![x] = r],
           UNCHANGED <<player, clubs, recent, reported>>,
           clubLock' \in {clubLock, Nobody}
    PROVE  ProfilesIInv'
<1>1. r \in RequestRow /\ r.at \in {"idle", "down"} /\ r.tags = {} /\ r.found = FALSE
  <2>1. CASE r = NoRequest
    BY <2>1 DEF NoRequest, RequestRow, RequestAt
  <2>2. CASE r = [NoRequest EXCEPT !.at = "down"]
    BY <2>2 DEF NoRequest, RequestRow, RequestAt
  <2> QED
    BY <2>1, <2>2
<1>2. RequestHasWork(r) /\ RequestKnows(r)'
  <2>1. r.at \notin AtPlayers /\ r.at \notin AtClub /\ r.at # "backfill"
    BY <1>1 DEF AtPlayers, AtClub
  <2>2. RequestHasWork(r)
    BY <1>1, <2>1, NewRequest
  <2> QED
    BY <1>1, <2>1, <2>2 DEF RequestKnows
<1>3. RowsAgree' /\ ClubsTyped'
  BY RowsUntouched DEF ProfilesIInv, ClubsTyped
<1> QED
  BY <1>1, <1>2, <1>3, RequestSteps

\* The row that a profile is written to, and those that a new club is linked in.
LEMMA PlayerWritten ==
    ASSUME ProfilesIInv, NEW t \in Tag, NEW row \in PlayerRow, NEW c \in Club \cup {NoClub},
           player' = [player EXCEPT ![t] = row], reported' = [reported EXCEPT ![t] = c],
           clubs' = clubs, row.club \in clubs \cup {NoClub},
           row.club = NoClub \/ row.pending = NoClub,
           {row.club, row.pending} \ {NoClub} = {c} \ {NoClub}
    PROVE  RowsAgree'
<1>1. player \in [Tag -> PlayerRow] /\ reported \in [Tag -> Club \cup {NoClub}]
  BY DEF ProfilesIInv, RowsAgree
<1>2. /\ player' \in [Tag -> PlayerRow] /\ reported' \in [Tag -> Club \cup {NoClub}]
      /\ \A u \in Tag : player'[u] = IF u = t THEN row ELSE player[u]
      /\ \A u \in Tag : reported'[u] = IF u = t THEN c ELSE reported[u]
  BY <1>1
<1>3. ASSUME NEW u \in Tag PROVE RowAgrees(u)'
  <2>1. CASE u = t
    BY <1>2, <2>1 DEF RowAgrees
  <2>2. CASE u # t
    BY <1>2, <2>2 DEF RowAgrees, ProfilesIInv, RowsAgree
  <2> QED
    BY <2>1, <2>2
<1> QED
  BY <1>2, <1>3 DEF RowsAgree

LEMMA FewerKnown ==
    ASSUME ProfilesIInv, NEW t \in Tag, NEW row \in PlayerRow,
           player' = [player EXCEPT ![t] = row], UNCHANGED <<reported, clubs>>,
           row.club = player[t].club, row.pending = player[t].pending
    PROVE  RowsAgree'
<1>1. player \in [Tag -> PlayerRow] /\ reported \in [Tag -> Club \cup {NoClub}] /\ RowAgrees(t)
  BY DEF ProfilesIInv, RowsAgree
<1>2. reported' = [reported EXCEPT ![t] = reported[t]] /\ reported[t] \in Club \cup {NoClub}
  BY <1>1
<1> QED
  BY <1>1, <1>2, PlayerWritten DEF RowAgrees

LEMMA StubKeeps ==
    ASSUME ProfilesIInv, NEW t \in Tag, EnsurePlayerStub(t)
    PROVE  ProfilesIInv'
<1>1. player[t] \in PlayerRow
  BY DEF ProfilesIInv, RowsAgree
<1>2. PICK row : row = [player[t] EXCEPT !.known = "stub"]
  OBVIOUS
<1>3. row \in PlayerRow /\ row.club = player[t].club /\ row.pending = player[t].pending
  BY <1>1, <1>2 DEF PlayerRow
<1>4. player' = [player EXCEPT ![t] = row]
  BY <1>2 DEF EnsurePlayerStub
<1>5. RowsAgree'
  BY <1>3, <1>4, FewerKnown DEF EnsurePlayerStub
<1>6. UNCHANGED <<clubs, recent, clubLock, request>>
  BY DEF EnsurePlayerStub
<1> QED
  BY <1>5, <1>6 DEF ProfilesIInv, ClubsTyped, RequestsKnow, RequestKnows

\* A request begins.
LEMMA StartKeeps ==
    ASSUME ProfilesIInv, NEW x \in Requester,
           StartBatch(x) \/ (\E t \in Tag : StartTag(x, t)) \/ \E c \in Club : StartClub(x, c)
    PROVE  ProfilesIInv'
<1>1. UNCHANGED <<player, clubs, recent, clubLock, reported>>
  BY DEF StartBatch, StartTag, StartClub
<1>2. RowsAgree' /\ ClubsTyped'
  BY <1>1, RowsUntouched DEF ProfilesIInv, ClubsTyped
<1>3. ASSUME NEW tags \in SUBSET Tag, tags # {}, IsFiniteSet(tags), Cardinality(tags) <= BatchLimit,
             request' = [request EXCEPT ![x] = [NoRequest EXCEPT !.at = "fetch", !.tags = tags]]
      PROVE  ProfilesIInv'
  <2>1. PICK r : r = [NoRequest EXCEPT !.at = "fetch", !.tags = tags]
    OBVIOUS
  <2>2. r \in RequestRow
    BY <2>1 DEF NoRequest, RequestRow, RequestAt
  <2>3. r.at = "fetch" /\ r.tags = tags /\ r.found = FALSE
    BY <2>1 DEF NoRequest
  <2>4. RequestHasWork(r) /\ RequestKnows(r)'
    BY <1>3, <2>3 DEF RequestHasWork, RequestKnows, AtPlayers, AtClub
  <2> QED
    BY <1>1, <1>2, <1>3, <2>1, <2>2, <2>4, RequestSteps
<1>4. CASE StartBatch(x)
  <2>1. OldestFew(Unprofiled) \in SUBSET Tag /\ OldestFew(Unprofiled) # {}
        /\ IsFiniteSet(OldestFew(Unprofiled)) /\ Cardinality(OldestFew(Unprofiled)) <= BatchLimit
    <3>1. Unprofiled \in SUBSET Tag /\ Unprofiled # {}
      BY <1>4 DEF StartBatch, Unprofiled
    <3> QED
      BY <3>1, BatchHasRoom
  <2>2. PICK tags : tags = OldestFew(Unprofiled)
    OBVIOUS
  <2>3. request' = [request EXCEPT ![x] = [NoRequest EXCEPT !.at = "fetch", !.tags = tags]]
    BY <1>4, <2>2 DEF StartBatch
  <2> QED
    BY <1>3, <2>1, <2>2, <2>3
<1>5. ASSUME NEW t \in Tag, StartTag(x, t) PROVE ProfilesIInv'
  <2>1. IsFiniteSet({t}) /\ Cardinality({t}) = 1 /\ BatchLimit \in Nat \ {0}
    BY FS_Singleton, ProfilesAssumption
  <2>2. Cardinality({t}) <= BatchLimit /\ {t} \in SUBSET Tag /\ {t} # {}
    BY <2>1
  <2>3. request' = [request EXCEPT ![x] = [NoRequest EXCEPT !.at = "fetch", !.tags = {t}]]
    BY <1>5 DEF StartTag
  <2> QED
    BY <1>3, <2>1, <2>2, <2>3
<1>6. ASSUME NEW c \in Club, StartClub(x, c) PROVE ProfilesIInv'
  <2>1. PICK r : r = [NoRequest EXCEPT !.at = "guard", !.wanted = {c}]
    OBVIOUS
  <2>2. r \in RequestRow
    BY <2>1 DEF NoRequest, RequestRow, RequestAt
  <2>3. r.at = "guard" /\ r.tags = {} /\ r.wanted = {c} /\ r.found = FALSE
    BY <2>1 DEF NoRequest
  <2>4. RequestHasWork(r) /\ RequestKnows(r)'
    <3>1. RequestHasWork(r)
      BY <2>2, <2>3, NewRequest DEF AtPlayers
    <3> QED
      BY <2>3, <3>1 DEF RequestKnows
  <2>5. request' = [request EXCEPT ![x] = r]
    BY <1>6, <2>1 DEF StartClub
  <2> QED
    BY <1>1, <1>2, <2>2, <2>4, <2>5, RequestSteps
<1> QED
  BY <1>4, <1>5, <1>6

\* What a request reads of a player, before it writes.
LEMMA FetchKeeps ==
    ASSUME ProfilesIInv, NEW x \in Requester,
           \/ FetchNothing(x) \/ FetchNotFound(x) \/ (\E c \in Club \cup {NoClub} : FetchProfile(x, c))
           \/ GetClubByTag(x) \/ GetPlayerByTag(x) \/ InsertRejected(x)
    PROVE  ProfilesIInv'
<1>1. UNCHANGED <<player, clubs, recent, clubLock, reported>>
  BY DEF FetchNothing, FetchNotFound, FetchProfile, GetClubByTag, GetPlayerByTag, InsertRejected
<1>2. RowsAgree' /\ ClubsTyped'
  BY <1>1, RowsUntouched DEF ProfilesIInv, ClubsTyped
<1>3. request[x] \in RequestRow /\ RequestKnows(request[x]) /\ NoClub \notin clubs
  BY ProfilesAssumption DEF ProfilesIInv, RequestsKnow, ClubsTyped
<1>4. CASE FetchNothing(x)
  <2>1. request[x].at \in AtPlayers /\ request[x].wanted \in SUBSET Club
    BY <1>3, <1>4 DEF FetchNothing, AtPlayers, RequestRow
  <2> QED
    BY <1>1, <1>2, <1>4, <2>1, NextPlayerGoesOn DEF FetchNothing
<1>5. ASSUME NEW r \in RequestRow, request' = [request EXCEPT ![x] = r],
             r.tags = request[x].tags, r.wanted = request[x].wanted,
             request[x].at \in AtPlayers, r.at \in AtPlayers,
             r.found => r.at \in {"player", "write"} /\ r.club \in clubs
      PROVE  ProfilesIInv'
  <2>1. r.at # "backfill"
    BY <1>5 DEF AtPlayers
  <2> QED
    BY <1>1, <1>2, <1>5, <2>1, StageGoesOn
<1>6. CASE FetchNotFound(x)
  <2>1. PICK r : r = [request[x] EXCEPT !.at = "unreachable"]
    OBVIOUS
  <2>2. r \in RequestRow
    BY <1>3, <2>1 DEF RequestRow, RequestAt
  <2>3. /\ r.tags = request[x].tags /\ r.wanted = request[x].wanted /\ r.at = "unreachable"
        /\ r.club = request[x].club /\ r.found = request[x].found
    BY <1>3, <2>1 DEF RequestRow
  <2> QED
    BY <1>3, <1>5, <1>6, <2>1, <2>2, <2>3 DEF FetchNotFound, Goes, AtPlayers, RequestKnows
<1>7. ASSUME NEW c \in Club \cup {NoClub}, FetchProfile(x, c)
      PROVE  ProfilesIInv'
  <2>1. PICK r : r = [request[x] EXCEPT !.at = "club", !.club = c]
    OBVIOUS
  <2>2. r \in RequestRow
    BY <1>3, <2>1 DEF RequestRow, RequestAt
  <2>3. r.tags = request[x].tags /\ r.wanted = request[x].wanted /\ r.at = "club" /\ r.found = request[x].found
    BY <1>3, <2>1 DEF RequestRow
  <2>4. request[x].at = "fetch" /\ ~request[x].found
    BY <1>3, <1>7 DEF FetchProfile, RequestKnows
  <2>5. request' = [request EXCEPT ![x] = r]
    BY <1>7, <2>1 DEF FetchProfile
  <2> QED
    BY <1>5, <2>2, <2>3, <2>4, <2>5 DEF AtPlayers
<1>8. CASE GetClubByTag(x)
  <2>0. PICK b \in BOOLEAN : b = (request[x].club \in clubs)
    <3>1. CASE request[x].club \in clubs
      BY <3>1, Zenon
    <3>2. CASE request[x].club \notin clubs
      <4>1. (request[x].club \in clubs) = FALSE
        BY <3>2
      <4> QED
        BY <4>1, Zenon
    <3> QED
      BY <3>1, <3>2
  <2>1. PICK r : r = [request[x] EXCEPT !.at = "player", !.found = b]
    OBVIOUS
  <2>2. r \in RequestRow
    BY <1>3, <2>1 DEF RequestRow, RequestAt
  <2>3. /\ r.tags = request[x].tags /\ r.wanted = request[x].wanted /\ r.at = "player"
        /\ r.club = request[x].club /\ r.found = b
    BY <1>3, <2>1 DEF RequestRow
  <2>4. request[x].at = "club"
    BY <1>8 DEF GetClubByTag
  <2>5. request' = [request EXCEPT ![x] = r]
    BY <1>8, <2>0, <2>1 DEF GetClubByTag
  <2> QED
    BY <1>5, <2>0, <2>2, <2>3, <2>4, <2>5 DEF AtPlayers
<1>9. CASE GetPlayerByTag(x)
  <2>1. PICK r : r = [request[x] EXCEPT !.at = "write", !.exists = player[Current(x)].known # "no"]
    OBVIOUS
  <2>2. r \in RequestRow
    BY <1>3, <2>1 DEF RequestRow, RequestAt
  <2>3. /\ r.tags = request[x].tags /\ r.wanted = request[x].wanted /\ r.at = "write"
        /\ r.club = request[x].club /\ r.found = request[x].found
    BY <1>3, <2>1 DEF RequestRow
  <2>4. request[x].at = "player"
    BY <1>9 DEF GetPlayerByTag
  <2>5. request' = [request EXCEPT ![x] = r]
    BY <1>9, <2>1 DEF GetPlayerByTag
  <2> QED
    BY <1>3, <1>5, <2>2, <2>3, <2>4, <2>5 DEF AtPlayers, RequestKnows
<1>10. CASE InsertRejected(x)
  <2>1. request' = [request EXCEPT ![x] = NoRequest]
    BY <1>10 DEF InsertRejected
  <2> QED
    BY <1>1, <2>1, RequestEnds
<1> QED
  BY <1>4, <1>6, <1>7, <1>8, <1>9, <1>10

\* The rows that a profile changes: the player's own.
LEMMA ProfileKeeps ==
    ASSUME ProfilesIInv, NEW x \in Requester, MarkPlayerUnreachable(x) \/ WriteProfile(x)
    PROVE  ProfilesIInv'
<1>1. /\ request[x] \in RequestRow /\ RequestHasWork(request[x]) /\ RequestKnows(request[x])
      /\ NoClub \notin clubs /\ NoClub \notin Club
  BY ProfilesAssumption DEF ProfilesIInv, RequestsKnow, ClubsTyped
<1>2. request[x].at \in AtPlayers
  BY DEF MarkPlayerUnreachable, WriteProfile, AtPlayers
<1>3. PICK t \in Tag : t = Current(x)
  <2>1. request[x].tags \in SUBSET Tag /\ request[x].tags # {}
    BY <1>1, <1>2 DEF RequestHasWork, RequestRow
  <2> QED
    BY <2>1, OldestOfBatch DEF Current
<1>4. player[t] \in PlayerRow /\ request[x].wanted \in SUBSET Club
  BY <1>1 DEF ProfilesIInv, RowsAgree, RequestRow
<1>5. CASE MarkPlayerUnreachable(x)
  <2>1. PICK row : row = [player[t] EXCEPT !.reachable = player[t].known = "no"]
    OBVIOUS
  <2>2. row \in PlayerRow /\ row.club = player[t].club /\ row.pending = player[t].pending
    BY <1>4, <2>1 DEF PlayerRow
  <2>3. player' = [player EXCEPT ![t] = row] /\ UNCHANGED <<clubs, recent, clubLock, reported>>
    BY <1>3, <1>5, <2>1 DEF MarkPlayerUnreachable
  <2>4. RowsAgree'
    BY <2>2, <2>3, FewerKnown
  <2>5. NextPlayer(x, request[x].wanted)
    BY <1>5 DEF MarkPlayerUnreachable
  <2> QED
    BY <1>2, <1>4, <2>3, <2>4, <2>5, NextPlayerGoesOn
<1>6. CASE WriteProfile(x)
  <2>1. PICK waits \in BOOLEAN : waits = (request[x].club # NoClub /\ ~request[x].found)
    OBVIOUS
  <2>2. PICK known \in {"stub", "profiled"} : player' = [player EXCEPT ![t] =
              [known |-> known, reachable |-> TRUE,
               club |-> IF request[x].found THEN request[x].club ELSE NoClub,
               pending |-> IF waits THEN request[x].club ELSE NoClub]]
    BY <1>3, <1>6, <2>1 DEF WriteProfile
  <2>3. PICK row : row = [known |-> known, reachable |-> TRUE,
               club |-> IF request[x].found THEN request[x].club ELSE NoClub,
               pending |-> IF waits THEN request[x].club ELSE NoClub]
    OBVIOUS
  <2>4. PICK c \in Club \cup {NoClub} : c = request[x].club
    BY <1>1 DEF RequestRow
  <2>5. /\ row.club = IF request[x].found THEN c ELSE NoClub
        /\ row.pending = IF waits THEN c ELSE NoClub
    BY <2>3, <2>4
  <2>6. row \in PlayerRow
    BY <2>3, <2>4 DEF PlayerRow
  <2>7. request[x].found => c \in clubs
    BY <1>1, <2>4 DEF RequestKnows
  <2>8. /\ row.club \in clubs \cup {NoClub} /\ (row.club = NoClub \/ row.pending = NoClub)
        /\ {row.club, row.pending} \ {NoClub} = {c} \ {NoClub}
    BY <1>1, <2>1, <2>4, <2>5, <2>7
  <2>9. player' = [player EXCEPT ![t] = row] /\ reported' = [reported EXCEPT ![t] = c]
        /\ UNCHANGED <<clubs, recent, clubLock>>
    BY <1>3, <1>6, <2>2, <2>3, <2>4 DEF WriteProfile
  <2>10. RowsAgree'
    BY <2>6, <2>8, <2>9, PlayerWritten
  <2>11. PICK wanted \in SUBSET Club : NextPlayer(x, wanted)
    <3>1. (IF waits /\ Cardinality(request[x].wanted) < ClubLimit
           THEN request[x].wanted \cup {request[x].club} ELSE request[x].wanted) \in SUBSET Club
      BY <1>4, <2>1, <2>4
    <3> QED
      BY <1>6, <2>1, <3>1 DEF WriteProfile
  <2> QED
    BY <1>2, <2>9, <2>10, <2>11, NextPlayerGoesOn
<1> QED
  BY <1>5, <1>6

\* The club that a request wants next is one of those it wants.
LEMMA AnyOfSome ==
    ASSUME NEW S, S # {}
    PROVE  AnyOf(S) \in S
BY DEF AnyOf

\* It goes on to the next club, or ends.
LEMMA NextClubGoesOn ==
    ASSUME ProfilesIInv, NEW x \in Requester, request[x].at \in AtClub, NextClub(x),
           RowsAgree', UNCHANGED clubs, ClubsTyped'
    PROVE  ProfilesIInv'
<1> DEFINE left == request[x].wanted \ {Wanted(x)}
<1>0. request[x] \in RequestRow
  BY DEF ProfilesIInv, RequestsKnow
<1>1. PICK r : r = [NoRequest EXCEPT !.at = IF left = {} THEN "idle" ELSE "guard", !.wanted = left]
  OBVIOUS
<1>2. request' = [request EXCEPT ![x] = r]
  BY <1>1 DEF NextClub
<1>3. /\ r.tags = {} /\ r.wanted = left /\ r.found = FALSE
      /\ r.at = IF left = {} THEN "idle" ELSE "guard"
  BY <1>1 DEF NoRequest
<1>4. r \in RequestRow
  <2>1. left \in SUBSET Club
    BY <1>0 DEF RequestRow
  <2> HIDE DEF left
  <2> QED
    BY <1>1, <2>1 DEF NoRequest, RequestRow, RequestAt
<1>5. r.at \in {"idle", "guard"} /\ (r.at = "guard" => r.wanted # {})
  BY <1>3
<1> HIDE DEF left
<1>6. RequestHasWork(r) /\ RequestKnows(r)'
  <2>1. r.at \notin AtPlayers /\ r.at # "backfill" /\ (r.at \in AtClub => r.wanted # {})
    BY <1>5 DEF AtPlayers, AtClub
  <2>2. RequestHasWork(r)
    BY <1>3, <1>4, <2>1, NewRequest
  <2> QED
    BY <1>3, <2>1, <2>2 DEF RequestKnows
<1> QED
  BY <1>2, <1>4, <1>6, RequestSteps

\* Players who wait for a club are linked to it once it has a row.
LEMMA LinkKeeps ==
    ASSUME ProfilesIInv, NEW c \in clubs, c \in Club, UNCHANGED <<clubs, reported>>,
           player' = [t \in Tag |-> IF WaitsFor(t, c) THEN Linked(player[t], c) ELSE player[t]]
    PROVE  RowsAgree'
<1>1. /\ player \in [Tag -> PlayerRow] /\ reported \in [Tag -> Club \cup {NoClub}] /\ NoClub \notin Club
      /\ \A t \in Tag : RowAgrees(t)
  BY ProfilesAssumption DEF ProfilesIInv, RowsAgree
<1>2. ASSUME NEW t \in Tag
      PROVE  player'[t] \in PlayerRow /\ RowAgrees(t)'
  <2>1. CASE WaitsFor(t, c)
    <3>1. PICK row : row = Linked(player[t], c)
      OBVIOUS
    <3>2. row \in PlayerRow /\ row.club = c /\ row.pending = NoClub /\ player'[t] = row
      BY <1>1, <2>1, <3>1 DEF PlayerRow, Linked
    <3>3. player[t].pending = c /\ player[t].club = NoClub /\ {c} = {reported[t]} \ {NoClub}
      BY <1>1, <2>1 DEF WaitsFor, RowAgrees
    <3> QED
      BY <1>1, <3>2, <3>3 DEF RowAgrees
  <2>2. CASE ~WaitsFor(t, c)
    BY <1>1, <2>2 DEF RowAgrees
  <2> QED
    BY <2>1, <2>2
<1>3. player' = [t \in Tag |-> player'[t]]
  OBVIOUS
<1> QED
  BY <1>1, <1>2, <1>3 DEF RowsAgree

LEMMA ClubKeeps ==
    ASSUME ProfilesIInv, NEW x \in Requester, ClubStep(x)
    PROVE  ProfilesIInv'
<1>1. /\ request[x] \in RequestRow /\ RequestHasWork(request[x]) /\ RequestKnows(request[x])
      /\ request[x].at \in AtClub /\ ClubsTyped
  BY DEF ProfilesIInv, RequestsKnow, AtClub, ClubStep, GuardClub, LockClub, OpenClubFetch, FetchClub,
         FetchClubFails, UpsertClub, BackfillPendingClubLinks, ReleaseClub
<1>2. PICK c : c = Wanted(x)
  OBVIOUS
<1>3. c \in Club /\ c = AnyOf(request[x].wanted)
  <2>1. request[x].wanted \in SUBSET Club /\ request[x].wanted # {}
    BY <1>1 DEF RequestHasWork, RequestRow
  <2> QED
    BY <1>2, <2>1, AnyOfSome DEF Wanted
<1>4. clubs \subseteq clubs' /\ (UNCHANGED <<player, reported>> => RowsAgree')
  <2>1. clubs \subseteq clubs'
    BY DEF ClubStep, GuardClub, LockClub, OpenClubFetch, FetchClub,
           FetchClubFails, UpsertClub, BackfillPendingClubLinks, ReleaseClub
  <2> QED
    BY <2>1, RowsUntouched
<1>5. ASSUME NEW at \in AtClub, Goes(x, at), at = "backfill" => c \in clubs', RowsAgree', ClubsTyped'
      PROVE  ProfilesIInv'
  <2>1. PICK r : r = [request[x] EXCEPT !.at = at]
    OBVIOUS
  <2>2. r \in RequestRow
    BY <1>1, <2>1 DEF RequestRow, RequestAt, AtClub
  <2>3. /\ r.tags = request[x].tags /\ r.wanted = request[x].wanted /\ r.at = at
        /\ r.found = request[x].found
    BY <1>1, <2>1 DEF RequestRow
  <2>4. request' = [request EXCEPT ![x] = r]
    BY <1>5, <2>1 DEF Goes
  <2>5. ~r.found
    BY <1>1, <2>3 DEF RequestKnows, AtClub
  <2> QED
    BY <1>1, <1>3, <1>4, <1>5, <2>2, <2>3, <2>4, <2>5, StageGoesOn
<1>6. CASE GuardClub(x)
  <2>1. UNCHANGED <<player, clubs, recent, clubLock, reported>>
    BY <1>6 DEF GuardClub
  <2>2. RowsAgree' /\ ClubsTyped'
    BY <1>1, <1>4, <2>1 DEF ClubsTyped
  <2>3. NextClub(x) \/ Goes(x, "lock")
    BY <1>6 DEF GuardClub
  <2> QED
    BY <1>1, <1>5, <2>1, <2>2, <2>3, NextClubGoesOn DEF AtClub
<1>7. CASE LockClub(x)
  <2>1. UNCHANGED <<player, clubs, recent, reported>> /\ clubLock' \in Requester \cup {Nobody}
    BY <1>1, <1>7 DEF LockClub, ClubsTyped
  <2>2. RowsAgree' /\ ClubsTyped'
    BY <1>1, <1>4, <2>1 DEF ClubsTyped
  <2>3. NextClub(x) \/ Goes(x, "open")
    BY <1>7 DEF LockClub
  <2> QED
    BY <1>1, <1>5, <2>1, <2>2, <2>3, NextClubGoesOn DEF AtClub
<1>8. CASE OpenClubFetch(x)
  <2>1. UNCHANGED <<player, clubs, clubLock, reported>> /\ recent' = recent \cup {c}
    BY <1>2, <1>8 DEF OpenClubFetch
  <2>2. RowsAgree' /\ ClubsTyped'
    BY <1>1, <1>3, <1>4, <2>1 DEF ClubsTyped
  <2>3. Goes(x, "fetchclub")
    BY <1>8 DEF OpenClubFetch
  <2> QED
    BY <1>5, <2>2, <2>3 DEF AtClub
<1>9. CASE FetchClub(x) \/ FetchClubFails(x)
  <2>1. UNCHANGED <<player, clubs, recent, clubLock, reported>>
    BY <1>9 DEF FetchClub, FetchClubFails
  <2>2. RowsAgree' /\ ClubsTyped'
    BY <1>1, <1>4, <2>1 DEF ClubsTyped
  <2>3. Goes(x, "upsert") \/ Goes(x, "release")
    BY <1>9 DEF FetchClub, FetchClubFails
  <2> QED
    BY <1>5, <2>2, <2>3 DEF AtClub
<1>10. CASE UpsertClub(x)
  <2>1. UNCHANGED <<player, recent, clubLock, reported>> /\ clubs' = clubs \cup {c}
    BY <1>2, <1>10 DEF UpsertClub
  <2>2. RowsAgree' /\ ClubsTyped'
    BY <1>1, <1>3, <1>4, <2>1 DEF ClubsTyped
  <2>3. Goes(x, "backfill") /\ c \in clubs'
    BY <1>10, <2>1 DEF UpsertClub
  <2> QED
    BY <1>5, <2>2, <2>3 DEF AtClub
<1>11. CASE BackfillPendingClubLinks(x)
  <2>1. UNCHANGED <<clubs, recent, clubLock, reported>> /\ Goes(x, "release")
    BY <1>11 DEF BackfillPendingClubLinks
  <2>2. player' = [t \in Tag |-> IF WaitsFor(t, c) THEN Linked(player[t], c) ELSE player[t]]
    BY <1>2, <1>11 DEF BackfillPendingClubLinks
  <2>3. c \in clubs
    BY <1>1, <1>3, <1>11 DEF BackfillPendingClubLinks, RequestKnows
  <2>4. RowsAgree' /\ ClubsTyped'
    BY <1>1, <1>3, <2>1, <2>2, <2>3, LinkKeeps DEF ClubsTyped
  <2> QED
    BY <1>5, <2>1, <2>4 DEF AtClub
<1>12. CASE ReleaseClub(x)
  <2>1. UNCHANGED <<player, clubs, recent, reported>> /\ clubLock' \in {clubLock, Nobody} /\ NextClub(x)
    BY <1>12 DEF ReleaseClub, Free
  <2>2. RowsAgree' /\ ClubsTyped'
    BY <1>1, <1>4, <2>1 DEF ClubsTyped
  <2> QED
    BY <1>1, <2>1, <2>2, NextClubGoesOn
<1> QED
  BY <1>6, <1>7, <1>8, <1>9, <1>10, <1>11, <1>12 DEF ClubStep

\* Lock rows and fetch runs grow old.
LEMMA AgeKeeps ==
    ASSUME ProfilesIInv, ClubLockExpires \/ \E c \in Club : SixHoursPass(c)
    PROVE  ProfilesIInv'
<1>1. UNCHANGED <<player, clubs, request, reported>> /\ recent' \subseteq recent /\ clubLock' \in {clubLock, Nobody}
  BY DEF ClubLockExpires, SixHoursPass
<1>2. RowsAgree' /\ ClubsTyped'
  BY <1>1, RowsUntouched DEF ProfilesIInv, ClubsTyped
<1> QED
  BY <1>1, <1>2 DEF ProfilesIInv, RequestsKnow, RequestKnows

LEMMA ProfilesStepKeeps ==
    ProfilesIInv /\ [ProfilesNext]_profileVars => ProfilesIInv'
<1> SUFFICES ASSUME ProfilesIInv, [ProfilesNext]_profileVars PROVE ProfilesIInv'
  OBVIOUS
<1>1. CASE UNCHANGED profileVars
  <2>1. UNCHANGED <<player, clubs, recent, clubLock, request, reported>>
    BY <1>1 DEF profileVars
  <2> QED
    BY <2>1 DEF ProfilesIInv, RowsAgree, RowAgrees, ClubsTyped, RequestsKnow, RequestKnows
<1>2. ASSUME NEW t \in Tag, EnsurePlayerStub(t) PROVE ProfilesIInv'
  BY <1>2, StubKeeps
<1>3. ASSUME NEW x \in Requester,
             StartBatch(x) \/ (\E t \in Tag : StartTag(x, t)) \/ \E c \in Club : StartClub(x, c)
      PROVE  ProfilesIInv'
  BY <1>3, StartKeeps
<1>4. ASSUME NEW x \in Requester, PlayerStep(x) PROVE ProfilesIInv'
  BY <1>4, FetchKeeps, ProfileKeeps DEF PlayerStep
<1>5. ASSUME NEW x \in Requester, ClubStep(x) PROVE ProfilesIInv'
  BY <1>5, ClubKeeps
<1>6. ASSUME NEW x \in Requester, Throws(x) \/ RequesterDies(x) PROVE ProfilesIInv'
  <2>1. PICK r : r = [NoRequest EXCEPT !.at = "down"]
    OBVIOUS
  <2>2. request' = [request EXCEPT ![x] = r] /\ UNCHANGED <<player, clubs, recent, reported>>
        /\ clubLock' \in {clubLock, Nobody}
    BY <1>6, <2>1 DEF Throws, RequesterDies, Free
  <2> QED
    BY <2>1, <2>2, RequestEnds
<1>7. CASE ClubLockExpires \/ \E c \in Club : SixHoursPass(c)
  BY <1>7, AgeKeeps
<1> QED
  BY <1>1, <1>2, <1>3, <1>4, <1>5, <1>6, <1>7 DEF ProfilesNext

\* However requests overlap, fail and repeat each other, a player has the club of
\* the profile that was written last, linked or waited for, and only one (ProfilesInv).
THEOREM ClubsAgreeWithProfiles == ProfilesSpec => []ProfilesInv
<1>1. ProfilesSpec => []ProfilesIInv
  BY InitRequests, ProfilesStepKeeps, PTL DEF ProfilesSpec
<1> QED
  BY <1>1, ProfilesIInvImplies, PTL

-----------------------------------------------------------------------------
(* Discovery: a batch is of observed players, and the player a request is      *)
(* about to mark has been scheduled, by it or by another.                     *)

EntryRow == [scheduled : BOOLEAN, source : {"none", "battle", "club_member", "seed"},
             region : Region \cup {NoValue}, active : BOOLEAN]
ObservedRow == [tag : PlayerTag, source : ObservedIn]
Promotion == [at : {"idle", "down", "lock", "promote", "mark", "release"}, batch : SUBSET PlayerTag]

EntriesTyped ==
    /\ entry \in [PlayerTag -> EntryRow]
    /\ \A t \in PlayerTag : ~entry[t].scheduled => entry[t].region = NoValue

ObservedTyped ==
    /\ observed \in Seq(ObservedRow)
    /\ Len(observed) = Cardinality(Observed)
    /\ promoted \subseteq Observed

PromotionAgrees(p) ==
    /\ p.batch \subseteq Observed /\ IsFiniteSet(p.batch) /\ Cardinality(p.batch) <= PromotionBatch
    /\ p.at \in {"promote", "mark"} => p.batch # {}
    /\ p.at = "mark" => entry[CHOOSE t \in p.batch : TRUE].scheduled
PromotionsAgree ==
    /\ promoter \in [Promoter -> Promotion]
    /\ \A x \in Promoter : PromotionAgrees(promoter[x])

DiscoveryIInv ==
    /\ EntriesTyped /\ ObservedTyped /\ PromotionsAgree /\ PromotedIsScheduled
    /\ promoterLock \in Promoter \cup {NoValue} /\ refresh \subseteq Region

LEMMA PlaceHasRow ==
    ASSUME NEW T, NEW s \in Seq(T)
    PROVE  \A i \in 1..Len(s) : s[i] \in T
OBVIOUS

LEMMA DiscoveryIInvImplies == DiscoveryIInv => DiscoveryInv
<1> SUFFICES ASSUME DiscoveryIInv PROVE DiscoveryInv
  OBVIOUS
<1>1. \A i \in 1..Len(observed) : observed[i] \in [tag : PlayerTag, source : ObservedIn]
  BY PlaceHasRow DEF DiscoveryIInv, ObservedTyped, ObservedRow
<1> QED
  BY <1>1 DEF DiscoveryIInv, EntriesTyped, EntryRow, ObservedTyped, PromotionsAgree, PromotionAgrees,
              Promotion, DiscoveryInv, DiscoveryTypeOK

\* A number of observed players is a number of places.
LEMMA PlacesAreFinite ==
    ASSUME observed \in Seq(ObservedRow), NEW W \in SUBSET (1..Len(observed))
    PROVE  IsFiniteSet(W)
<1>1. Len(observed) \in Nat
  OBVIOUS
<1>2. IsFiniteSet(1..Len(observed))
  BY <1>1, FS_Interval
<1> QED
  BY <1>2, FS_Subset

\* The rounds of two candidates of one source differ,
LEMMA RoundsDiffer ==
    ASSUME observed \in Seq(ObservedRow), NEW window \in SUBSET (1..Len(observed)),
           NEW i \in window, NEW j \in window, i < j, observed[i].source = observed[j].source
    PROVE  Round(window, i) < Round(window, j)
<1> DEFINE before(k) == {h \in window : h < k /\ observed[h].source = observed[k].source}
<1>1. IsFiniteSet(before(i)) /\ IsFiniteSet(before(j))
  BY PlacesAreFinite
<1>2. before(i) \in SUBSET before(j) /\ i \in before(j) /\ i \notin before(i)
  <2>1. \A h \in window : h \in Int
    OBVIOUS
  <2>2. \A h \in window : h < i => h < j
    BY <2>1
  <2>3. ~(i < i)
    BY <2>1
  <2>4. before(i) \subseteq before(j)
    BY <2>2
  <2>5. i \in before(j)
    OBVIOUS
  <2>6. i \notin before(i)
    BY <2>3
  <2> QED
    BY <2>4, <2>5, <2>6
<1>3. Round(window, i) = Cardinality(before(i)) /\ Round(window, j) = Cardinality(before(j))
  BY DEF Round
<1> HIDE DEF before
<1>4. Cardinality(before(i)) <= Cardinality(before(j)) /\ Cardinality(before(j)) # Cardinality(before(i))
  BY <1>1, <1>2, FS_Subset
<1>5. Cardinality(before(i)) \in Nat /\ Cardinality(before(j)) \in Nat
  BY <1>1, FS_CardinalityType
<1> QED
  BY <1>3, <1>4, <1>5

\* so that the candidates are in a strict order,
LEMMA PickedInOrder ==
    ASSUME observed \in Seq(ObservedRow), NEW window \in SUBSET (1..Len(observed))
    PROVE  /\ \A i, j \in window : i = j \/ PickedBefore(window, i, j) \/ PickedBefore(window, j, i)
           /\ \A i \in window : ~PickedBefore(window, i, i)
           /\ \A i, j, k \in window :
                PickedBefore(window, i, j) /\ PickedBefore(window, j, k) => PickedBefore(window, i, k)
<1>1. \A i \in window : Round(window, i) \in Nat
  <2>1. ASSUME NEW i \in window PROVE Round(window, i) \in Nat
    <3>1. IsFiniteSet({j \in window : j < i /\ observed[j].source = observed[i].source})
      BY PlacesAreFinite
    <3> QED
      BY <3>1, FS_CardinalityType DEF Round
  <2> QED
    BY <2>1
<1>2. \A coarse : ActiveOf(coarse) \in Nat
  <2>1. \A coarse : IsFiniteSet({t \in PlayerTag : entry[t].active /\ entry[t].source = coarse})
    BY DiscoveryAssumption, FS_Subset
  <2> QED
    BY <2>1, FS_CardinalityType DEF ActiveOf
<1>3. \A i \in window : observed[i].source \in Int
  <2>1. \A i \in window : observed[i] \in ObservedRow
    BY PlaceHasRow
  <2>2. \A i \in window : observed[i].source \in ObservedIn
    BY <2>1 DEF ObservedRow
  <2>3. ObservedIn \subseteq Int
    BY DiscoveryAssumption
  <2> QED
    BY <2>2, <2>3
<1>4. \A i, j \in window : i # j /\ observed[i].source = observed[j].source => Round(window, i) # Round(window, j)
  <2>1. ASSUME NEW i \in window, NEW j \in window, i # j, observed[i].source = observed[j].source
        PROVE  Round(window, i) # Round(window, j)
    <3>1. i \in Int /\ j \in Int /\ (i < j \/ j < i)
      BY <2>1
    <3>2. Round(window, i) < Round(window, j) \/ Round(window, j) < Round(window, i)
      BY <2>1, <3>1, RoundsDiffer
    <3> QED
      BY <1>1, <3>2
  <2> QED
    BY <2>1
<1>5. \A i, j \in window : i = j \/ PickedBefore(window, i, j) \/ PickedBefore(window, j, i)
  BY <1>1, <1>2, <1>3, <1>4 DEF PickedBefore, ComesBefore
<1>6. \A i \in window : ~PickedBefore(window, i, i)
  BY <1>1, <1>2, <1>3 DEF PickedBefore, ComesBefore
<1>7. \A i, j, k \in window :
        PickedBefore(window, i, j) /\ PickedBefore(window, j, k) => PickedBefore(window, i, k)
  BY SMTT(30), <1>1, <1>2, <1>3 DEF PickedBefore, ComesBefore
<1> QED
  BY <1>5, <1>6, <1>7

\* and a batch has no more than it may.
LEMMA BatchIsSmall ==
    ASSUME observed \in Seq(ObservedRow), NEW window \in SUBSET (1..Len(observed))
    PROVE  /\ SelectPromotionBatch(window) \subseteq Observed
           /\ IsFiniteSet(SelectPromotionBatch(window))
           /\ Cardinality(SelectPromotionBatch(window)) <= PromotionBatch
<1> DEFINE before == [j \in window |-> {i \in window : PickedBefore(window, i, j)}]
           few == {j \in window : Cardinality({i \in window : PickedBefore(window, i, j)}) < PromotionBatch}
           tagOf == [k \in few |-> observed[k].tag]
<1>1. IsFiniteSet(window) /\ PromotionBatch \in Nat
  BY PlacesAreFinite, DiscoveryAssumption
<1>2. /\ before \in [window -> SUBSET window] /\ few \in SUBSET window
      /\ \A x \in few : Cardinality(before[x]) < PromotionBatch
      /\ \A i, j \in window : i \in before[j] <=> PickedBefore(window, i, j)
  OBVIOUS
<1>3. SelectPromotionBatch(window) = {observed[k].tag : k \in few}
  BY DEF SelectPromotionBatch
<1> HIDE DEF few, before
<1>4. IsFiniteSet(few) /\ Cardinality(few) <= PromotionBatch
  <2>1. \A x, y \in window : x = y \/ x \in before[y] \/ y \in before[x]
    BY <1>2, PickedInOrder
  <2>2. \A x \in window : x \notin before[x]
    BY <1>2, PickedInOrder
  <2>3. \A x, y \in window : x \in before[y] => before[x] \subseteq before[y]
    BY <1>2, PickedInOrder
  <2> QED
    BY <1>1, <1>2, <2>1, <2>2, <2>3, FirstFew
<1>5. tagOf \in Surjection(few, SelectPromotionBatch(window))
  BY <1>3 DEF Surjection
<1> HIDE DEF tagOf
<1>6. /\ IsFiniteSet(SelectPromotionBatch(window))
      /\ Cardinality(SelectPromotionBatch(window)) <= Cardinality(few)
  BY <1>4, <1>5, FS_Surjection
<1>7. Cardinality(SelectPromotionBatch(window)) \in Nat /\ Cardinality(few) \in Nat
  BY <1>4, <1>6, FS_CardinalityType
<1>8. SelectPromotionBatch(window) \subseteq Observed
  BY <1>2, <1>3 DEF Observed
<1> QED
  BY <1>1, <1>4, <1>6, <1>7, <1>8

LEMMA InitDiscovery == DiscoveryInit => DiscoveryIInv
<1> SUFFICES ASSUME DiscoveryInit PROVE DiscoveryIInv
  OBVIOUS
<1>1. EntriesTyped
  BY DEF DiscoveryInit, EntriesTyped, EntryRow, Unscheduled
<1>2. ObservedTyped
  <2>1. observed = <<>> /\ Len(observed) = 0 /\ observed \in Seq(ObservedRow)
    BY DEF DiscoveryInit
  <2>2. Observed = {}
    BY <2>1 DEF Observed
  <2> QED
    BY <2>1, <2>2, FS_EmptySet DEF ObservedTyped, DiscoveryInit
<1>3. PromotionsAgree
  <2>1. NoPromotion \in Promotion /\ NoPromotion.at = "idle" /\ NoPromotion.batch = {}
    BY DEF NoPromotion, Promotion
  <2>2. PromotionAgrees(NoPromotion)
    BY <2>1, FS_EmptySet, DiscoveryAssumption DEF PromotionAgrees
  <2> QED
    BY <2>1, <2>2 DEF DiscoveryInit, PromotionsAgree
<1> QED
  BY <1>1, <1>2, <1>3 DEF DiscoveryIInv, DiscoveryInit, PromotedIsScheduled

\* A player that is scheduled again stays in its stratum.
LEMMA ScheduleKeeps ==
    ASSUME DiscoveryIInv, NEW t \in PlayerTag, NEW source \in {"battle", "club_member", "seed"},
           NEW region \in Region \cup {NoValue}, entry' = Ensured(t, source, region)
    PROVE  /\ EntriesTyped' /\ entry'[t].scheduled
           /\ \A u \in PlayerTag :
                /\ entry[u].scheduled => entry'[u].scheduled /\ entry'[u].source = entry[u].source
                /\ entry[u].region # NoValue => entry'[u].region = entry[u].region
<1>1. entry \in [PlayerTag -> EntryRow] /\ entry[t] \in EntryRow /\ (~entry[t].scheduled => entry[t].region = NoValue)
  BY DEF DiscoveryIInv, EntriesTyped
<1>2. PICK row : row = IF entry[t].scheduled THEN Rescheduled(entry[t], source, region)
                       ELSE [scheduled |-> TRUE, source |-> source, region |-> region, active |-> TRUE]
  OBVIOUS
<1>3. /\ row \in EntryRow /\ row.scheduled
      /\ entry[t].scheduled => row.source = entry[t].source
      /\ entry[t].region # NoValue => row.region = entry[t].region
  <2>1. CASE entry[t].scheduled
    <3>1. row = [entry[t] EXCEPT !.region = IF entry[t].region = NoValue THEN region ELSE entry[t].region]
      BY <1>2, <2>1 DEF Rescheduled
    <3> QED
      BY <1>1, <2>1, <3>1 DEF EntryRow
  <2>2. CASE ~entry[t].scheduled
    BY <1>1, <1>2, <2>2 DEF EntryRow
  <2> QED
    BY <2>1, <2>2
<1>4. entry' = [entry EXCEPT ![t] = row]
  BY <1>2 DEF Ensured
<1>5. entry' \in [PlayerTag -> EntryRow] /\ \A u \in PlayerTag : entry'[u] = IF u = t THEN row ELSE entry[u]
  BY <1>1, <1>3, <1>4
<1>6. EntriesTyped'
  BY <1>3, <1>5 DEF EntriesTyped, DiscoveryIInv
<1> QED
  BY <1>3, <1>5, <1>6

\* A step after which no player is less scheduled or observed than before.
LEMMA PromoterSteps ==
    ASSUME DiscoveryIInv, NEW x \in Promoter, NEW p \in Promotion,
           promoter' = [promoter EXCEPT ![x] = p], PromotionAgrees(p)',
           EntriesTyped', \A t \in PlayerTag : entry[t].scheduled => entry'[t].scheduled,
           UNCHANGED <<observed, refresh>>, promoted' \subseteq Observed, PromotedIsScheduled',
           promoterLock' \in Promoter \cup {NoValue}
    PROVE  DiscoveryIInv'
<1>1. promoter \in [Promoter -> Promotion] /\ \A y \in Promoter : PromotionAgrees(promoter[y])
  BY DEF DiscoveryIInv, PromotionsAgree
<1>2. /\ promoter' \in [Promoter -> Promotion]
      /\ \A y \in Promoter : promoter'[y] = IF y = x THEN p ELSE promoter[y]
  BY <1>1
<1>3. Observed' = Observed
  BY DEF Observed
<1>4. ASSUME NEW q \in Promotion, PromotionAgrees(q) PROVE PromotionAgrees(q)'
  <2>1. q.batch # {} => (CHOOSE t \in q.batch : TRUE) \in PlayerTag
    BY DEF Promotion
  <2> QED
    BY <1>3, <1>4, <2>1 DEF PromotionAgrees
<1>5. PromotionsAgree'
  <2>1. ASSUME NEW y \in Promoter PROVE PromotionAgrees(promoter[y])'
    <3>1. PICK q \in Promotion : q = promoter[y]
      BY <1>1
    <3>2. PromotionAgrees(q)'
      BY <1>1, <1>4, <3>1
    <3> QED
      BY <1>2, <3>1, <3>2 DEF PromotionAgrees
  <2> QED
    BY <1>2, <2>1 DEF PromotionsAgree
<1>6. ObservedTyped'
  BY <1>3 DEF DiscoveryIInv, ObservedTyped
<1> QED
  BY <1>5, <1>6 DEF DiscoveryIInv

\* A request that rests, or waits for the lock.
LEMMA PromoterRests ==
    ASSUME DiscoveryIInv, NEW x \in Promoter, NEW p \in Promotion,
           promoter' = [promoter EXCEPT ![x] = p], p.at \in {"idle", "down", "lock"},
           p.batch = {} \/ p.batch = promoter[x].batch,
           UNCHANGED <<observed, promoted, entry, refresh>>,
           promoterLock' \in {promoterLock, NoValue}
    PROVE  DiscoveryIInv'
<1>1. Observed' = Observed /\ promoted \subseteq Observed /\ PromotionAgrees(promoter[x])
  BY DEF Observed, DiscoveryIInv, ObservedTyped, PromotionsAgree
<1>2. PromotionAgrees(p)'
  BY SMTT(30), <1>1, FS_EmptySet, DiscoveryAssumption DEF PromotionAgrees
<1>3. EntriesTyped' /\ PromotedIsScheduled' /\ promoterLock' \in Promoter \cup {NoValue}
  BY DEF DiscoveryIInv, EntriesTyped, PromotedIsScheduled
<1> QED
  BY <1>1, <1>2, <1>3, PromoterSteps

LEMMA PromoterKeeps ==
    ASSUME DiscoveryIInv, NEW x \in Promoter,
           StartPromotion(x) \/ PromoterStep(x) \/ PromotionFails(x) \/ PromoterDies(x)
    PROVE  DiscoveryIInv'
<1>0. /\ promoter[x] \in Promotion /\ PromotionAgrees(promoter[x]) /\ ObservedTyped
      /\ Observed \subseteq PlayerTag /\ promoterLock \in Promoter \cup {NoValue}
  <2>1. ObservedTyped /\ observed \in Seq(ObservedRow)
    BY DEF DiscoveryIInv, ObservedTyped
  <2>2. \A i \in 1..Len(observed) : observed[i].tag \in PlayerTag
    <3>1. \A i \in 1..Len(observed) : observed[i] \in ObservedRow
      BY <2>1, PlaceHasRow
    <3> QED
      BY <3>1 DEF ObservedRow
  <2> QED
    BY <2>1, <2>2 DEF DiscoveryIInv, PromotionsAgree, Observed
<1>1. CASE StartPromotion(x)
  <2>1. PICK p : p = [promoter[x] EXCEPT !.at = "lock"]
    OBVIOUS
  <2>2. p \in Promotion /\ p.at = "lock" /\ p.batch = promoter[x].batch
    BY <1>0, <2>1 DEF Promotion
  <2>3. promoter' = [promoter EXCEPT ![x] = p] /\ UNCHANGED <<observed, promoted, entry, refresh, promoterLock>>
    BY <1>1, <2>1 DEF StartPromotion, PromoterGoes
  <2> QED
    BY <2>2, <2>3, PromoterRests
<1>2. CASE LockAndSelect(x)
  <2>1. UNCHANGED <<observed, promoted, entry, refresh>>
    BY <1>2 DEF LockAndSelect
  <2>2. CASE promoterLock # NoValue
    <3>1. PICK p : p = [promoter[x] EXCEPT !.at = "idle"]
      OBVIOUS
    <3>2. p \in Promotion /\ p.at = "idle" /\ p.batch = promoter[x].batch
      BY <1>0, <3>1 DEF Promotion
    <3>3. promoter' = [promoter EXCEPT ![x] = p] /\ promoterLock' = promoterLock
      BY <1>2, <2>2, <3>1 DEF LockAndSelect, PromoterGoes
    <3> QED
      BY <2>1, <3>2, <3>3, PromoterRests
  <2>3. CASE promoterLock = NoValue
    <3>1. PICK batch : batch = SelectPromotionBatch(OldestUnpromoted)
      OBVIOUS
    <3>2. batch \in SUBSET Observed /\ IsFiniteSet(batch) /\ Cardinality(batch) <= PromotionBatch
      <4>1. OldestUnpromoted \in SUBSET (1..Len(observed)) /\ observed \in Seq(ObservedRow)
        BY <1>0 DEF OldestUnpromoted, OldestFewOf, ObservedTyped
      <4> QED
        BY <3>1, <4>1, BatchIsSmall
    <3>3. PICK p : p = [at |-> IF batch = {} THEN "release" ELSE "promote", batch |-> batch]
      OBVIOUS
    <3>4. p \in Promotion /\ p.batch = batch /\ p.at = IF batch = {} THEN "release" ELSE "promote"
      BY <1>0, <3>2, <3>3 DEF Promotion
    <3>5. promoter' = [promoter EXCEPT ![x] = p] /\ promoterLock' = x
      BY <1>2, <2>3, <3>1, <3>3 DEF LockAndSelect
    <3>6. PromotionAgrees(p)'
      <4>1. Observed' = Observed
        BY <2>1 DEF Observed
      <4> QED
        BY <3>2, <3>4, <4>1 DEF PromotionAgrees
    <3>7. EntriesTyped' /\ PromotedIsScheduled' /\ promoted' \subseteq Observed
      BY <1>0, <2>1 DEF DiscoveryIInv, EntriesTyped, PromotedIsScheduled, ObservedTyped
    <3> QED
      BY <2>1, <3>4, <3>5, <3>6, <3>7, PromoterSteps
  <2> QED
    BY <2>2, <2>3
<1>3. ASSUME promoter[x].at \in {"promote", "mark"}
      PROVE  Chosen(x) \in promoter[x].batch /\ Chosen(x) \in Observed /\ Chosen(x) \in PlayerTag
  <2>1. promoter[x].batch # {} /\ promoter[x].batch \subseteq Observed
    BY <1>0, <1>3 DEF PromotionAgrees
  <2> QED
    BY <1>0, <2>1 DEF Chosen
<1>4. CASE SchedulePlayer(x)
  <2>1. promoter[x].at = "promote" /\ UNCHANGED <<observed, promoted, promoterLock, refresh>>
    BY <1>4 DEF SchedulePlayer
  <2>2. PICK t \in PlayerTag : t = Chosen(x)
    BY <1>3, <2>1
  <2>3. PICK source \in {"battle", "club_member", "seed"} : entry' = Ensured(t, source, NoValue)
    <3>1. Coarse(SourceOf(t)) \in {"battle", "club_member", "seed"}
      BY DEF Coarse
    <3> QED
      BY <1>4, <2>2, <3>1 DEF SchedulePlayer
  <2>4. /\ EntriesTyped' /\ entry'[t].scheduled
        /\ \A u \in PlayerTag : entry[u].scheduled => entry'[u].scheduled
    BY <2>3, ScheduleKeeps
  <2>5. PICK p : p = [promoter[x] EXCEPT !.at = "mark"]
    OBVIOUS
  <2>6. p \in Promotion /\ p.at = "mark" /\ p.batch = promoter[x].batch
    BY <1>0, <2>5 DEF Promotion
  <2>7. PromotionAgrees(p)'
    <3>1. Observed' = Observed
      BY <2>1 DEF Observed
    <3>2. t = CHOOSE u \in p.batch : TRUE
      BY <2>2, <2>6 DEF Chosen
    <3> QED
      BY <1>0, <2>1, <2>4, <2>6, <3>1, <3>2 DEF PromotionAgrees
  <2>8. promoted' \subseteq Observed /\ PromotedIsScheduled'
    BY <1>0, <2>1, <2>4 DEF DiscoveryIInv, ObservedTyped, PromotedIsScheduled
  <2>9. promoter' = [promoter EXCEPT ![x] = p]
    BY <1>4, <2>5 DEF SchedulePlayer, PromoterGoes
  <2> QED
    BY <1>0, <2>1, <2>4, <2>6, <2>7, <2>8, <2>9, PromoterSteps
<1>5. CASE MarkPromoted(x)
  <2>1. /\ promoter[x].at = "mark" /\ UNCHANGED <<observed, entry, promoterLock, refresh>>
        /\ promoted' = promoted \cup {Chosen(x)}
    BY <1>5 DEF MarkPromoted
  <2>2. entry[Chosen(x)].scheduled
    BY <1>0, <2>1 DEF PromotionAgrees, Chosen
  <2>3. PICK left : left = promoter[x].batch \ {Chosen(x)}
    OBVIOUS
  <2>4. PICK p : p = [promoter[x] EXCEPT !.batch = left, !.at = IF left = {} THEN "release" ELSE "promote"]
    OBVIOUS
  <2>5. p \in Promotion /\ p.batch = left /\ p.at = IF left = {} THEN "release" ELSE "promote"
    BY <1>0, <2>3, <2>4 DEF Promotion
  <2>6. IsFiniteSet(left) /\ Cardinality(left) <= PromotionBatch
    <3>1. left \in SUBSET promoter[x].batch /\ IsFiniteSet(promoter[x].batch)
      BY <1>0, <2>3 DEF PromotionAgrees
    <3>2. Cardinality(left) <= Cardinality(promoter[x].batch) /\ IsFiniteSet(left)
      BY <3>1, FS_Subset
    <3>3. Cardinality(left) \in Nat /\ Cardinality(promoter[x].batch) \in Nat
      BY <3>1, <3>2, FS_CardinalityType
    <3>4. Cardinality(promoter[x].batch) <= PromotionBatch /\ PromotionBatch \in Nat
      BY <1>0, DiscoveryAssumption DEF PromotionAgrees
    <3> QED
      BY <3>2, <3>3, <3>4
  <2>7. PromotionAgrees(p)'
    <3>1. Observed' = Observed
      BY <2>1 DEF Observed
    <3>2. left \subseteq Observed
      BY <1>0, <2>3 DEF PromotionAgrees
    <3> QED
      BY <2>5, <2>6, <3>1, <3>2 DEF PromotionAgrees
  <2>8. promoted' \subseteq Observed /\ PromotedIsScheduled' /\ EntriesTyped'
    BY <1>0, <1>3, <2>1, <2>2 DEF DiscoveryIInv, ObservedTyped, PromotedIsScheduled, EntriesTyped
  <2>9. promoter' = [promoter EXCEPT ![x] = p]
    BY <1>5, <2>3, <2>4 DEF MarkPromoted
  <2> QED
    BY <1>0, <2>1, <2>5, <2>7, <2>8, <2>9, PromoterSteps
<1>6. CASE EndPromotion(x) \/ PromotionFails(x) \/ PromoterDies(x)
  <2>1. PICK p : promoter' = [promoter EXCEPT ![x] = p] /\ p \in {NoPromotion, FailedPromotion}
    BY <1>6 DEF EndPromotion, PromotionFails, PromoterDies
  <2>2. p \in Promotion /\ p.at \in {"idle", "down"} /\ p.batch = {}
    BY <2>1 DEF NoPromotion, FailedPromotion, Promotion
  <2>3. UNCHANGED <<observed, promoted, entry, refresh>> /\ promoterLock' \in {promoterLock, NoValue}
    BY <1>6 DEF EndPromotion, PromotionFails, PromoterDies, FreePromoterLock
  <2> QED
    BY <2>1, <2>2, <2>3, PromoterRests
<1> QED
  BY <1>1, <1>2, <1>4, <1>5, <1>6 DEF PromoterStep

\* A player is observed for the first time.
LEMMA ObserveKeeps ==
    ASSUME DiscoveryIInv, NEW t \in PlayerTag, NEW source \in ObservedIn, RecordObserved(t, source)
    PROVE  DiscoveryIInv'
<1>1. PICK row : row = [tag |-> t, source |-> source]
  OBVIOUS
<1>2. row \in ObservedRow /\ row.tag = t
  BY <1>1 DEF ObservedRow
<1>3. observed' = Append(observed, row) /\ t \notin Observed /\ UNCHANGED <<promoted, entry, promoterLock, promoter, refresh>>
  BY <1>1 DEF RecordObserved
<1>4. observed \in Seq(ObservedRow) /\ Len(observed) = Cardinality(Observed) /\ promoted \subseteq Observed
  BY DEF DiscoveryIInv, ObservedTyped
<1>5. /\ observed' \in Seq(ObservedRow) /\ Len(observed') = Len(observed) + 1
      /\ \A i \in 1..Len(observed) : observed'[i] = observed[i]
      /\ observed'[Len(observed) + 1] = row
  BY <1>2, <1>3, <1>4
<1>6. Observed' = Observed \cup {t}
  <2>1. Len(observed) \in Nat
    BY <1>4
  <2>2. \A i : i \in 1..Len(observed') <=> i \in 1..Len(observed) \/ i = Len(observed) + 1
    BY <1>5, <2>1
  <2>3. Observed' = {observed'[i].tag : i \in 1..Len(observed')}
    BY DEF Observed
  <2>4. ASSUME NEW u PROVE u \in Observed' <=> u \in Observed \/ u = t
    <3>1. u \in Observed' <=> \E i \in 1..Len(observed') : observed'[i].tag = u
      BY <2>3
    <3>2. u \in Observed <=> \E i \in 1..Len(observed) : observed[i].tag = u
      BY DEF Observed
    <3> QED
      BY <1>2, <1>5, <2>2, <3>1, <3>2
  <2> QED
    BY <2>4
<1>7. ObservedTyped'
  <2>1. IsFiniteSet(Observed)
    <3>1. \A i \in 1..Len(observed) : observed[i] \in ObservedRow
      BY <1>4, PlaceHasRow
    <3>2. Observed \in SUBSET PlayerTag
      BY <3>1 DEF Observed, ObservedRow
    <3>3. IsFiniteSet(PlayerTag)
      BY DiscoveryAssumption
    <3> QED
      BY <3>2, <3>3, FS_Subset
  <2>2. Cardinality(Observed \cup {t}) = Cardinality(Observed) + 1
    BY <1>3, <2>1, FS_AddElement
  <2>3. Len(observed') = Cardinality(Observed')
    BY <1>4, <1>5, <1>6, <2>2
  <2>4. promoted' \subseteq Observed'
    BY <1>3, <1>4, <1>6
  <2> QED
    BY <1>5, <2>3, <2>4 DEF ObservedTyped
<1>8. PromotionsAgree'
  BY <1>3, <1>6 DEF DiscoveryIInv, PromotionsAgree, PromotionAgrees
<1> QED
  BY <1>3, <1>7, <1>8 DEF DiscoveryIInv, EntriesTyped, PromotedIsScheduled

\* The rest of the system: a player is no longer crawled, the seed refresh, an
\* expired lock.
LEMMA OthersKeep ==
    ASSUME DiscoveryIInv, EntriesTyped',
           \A t \in PlayerTag : entry[t].scheduled => entry'[t].scheduled,
           UNCHANGED <<observed, promoted, promoter>>,
           promoterLock' \in {promoterLock, NoValue}, refresh' \subseteq Region
    PROVE  DiscoveryIInv'
<1>1. Observed' = Observed
  BY DEF Observed
<1>2. Observed \subseteq PlayerTag /\ promoted \subseteq Observed
  <2>1. observed \in Seq(ObservedRow) /\ promoted \subseteq Observed
    BY DEF DiscoveryIInv, ObservedTyped
  <2>2. \A i \in 1..Len(observed) : observed[i] \in ObservedRow
    BY <2>1, PlaceHasRow
  <2> QED
    BY <2>1, <2>2 DEF Observed, ObservedRow
<1>3. ASSUME NEW x \in Promoter PROVE PromotionAgrees(promoter[x])'
  <2>1. promoter[x] \in Promotion /\ PromotionAgrees(promoter[x])
    BY DEF DiscoveryIInv, PromotionsAgree
  <2>2. promoter[x].at = "mark" => (CHOOSE t \in promoter[x].batch : TRUE) \in PlayerTag
    BY <2>1 DEF PromotionAgrees, Promotion
  <2> QED
    BY <1>1, <2>1, <2>2 DEF PromotionAgrees
<1>4. PromotionsAgree'
  BY <1>3 DEF DiscoveryIInv, PromotionsAgree
<1> QED
  BY <1>1, <1>2, <1>4 DEF DiscoveryIInv, ObservedTyped, PromotedIsScheduled

LEMMA DiscoveryStepKeeps ==
    DiscoveryIInv /\ [DiscoveryNext]_discoveryVars => DiscoveryIInv'
<1> SUFFICES ASSUME DiscoveryIInv, [DiscoveryNext]_discoveryVars PROVE DiscoveryIInv'
  OBVIOUS
<1>0. EntriesTyped /\ refresh \subseteq Region /\ entry \in [PlayerTag -> EntryRow]
  BY DEF DiscoveryIInv, EntriesTyped
<1>1. ASSUME UNCHANGED <<observed, promoted, entry, promoter>>,
             promoterLock' \in {promoterLock, NoValue}, refresh' \subseteq Region
      PROVE  DiscoveryIInv'
  <2>1. EntriesTyped'
    BY <1>0, <1>1 DEF EntriesTyped
  <2> QED
    BY <1>1, <2>1, OthersKeep
<1>2. CASE UNCHANGED discoveryVars
  BY <1>0, <1>1, <1>2 DEF discoveryVars
<1>3. ASSUME NEW t \in PlayerTag, Deactivate(t) PROVE DiscoveryIInv'
  <2>1. PICK row : row = [entry[t] EXCEPT !.active = FALSE]
    OBVIOUS
  <2>2. row \in EntryRow /\ row.scheduled = entry[t].scheduled /\ row.region = entry[t].region
    BY <1>0, <2>1 DEF EntryRow
  <2>3. entry' = [entry EXCEPT ![t] = row] /\ UNCHANGED <<observed, promoted, promoterLock, promoter, refresh>>
    BY <1>3, <2>1 DEF Deactivate
  <2>4. entry' \in [PlayerTag -> EntryRow] /\ \A u \in PlayerTag : entry'[u] = IF u = t THEN row ELSE entry[u]
    BY <1>0, <2>2, <2>3
  <2>5. EntriesTyped' /\ \A u \in PlayerTag : entry[u].scheduled => entry'[u].scheduled
    BY <1>0, <2>2, <2>4 DEF EntriesTyped
  <2> QED
    BY <1>0, <2>3, <2>5, OthersKeep
<1>4. ASSUME NEW t \in PlayerTag, NEW source \in ObservedIn, RecordObserved(t, source) PROVE DiscoveryIInv'
  BY <1>4, ObserveKeeps
<1>5. ASSUME NEW x \in Promoter,
             StartPromotion(x) \/ PromoterStep(x) \/ PromotionFails(x) \/ PromoterDies(x)
      PROVE  DiscoveryIInv'
  BY <1>5, PromoterKeeps
<1>6. CASE PromoterLockExpires \/ StartRefresh \/ EndRegion \/ RefreshStops
  BY <1>0, <1>1, <1>6 DEF PromoterLockExpires, StartRefresh, EndRegion, RefreshStops
<1>7. ASSUME NEW t \in PlayerTag, SeedPlayer(t) PROVE DiscoveryIInv'
  <2>1. AnyRegion \in Region /\ UNCHANGED <<observed, promoted, promoterLock, promoter, refresh>>
    BY <1>0, <1>7 DEF SeedPlayer, AnyRegion
  <2>2. entry' = Ensured(t, "seed", AnyRegion)
    BY <1>7 DEF SeedPlayer
  <2>3. EntriesTyped' /\ \A u \in PlayerTag : entry[u].scheduled => entry'[u].scheduled
    BY <2>1, <2>2, ScheduleKeeps
  <2> QED
    BY <1>0, <2>1, <2>3, OthersKeep
<1> QED
  BY <1>2, <1>3, <1>4, <1>5, <1>6, <1>7 DEF DiscoveryNext

LEMMA DiscoveryAlways == DiscoverySpec => []DiscoveryIInv
BY InitDiscovery, DiscoveryStepKeeps, PTL DEF DiscoverySpec

\* A player that is marked as promoted is in the schedule, wherever promotions are
\* cut short and whoever else schedules (DiscoveryInv); a batch never has more
\* players than it may.
THEOREM PromotedStayScheduled == DiscoverySpec => []DiscoveryInv
BY DiscoveryAlways, DiscoveryIInvImplies, PTL

\* No step reassigns a scheduled player to another source or region.
LEMMA StratumStep ==
    ASSUME DiscoveryIInv, [DiscoveryNext]_discoveryVars
    PROVE  \A t \in PlayerTag :
              /\ entry[t].scheduled => entry'[t].source = entry[t].source
              /\ entry[t].region # NoValue => entry'[t].region = entry[t].region
<1>1. CASE UNCHANGED entry
  BY <1>1
<1>2. ASSUME NEW t \in PlayerTag, Deactivate(t)
      PROVE  \A u \in PlayerTag : entry'[u].source = entry[u].source /\ entry'[u].region = entry[u].region
  <2>1. entry \in [PlayerTag -> EntryRow] /\ entry' = [entry EXCEPT ![t].active = FALSE]
    BY <1>2 DEF DiscoveryIInv, EntriesTyped, Deactivate
  <2> QED
    BY <2>1 DEF EntryRow
<1>3. ASSUME NEW t \in PlayerTag, SeedPlayer(t)
      PROVE  \A u \in PlayerTag :
              /\ entry[u].scheduled => entry'[u].source = entry[u].source
              /\ entry[u].region # NoValue => entry'[u].region = entry[u].region
  <2>1. AnyRegion \in Region /\ entry' = Ensured(t, "seed", AnyRegion)
    BY <1>3 DEF SeedPlayer, AnyRegion, DiscoveryIInv
  <2> QED
    BY <2>1, ScheduleKeeps
<1>4. ASSUME NEW x \in Promoter, SchedulePlayer(x)
      PROVE  \A u \in PlayerTag :
              /\ entry[u].scheduled => entry'[u].source = entry[u].source
              /\ entry[u].region # NoValue => entry'[u].region = entry[u].region
  <2>1. Chosen(x) \in PlayerTag
    <3>1. promoter[x] \in Promotion /\ PromotionAgrees(promoter[x])
      BY DEF DiscoveryIInv, PromotionsAgree
    <3> QED
      BY <1>4, <3>1 DEF PromotionAgrees, Promotion, SchedulePlayer, Chosen
  <2>2. Coarse(SourceOf(Chosen(x))) \in {"battle", "club_member", "seed"}
    BY DEF Coarse
  <2>3. entry' = Ensured(Chosen(x), Coarse(SourceOf(Chosen(x))), NoValue)
    BY <1>4 DEF SchedulePlayer
  <2> QED
    BY <2>1, <2>2, <2>3, ScheduleKeeps
<1>5. \/ UNCHANGED entry \/ (\E t \in PlayerTag : Deactivate(t) \/ SeedPlayer(t))
      \/ \E x \in Promoter : SchedulePlayer(x)
  BY DEF DiscoveryNext, discoveryVars, RecordObserved, StartPromotion, PromoterStep, LockAndSelect,
         MarkPromoted, EndPromotion, PromotionFails, PromoterDies, PromoterLockExpires,
         StartRefresh, EndRegion, RefreshStops
<1> QED
  BY <1>1, <1>2, <1>3, <1>4, <1>5

\* "A player is never silently reassigned to a different stratum" (StratumSticks):
\* not by a promotion, a seed refresh, a crawl or whatever comes in between.
THEOREM NobodyIsReassigned == DiscoverySpec => StratumSticks
<1>1. DiscoveryIInv /\ [DiscoveryNext]_discoveryVars =>
        [\A t \in PlayerTag :
          /\ entry[t].scheduled => entry'[t].source = entry[t].source
          /\ entry[t].region # NoValue => entry'[t].region = entry[t].region]_discoveryVars
  BY StratumStep
<1> QED
  BY <1>1, DiscoveryAlways, PTL DEF DiscoverySpec, StratumSticks

-----------------------------------------------------------------------------
(* Families: an archive has every row that a deletion of its anchors can take, *)
(* but for those that came after it.                                        *)

ArchiveOf == [family : DOMAIN Families, anchors : SUBSET Row, proved : BOOLEAN, rows : SUBSET Row]
TablesOf(f) == ChildrenOf(f) \cup {Families[f].anchor}
AnyTable == UNION {TablesOf(f) : f \in DOMAIN Families}
OperationOf == [at : {"idle", "down", "done", "archived", "proved", "deleting"},
                family : DOMAIN Families \cup {""}, anchors : SUBSET Row, left : Seq(AnyTable)]

\* What an archive holds, and that nothing proves or replaces another's.
Holding(a) ==
    /\ a.anchors \subseteq a.rows /\ a.anchors # {}
    /\ \A s \in rows, r \in a.anchors :
          Table[s] \in ChildrenOf(a.family) /\ <<s, r>> \in Refs => s \in a.rows \cup late
ArchivesHold ==
    /\ archives \subseteq ArchiveOf
    /\ \A a \in archives : Holding(a)
    /\ \A a, b \in archives : a.family = b.family /\ a.anchors = b.anchors => a = b

\* A deletion has a proved archive, and takes tables of its family.
DeletionProved ==
    op.at = "deleting" => /\ \E a \in archives : ThatOf(a) /\ a.proved
                          /\ op.left \in Seq(TablesOf(op.family))

RowsTyped ==
    /\ now \in 0..MaxNow /\ coming \in Seq(SUBSET Row) /\ arrived \in 0..Len(coming)
    /\ rows \subseteq Row /\ open \subseteq Row /\ late \subseteq Row

FamiliesIInv ==
    RowsTyped /\ op \in OperationOf /\ ArchivesHold /\ DeletionProved /\ EvidenceKept

LEMMA FamiliesIInvImplies == FamiliesIInv => FamiliesInv
<1> SUFFICES ASSUME FamiliesIInv PROVE FamiliesInv
  OBVIOUS
<1>1. op.at \in {"idle", "down", "done", "archived", "proved", "deleting"}
  BY DEF FamiliesIInv, OperationOf
<1>2. \A a \in archives : a.anchors \subseteq a.rows /\ a.anchors # {}
  BY DEF FamiliesIInv, ArchivesHold, Holding
<1>3. FamiliesTypeOK
  BY <1>1, <1>2 DEF FamiliesIInv, RowsTyped, ArchivesHold, FamiliesTypeOK
<1> QED
  BY <1>3 DEF FamiliesIInv, FamiliesInv

\* The tables of the children are at most three,
LEMMA ShortSeq ==
    ASSUME NEW s, s = <<>> \/ (\E a : s = <<a>>) \/ \E a, b, c : s = <<a, b, c>>
    PROVE  s \in Seq({s[i] : i \in DOMAIN s})
<1>1. CASE s = <<>>
  BY <1>1
<1>2. ASSUME NEW a, s = <<a>>
      PROVE  s \in Seq({s[i] : i \in DOMAIN s})
  <2>1. DOMAIN s = 1..1 /\ s[1] = a
    BY <1>2
  <2>2. a \in {s[i] : i \in DOMAIN s}
    BY <2>1
  <2>3. ASSUME NEW S, a \in S PROVE <<a>> \in Seq(S)
    BY <2>3
  <2> QED
    BY <1>2, <2>2, <2>3
<1>3. ASSUME NEW a, NEW b, NEW c, s = <<a, b, c>>
      PROVE  s \in Seq({s[i] : i \in DOMAIN s})
  <2>1. DOMAIN s = 1..3 /\ s[1] = a /\ s[2] = b /\ s[3] = c
    BY <1>3
  <2>2. {a, b, c} \subseteq {s[i] : i \in DOMAIN s}
    BY <2>1
  <2>3. ASSUME NEW S, {a, b, c} \subseteq S PROVE <<a, b, c>> \in Seq(S)
    BY <2>3
  <2> QED
    BY <1>3, <2>2, <2>3
<1> QED
  BY <1>1, <1>2, <1>3

LEMMA FamilyTables ==
    ASSUME NEW f \in DOMAIN Families
    PROVE  Families[f].children \in Seq(ChildrenOf(f))
<1>1. f \in {"battle_graph", "battle_observations", "workflow_audit", "fetch_audit", "observed_players",
             "crawl_batches", "detected_changes", "data_incidents", "normalized_snapshots", "player_name_history"}
  BY DEF Families
<1>2. ASSUME \/ Families[f].children = <<>> \/ (\E a : Families[f].children = <<a>>)
             \/ \E a, b, c : Families[f].children = <<a, b, c>>
      PROVE  Families[f].children \in Seq(ChildrenOf(f))
  BY <1>2, ShortSeq DEF ChildrenOf
<1>3. CASE f = "battle_graph"
  <2>1. Families[f] = Family("battle", 2, <<"participant", "team", "observation">>)
    BY <1>3 DEF Families
  <2>2. Families[f].children = <<"participant", "team", "observation">>
    BY <2>1 DEF Family
  <2> QED
    BY <1>2, <2>2
<1>4. CASE f = "workflow_audit"
  <2>1. Families[f] = Family("workflow_run", 2, <<"workflow_step">>)
    BY <1>4 DEF Families
  <2>2. Families[f].children = <<"workflow_step">>
    BY <2>1 DEF Family
  <2> QED
    BY <1>2, <2>2
<1>5. CASE f = "battle_observations"
  <2>1. Families[f] = Family("observation", 1, <<>>)
    BY <1>5 DEF Families
  <2>2. Families[f].children = <<>>
    BY <2>1 DEF Family
  <2> QED
    BY <1>2, <2>2
<1>6. CASE f = "fetch_audit"
  <2>1. Families[f] = Family("fetch_run", 2, <<>>)
    BY <1>6 DEF Families
  <2>2. Families[f].children = <<>>
    BY <2>1 DEF Family
  <2> QED
    BY <1>2, <2>2
<1>7. CASE f = "observed_players"
  <2>1. Families[f] = Family("observed_player", 1, <<>>)
    BY <1>7 DEF Families
  <2>2. Families[f].children = <<>>
    BY <2>1 DEF Family
  <2> QED
    BY <1>2, <2>2
<1>8. CASE f = "crawl_batches"
  <2>1. Families[f] = Family("crawl_batch", 1, <<>>)
    BY <1>8 DEF Families
  <2>2. Families[f].children = <<>>
    BY <2>1 DEF Family
  <2> QED
    BY <1>2, <2>2
<1>9. CASE f = "detected_changes"
  <2>1. Families[f] = Family("detected_change", 2, <<>>)
    BY <1>9 DEF Families
  <2>2. Families[f].children = <<>>
    BY <2>1 DEF Family
  <2> QED
    BY <1>2, <2>2
<1>10. CASE f = "data_incidents"
  <2>1. Families[f] = Family("incident", 2, <<>>)
    BY <1>10 DEF Families
  <2>2. Families[f].children = <<>>
    BY <2>1 DEF Family
  <2> QED
    BY <1>2, <2>2
<1>11. CASE f = "normalized_snapshots"
  <2>1. Families[f] = Family("snapshot", 2, <<>>)
    BY <1>11 DEF Families
  <2>2. Families[f].children = <<>>
    BY <2>1 DEF Family
  <2> QED
    BY <1>2, <2>2
<1>12. CASE f = "player_name_history"
  <2>1. Families[f] = Family("name", 2, <<>>)
    BY <1>12 DEF Families
  <2>2. Families[f].children = <<>>
    BY <2>1 DEF Family
  <2> QED
    BY <1>2, <2>2
<1> QED
  BY <1>1, <1>3, <1>4, <1>5, <1>6, <1>7, <1>8, <1>9, <1>10, <1>11, <1>12

LEMMA LargerSeq ==
    ASSUME NEW S, NEW T, S \subseteq T, NEW s \in Seq(S), NEW x \in T
    PROVE  s \in Seq(T) /\ Append(s, x) \in Seq(T)
<1>1. Len(s) \in Nat /\ s = [i \in 1..Len(s) |-> s[i]] /\ \A i \in 1..Len(s) : s[i] \in T
  OBVIOUS
<1>2. s \in Seq(T)
  BY <1>1
<1> QED
  BY <1>2

LEMMA TailOfSeq ==
    ASSUME NEW T, NEW s \in Seq(T), s # <<>>
    PROVE  Tail(s) \in Seq(T)
OBVIOUS

\* and are deleted in their order before the anchors.
LEMMA DeletionOrder ==
    ASSUME NEW f \in DOMAIN Families
    PROVE  /\ Append(Families[f].children, Families[f].anchor) \in Seq(TablesOf(f))
           /\ Append(Families[f].children, Families[f].anchor) \in Seq(AnyTable)
<1>1. ChildrenOf(f) \subseteq TablesOf(f) /\ Families[f].anchor \in TablesOf(f) /\ TablesOf(f) \subseteq AnyTable
  BY DEF TablesOf, AnyTable
<1> QED
  BY <1>1, FamilyTables, LargerSeq

LEMMA OperationRests ==
    ASSUME NEW at \in {"idle", "down", "done", "archived"}
    PROVE  NoOperation(at) \in OperationOf /\ NoOperation(at).at = at
BY DEF NoOperation, OperationOf

LEMMA OperationBegins ==
    ASSUME NEW at \in {"done", "archived"}, NEW f \in DOMAIN Families, NEW anchors \in SUBSET Row
    PROVE  /\ [NoOperation(at) EXCEPT !.family = f, !.anchors = anchors] \in OperationOf
           /\ [NoOperation(at) EXCEPT !.family = f, !.anchors = anchors].at = at
<1>1. PICK p \in OperationOf : p = NoOperation(at) /\ p.at = at
  BY OperationRests
<1>2. PICK names : names = DOMAIN Families \cup {""}
  OBVIOUS
<1>3. p \in [at : {"idle", "down", "done", "archived", "proved", "deleting"},
             family : names, anchors : SUBSET Row, left : Seq(AnyTable)] /\ f \in names
  BY <1>1, <1>2 DEF OperationOf
<1>4. /\ [p EXCEPT !.family = f, !.anchors = anchors] \in
            [at : {"idle", "down", "done", "archived", "proved", "deleting"},
             family : names, anchors : SUBSET Row, left : Seq(AnyTable)]
      /\ [p EXCEPT !.family = f, !.anchors = anchors].at = at
  BY <1>1, <1>3
<1> QED
  BY <1>1, <1>2, <1>4 DEF OperationOf

LEMMA InitFamilies == FamiliesInit => FamiliesIInv
<1> SUFFICES ASSUME FamiliesInit PROVE FamiliesIInv
  OBVIOUS
<1>1. RowsTyped
  <2>1. coming \in Seq(SUBSET Row)
    BY FamiliesAssumption DEF FamiliesInit
  <2>2. Len(coming) \in Nat
    BY <2>1
  <2>3. MaxNow \in Nat
    BY FamiliesAssumption
  <2> QED
    BY <2>1, <2>2, <2>3 DEF FamiliesInit, RowsTyped
<1>2. op \in OperationOf /\ op.at = "idle"
  BY OperationRests DEF FamiliesInit
<1> QED
  BY <1>1, <1>2 DEF FamiliesInit, FamiliesIInv, ArchivesHold, DeletionProved, EvidenceKept

\* The archives stay, or are proved, and nothing new comes.
LEMMA OperationSteps ==
    ASSUME FamiliesIInv, op' \in OperationOf, DeletionProved',
           UNCHANGED <<now, coming, arrived, late>>, rows' \subseteq rows, open' \subseteq Row,
           archives' \subseteq ArchiveOf, \A a \in archives' : Holding(a),
           \A a, b \in archives' : a.family = b.family /\ a.anchors = b.anchors => a = b,
           \A a \in archives : a.proved => \E b \in archives' : b.proved /\ b.rows = a.rows,
           \A s \in rows \ rows' : s \in late \/ \E b \in archives' : b.proved /\ s \in b.rows
    PROVE  FamiliesIInv'
<1>1. RowsTyped'
  BY DEF FamiliesIInv, RowsTyped
<1>2. ArchivesHold'
  BY DEF ArchivesHold, Holding
<1>3. EvidenceKept'
  <2>1. ASSUME NEW i \in 1..arrived, NEW r \in coming[i]
        PROVE  r \in rows' \cup late \/ \E a \in archives' : a.proved /\ r \in a.rows
    <3>1. r \in rows \cup late \/ \E a \in archives : a.proved /\ r \in a.rows
      BY DEF FamiliesIInv, EvidenceKept
    <3> QED
      BY <3>1
  <2> QED
    BY <2>1 DEF EvidenceKept
<1> QED
  BY <1>1, <1>2, <1>3 DEF FamiliesIInv

\* A step of an operation that touches no row, and no archive.
LEMMA OperationGoesOn ==
    ASSUME FamiliesIInv, op' \in OperationOf, DeletionProved',
           UNCHANGED <<now, coming, arrived, rows, open, late, archives>>
    PROVE  FamiliesIInv'
<1>1. RowsTyped'
  BY DEF FamiliesIInv, RowsTyped
<1>2. ArchivesHold'
  BY DEF FamiliesIInv, ArchivesHold, Holding
<1>3. EvidenceKept'
  BY DEF FamiliesIInv, EvidenceKept
<1> QED
  BY <1>1, <1>2, <1>3 DEF FamiliesIInv

\* Rows come, and with them children of what is archived already.
LEMMA ArriveKeeps == FamiliesIInv /\ Arrive => FamiliesIInv'
<1> SUFFICES ASSUME FamiliesIInv, Arrive PROVE FamiliesIInv'
  OBVIOUS
<1>0. RowsTyped /\ ArchivesHold /\ DeletionProved /\ EvidenceKept
  BY DEF FamiliesIInv
<1>1. arrived \in Nat /\ arrived + 1 \in 1..Len(coming) /\ coming[arrived + 1] \in SUBSET Row
  <2>1. coming \in Seq(SUBSET Row) /\ Len(coming) \in Nat /\ arrived \in 0..Len(coming) /\ arrived < Len(coming)
    BY <1>0 DEF RowsTyped, Arrive
  <2> QED
    BY <2>1
<1>2. PICK new \in SUBSET Row : new = coming[arrived + 1]
  BY <1>1
<1>3. /\ UNCHANGED <<now, coming, archives, op>> /\ arrived' = arrived + 1
      /\ rows' = rows \cup new /\ open' = open \cup (new \cap InUse) /\ late \subseteq late'
      /\ late' = late \cup {r \in new : \E a \in archives, s \in Row :
                        /\ <<r, s>> \in Refs /\ s \in a.anchors
                        /\ Table[r] \in ChildrenOf(a.family)}
  BY <1>2 DEF Arrive
<1>4. RowsTyped'
  <2>1. now' \in 0..MaxNow /\ coming' \in Seq(SUBSET Row) /\ arrived' \in 0..Len(coming')
    BY <1>0, <1>1, <1>3 DEF RowsTyped
  <2>2. rows' \subseteq Row /\ open' \subseteq Row /\ late' \subseteq Row
    BY <1>0, <1>3 DEF RowsTyped
  <2> QED
    BY <2>1, <2>2 DEF RowsTyped
<1>5. ASSUME NEW a \in archives PROVE Holding(a)'
  <2>1. Holding(a) /\ a.anchors \subseteq Row
    BY <1>0 DEF ArchivesHold, ArchiveOf
  <2>2. ASSUME NEW s \in rows', NEW r \in a.anchors, Table[s] \in ChildrenOf(a.family), <<s, r>> \in Refs
        PROVE  s \in a.rows \cup late'
    BY <1>3, <2>1, <2>2 DEF Holding
  <2> QED
    BY <2>1, <2>2 DEF Holding
<1>6. ArchivesHold' /\ DeletionProved'
  BY <1>0, <1>3, <1>5 DEF ArchivesHold, DeletionProved, ThatOf
<1>7. EvidenceKept'
  <2>1. ASSUME NEW i \in 1..arrived', NEW r \in coming[i]
        PROVE  r \in rows' \cup late' \/ \E a \in archives : a.proved /\ r \in a.rows
    <3>1. CASE i = arrived + 1
      BY <1>2, <1>3, <2>1, <3>1
    <3>2. CASE i # arrived + 1
      <4>1. i \in 1..arrived
        BY <1>1, <1>3, <2>1, <3>2
      <4> QED
        BY <1>0, <1>3, <2>1, <4>1 DEF EvidenceKept
    <3> QED
      BY <3>1, <3>2
  <2> QED
    BY <1>3, <2>1 DEF EvidenceKept
<1> QED
  BY <1>3, <1>4, <1>6, <1>7 DEF FamiliesIInv

\* Time passes, rows are closed and opened.
LEMMA TimeKeeps ==
    ASSUME FamiliesIInv, UNCHANGED <<coming, arrived, rows, late, archives, op>>,
           now' \in 0..MaxNow, open' \subseteq Row
    PROVE  FamiliesIInv'
BY DEF FamiliesIInv, RowsTyped, ArchivesHold, Holding, DeletionProved, ThatOf, EvidenceKept

LEMMA ArchiveKeeps ==
    ASSUME FamiliesIInv, NEW f \in DOMAIN Families, ArchiveBatch(f)
    PROVE  FamiliesIInv'
<1>0. RowsTyped /\ ArchivesHold
  BY DEF FamiliesIInv
<1>1. PICK batch : batch = FirstOf(Candidates(f))
  OBVIOUS
<1>2. batch \subseteq rows /\ batch \subseteq Row
  BY <1>0, <1>1 DEF FirstOf, Candidates, RowsTyped
<1>3. UNCHANGED <<now, coming, arrived, rows, since, open, late>>
  BY DEF ArchiveBatch
<1>4. op' \in OperationOf /\ op'.at # "deleting"
  <2>1. op' = [NoOperation(IF batch = {} THEN "done" ELSE "archived") EXCEPT !.family = f, !.anchors = batch]
    BY <1>1 DEF ArchiveBatch
  <2>2. batch \in SUBSET Row
    BY <1>2
  <2>3. PICK at \in {"done", "archived"} : at = IF batch = {} THEN "done" ELSE "archived"
    OBVIOUS
  <2>4. op' = [NoOperation(at) EXCEPT !.family = f, !.anchors = batch]
    BY <2>1, <2>3
  <2> QED
    BY <2>2, <2>4, OperationBegins
<1>5. DeletionProved'
  BY <1>4 DEF DeletionProved
<1>6. CASE archives' = archives
  BY <1>3, <1>4, <1>5, <1>6, OperationGoesOn
<1>7. CASE archives' # archives
  <2>1. PICK new : new = [family |-> f, anchors |-> batch, proved |-> FALSE, rows |-> Contents(f, batch)]
    OBVIOUS
  <2>2. /\ archives' = archives \cup {new} /\ batch # {}
        /\ \A a \in archives : ~(a.family = f /\ a.anchors = batch)
    BY <1>1, <1>7, <2>1 DEF ArchiveBatch
  <2>3. /\ new.family = f /\ new.anchors = batch /\ new.rows = Contents(f, batch)
        /\ Contents(f, batch) \in SUBSET Row
    BY <1>0, <1>2, <2>1 DEF Contents, RowsTyped
  <2>4. new \in ArchiveOf
    BY <1>2, <2>1, <2>3 DEF ArchiveOf
  <2>5. Holding(new)
    BY <2>2, <2>3 DEF Holding, Contents, RefersTo
  <2>6. archives' \subseteq ArchiveOf /\ \A a \in archives' : Holding(a)
    BY <1>0, <2>2, <2>4, <2>5 DEF ArchivesHold
  <2>7. \A a, b \in archives' : a.family = b.family /\ a.anchors = b.anchors => a = b
    BY <1>0, <2>2, <2>3 DEF ArchivesHold
  <2>8. \A a \in archives : a.proved => \E b \in archives' : b.proved /\ b.rows = a.rows
    BY <2>2
  <2>9. rows' \subseteq rows /\ rows \ rows' = {} /\ open' \subseteq Row
    BY <1>0, <1>3 DEF RowsTyped
  <2> QED
    BY <1>3, <1>4, <1>5, <2>6, <2>7, <2>8, <2>9, OperationSteps
<1> QED
  BY <1>6, <1>7

LEMMA ResumeKeeps ==
    ASSUME FamiliesIInv, NEW a \in archives, Resume(a)
    PROVE  FamiliesIInv'
<1>1. a \in ArchiveOf
  BY DEF FamiliesIInv, ArchivesHold
<1>2. op' \in OperationOf /\ op'.at = "archived"
  <2>1. op' = [NoOperation("archived") EXCEPT !.family = a.family, !.anchors = a.anchors]
    BY DEF Resume
  <2>2. a.family \in DOMAIN Families /\ a.anchors \in SUBSET Row
    BY <1>1 DEF ArchiveOf
  <2> QED
    BY <2>1, <2>2, OperationBegins
<1>3. DeletionProved' /\ UNCHANGED <<now, coming, arrived, rows, open, late, archives>>
  BY <1>2 DEF DeletionProved, Resume
<1> QED
  BY <1>2, <1>3, OperationGoesOn

LEMMA ProveKeeps ==
    ASSUME FamiliesIInv, Prove
    PROVE  FamiliesIInv'
<1>0. ArchivesHold /\ RowsTyped /\ op \in OperationOf
  BY DEF FamiliesIInv
<1>1. op' \in OperationOf /\ op'.at = "proved"
  <2>1. op' = [op EXCEPT !.at = "proved"]
    BY DEF Prove
  <2> QED
    BY <1>0, <2>1 DEF OperationOf
<1>2. PICK provedOf \in [archives -> ArchiveOf] : \A a \in archives :
          /\ provedOf[a].family = a.family /\ provedOf[a].anchors = a.anchors /\ provedOf[a].rows = a.rows
          /\ a.proved => provedOf[a].proved
          /\ provedOf[a] = IF ThatOf(a) THEN [a EXCEPT !.proved = TRUE] ELSE a
  <2>1. ASSUME NEW a \in archives, NEW b, b = IF ThatOf(a) THEN [a EXCEPT !.proved = TRUE] ELSE a
        PROVE  /\ b \in ArchiveOf /\ b.family = a.family /\ b.anchors = a.anchors /\ b.rows = a.rows
               /\ a.proved => b.proved
    <3>1. a \in ArchiveOf
      BY <1>0 DEF ArchivesHold
    <3> QED
      BY <2>1, <3>1 DEF ArchiveOf
  <2>2. PICK provedOf : provedOf = [a \in archives |-> IF ThatOf(a) THEN [a EXCEPT !.proved = TRUE] ELSE a]
    OBVIOUS
  <2>3. \A a \in archives : provedOf[a] = IF ThatOf(a) THEN [a EXCEPT !.proved = TRUE] ELSE a
    BY <2>2
  <2>4. \A a \in archives : /\ provedOf[a] \in ArchiveOf /\ provedOf[a].family = a.family
                            /\ provedOf[a].anchors = a.anchors /\ provedOf[a].rows = a.rows
                            /\ a.proved => provedOf[a].proved
    BY <2>1, <2>3
  <2>5. provedOf \in [archives -> ArchiveOf]
    BY <2>2, <2>4
  <2> QED
    BY <2>3, <2>4, <2>5
<1>3. archives' = {provedOf[a] : a \in archives}
  <2>1. archives' = {IF ThatOf(a) THEN [a EXCEPT !.proved = TRUE] ELSE a : a \in archives}
    BY DEF Prove
  <2>2. \A a \in archives : provedOf[a] = IF ThatOf(a) THEN [a EXCEPT !.proved = TRUE] ELSE a
    BY <1>2
  <2> QED
    BY <2>1, <2>2, Zenon
<1>4. UNCHANGED <<now, coming, arrived, rows, open, late>>
  BY DEF Prove
<1>5. archives' \subseteq ArchiveOf /\ \A b \in archives' : Holding(b)
  BY <1>0, <1>2, <1>3 DEF ArchivesHold, Holding
<1>6. \A a, b \in archives' : a.family = b.family /\ a.anchors = b.anchors => a = b
  BY <1>0, <1>2, <1>3 DEF ArchivesHold
<1>7. \A a \in archives : a.proved => \E b \in archives' : b.proved /\ b.rows = a.rows
  BY <1>2, <1>3
<1>8. DeletionProved' /\ rows' \subseteq rows /\ rows \ rows' = {} /\ open' \subseteq Row
  BY <1>0, <1>1, <1>4 DEF DeletionProved, RowsTyped
<1> QED
  BY <1>1, <1>4, <1>5, <1>6, <1>7, <1>8, OperationSteps

LEMMA StartDeleteKeeps ==
    ASSUME FamiliesIInv, StartDelete
    PROVE  FamiliesIInv'
<1>0. ArchivesHold /\ op \in OperationOf /\ UNCHANGED <<now, coming, arrived, rows, open, late, archives>>
  BY DEF FamiliesIInv, StartDelete
<1>1. CASE \E a \in archives : ThatOf(a) /\ Gate(a)
  <2>1. PICK a \in archives : ThatOf(a) /\ a.proved
    BY <1>1 DEF Gate
  <2>2. op.family \in DOMAIN Families
    BY <1>0, <2>1 DEF ArchivesHold, ArchiveOf, ThatOf
  <2>3. PICK left : left = Append(Families[op.family].children, Families[op.family].anchor)
    OBVIOUS
  <2>4. left \in Seq(TablesOf(op.family)) /\ left \in Seq(AnyTable)
    BY <2>2, <2>3, DeletionOrder
  <2>5. op' = [op EXCEPT !.at = "deleting", !.left = left]
    BY <1>1, <2>3 DEF StartDelete
  <2>6. op' \in OperationOf /\ op'.family = op.family /\ op'.anchors = op.anchors /\ op'.left = left
    BY <1>0, <2>4, <2>5 DEF OperationOf
  <2>7. DeletionProved'
    BY <1>0, <2>1, <2>4, <2>6 DEF DeletionProved, ThatOf
  <2> QED
    BY <1>0, <2>6, <2>7, OperationGoesOn
<1>2. CASE ~\E a \in archives : ThatOf(a) /\ Gate(a)
  <2>1. op' = NoOperation("done")
    BY <1>2 DEF StartDelete
  <2>2. op' \in OperationOf /\ DeletionProved'
    BY <2>1, OperationRests DEF DeletionProved
  <2> QED
    BY <1>0, <2>2, OperationGoesOn
<1> QED
  BY <1>1, <1>2

\* What a table of the family loses is in the archive, or came after it.
LEMMA DeleteKeeps ==
    ASSUME FamiliesIInv, DeleteTable
    PROVE  FamiliesIInv'
<1>0. /\ ArchivesHold /\ op \in OperationOf /\ RowsTyped /\ op.at = "deleting" /\ op.left # <<>>
      /\ UNCHANGED <<now, coming, arrived, since, late, archives>>
  BY DEF FamiliesIInv, DeleteTable
<1>1. PICK a \in archives : ThatOf(a) /\ a.proved /\ Holding(a)
  BY <1>0 DEF FamiliesIInv, DeletionProved, ArchivesHold
<1>2. op.left \in Seq(TablesOf(op.family)) /\ op.left \in Seq(AnyTable)
  BY <1>0 DEF FamiliesIInv, DeletionProved, OperationOf
<1>3. Head(op.left) \in TablesOf(op.family)
  BY <1>0, <1>2
<1>4. CASE Referenced
  <2>1. op' = NoOperation("done") /\ UNCHANGED <<rows, open>>
    BY <1>4 DEF DeleteTable
  <2>2. op' \in OperationOf /\ DeletionProved'
    BY <2>1, OperationRests DEF DeletionProved
  <2> QED
    BY <1>0, <2>1, <2>2, OperationGoesOn
<1>5. CASE ~Referenced
  <2>1. rows' = rows \ Due /\ open' = open \ Due /\ op' = [op EXCEPT !.left = Tail(op.left)]
    BY <1>5 DEF DeleteTable
  <2>2. PICK left : left = Tail(op.left)
    OBVIOUS
  <2>3. left \in Seq(TablesOf(op.family)) /\ left \in Seq(AnyTable)
    BY <1>0, <1>2, <2>2, TailOfSeq
  <2>4. op' = [op EXCEPT !.left = left]
    BY <2>1, <2>2
  <2>5. op' \in OperationOf /\ op'.family = op.family /\ op'.anchors = op.anchors /\ op'.left = left
    BY <1>0, <2>3, <2>4 DEF OperationOf
  <2>6. DeletionProved'
    BY <1>0, <1>1, <2>3, <2>5 DEF DeletionProved, ThatOf
  <2>7. ASSUME NEW s \in Due PROVE s \in a.rows \cup late
    <3>1. CASE Head(op.left) = Families[op.family].anchor
      BY <1>1, <2>7, <3>1 DEF Due, Holding, ThatOf
    <3>2. CASE Head(op.left) # Families[op.family].anchor
      <4>1. Head(op.left) \in ChildrenOf(op.family)
        BY <1>3, <3>2 DEF TablesOf
      <4>2. s \in rows /\ Table[s] = Head(op.left) /\ \E r \in op.anchors : <<s, r>> \in Refs
        BY <2>7, <3>2 DEF Due, RefersTo
      <4> QED
        BY <1>1, <4>1, <4>2 DEF Holding, ThatOf
    <3> QED
      BY <3>1, <3>2
  <2>8. rows' \subseteq rows /\ open' \subseteq Row
        /\ \A s \in rows \ rows' : s \in late \/ \E b \in archives' : b.proved /\ s \in b.rows
    <3>1. \A s \in rows \ rows' : s \in Due
      BY <2>1
    <3>2. archives' = archives
      BY <1>0
    <3>3. rows' \subseteq rows /\ open' \subseteq Row
      BY <1>0, <2>1 DEF RowsTyped
    <3> QED
      BY <1>1, <2>7, <3>1, <3>2, <3>3
  <2>9. archives' \subseteq ArchiveOf /\ (\A b \in archives' : Holding(b))
        /\ \A b, c \in archives' : b.family = c.family /\ b.anchors = c.anchors => b = c
    BY <1>0 DEF ArchivesHold
  <2>10. \A b \in archives : b.proved => \E c \in archives' : c.proved /\ c.rows = b.rows
    BY <1>0
  <2>11. UNCHANGED <<now, coming, arrived, late>>
    BY <1>0
  <2> QED
    BY <2>5, <2>6, <2>8, <2>9, <2>10, <2>11, OperationSteps
<1> QED
  BY <1>4, <1>5

LEMMA FamiliesStepKeeps ==
    FamiliesIInv /\ [FamiliesNext]_familyVars => FamiliesIInv'
<1> SUFFICES ASSUME FamiliesIInv, [FamiliesNext]_familyVars PROVE FamiliesIInv'
  OBVIOUS
<1>0. RowsTyped
  BY DEF FamiliesIInv
<1>1. CASE UNCHANGED familyVars
  <2>1. UNCHANGED <<now, coming, arrived, rows, open, late, archives, op>>
    BY <1>1 DEF familyVars
  <2> QED
    BY <1>0, <2>1, TimeKeeps DEF RowsTyped
<1>2. CASE Tick
  <2>1. now' \in 0..MaxNow
    BY <1>0, <1>2, FamiliesAssumption DEF Tick, RowsTyped
  <2>2. UNCHANGED <<coming, arrived, rows, open, late, archives, op>>
    BY <1>2 DEF Tick
  <2> QED
    BY <1>0, <2>1, <2>2, TimeKeeps DEF RowsTyped
<1>3. CASE Arrive
  BY <1>3, ArriveKeeps
<1>4. ASSUME NEW r \in Row, Close(r) \/ Reopen(r) PROVE FamiliesIInv'
  <2>1. UNCHANGED <<now, coming, arrived, rows, late, archives, op>> /\ open' \subseteq Row
    BY <1>0, <1>4 DEF Close, Reopen, RowsTyped
  <2> QED
    BY <1>0, <2>1, TimeKeeps DEF RowsTyped
<1>5. ASSUME NEW f \in DOMAIN Families, ArchiveBatch(f) PROVE FamiliesIInv'
  BY <1>5, ArchiveKeeps
<1>6. ASSUME NEW a \in archives, Resume(a) PROVE FamiliesIInv'
  BY <1>6, ResumeKeeps
<1>7. CASE EndOperation \/ OperationStops
  <2>1. UNCHANGED <<now, coming, arrived, rows, open, late, archives>>
    BY <1>7 DEF EndOperation, OperationStops
  <2>2. op' \in OperationOf /\ DeletionProved'
    BY <1>7, OperationRests DEF EndOperation, OperationStops, DeletionProved
  <2> QED
    BY <2>1, <2>2, OperationGoesOn
<1> QED
  BY <1>1, <1>2, <1>3, <1>4, <1>5, <1>6, <1>7, ProveKeeps, StartDeleteKeeps, DeleteKeeps
  DEF FamiliesNext, OperationStep

\* "No row is deleted before its batch archive" is proved (FamiliesInv), whichever
\* families take turns, however the rows refer to each other and wherever a
\* deletion stops.
THEOREM NoRowGoesUnarchived == FamiliesSpec => []FamiliesInv
<1>1. FamiliesSpec => []FamiliesIInv
  BY InitFamilies, FamiliesStepKeeps, PTL DEF FamiliesSpec
<1> QED
  BY <1>1, FamiliesIInvImplies, PTL
==============================================================================
