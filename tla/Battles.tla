------------------------------ MODULE Battles ------------------------------
(***************************************************************************)
(* From a battle log to rows (lib/ingestion: schemas, battleId, and            *)
(* processOneBattle of battleLogCrawlSync).                                  *)
(*                                                                         *)
(* A match is seen in the log of each of its fighters.  Its key is computed     *)
(* from what a log says, so that the match is stored once, whoever is          *)
(* crawled first.  All battles of a log go into one transaction; two logs      *)
(* with the same match can be in progress at once (Crawl says when), and the    *)
(* unique key of the later one throws its transaction away.  A transaction      *)
(* reads as of its first statement (REPEATABLE READ), and locks the rows of     *)
(* the game modes it updates.                                               *)
(***************************************************************************)
EXTENDS Integers, Sequences, FiniteSets

CONSTANTS
    Fighter,        \* players
    Crawled,        \* those in the crawl schedule from the start
    Match,          \* matches, numbered in the order in which they are fought
    Sides,          \* Sides[m]: the teams of m, sets of fighters
    Winner,         \* Winner[m]: the team that wins, or {} for a draw
    Mode,           \* Mode[m]: the game mode of m
    Solo,           \* matches without teams, each fighter for itself
    Plays,          \* Plays[m][f]: the brawler f plays in m
    NewBrawler,     \* brawlers the catalog does not know at first
    Garbled,        \* <<p, m, f>>: the log of p has no valid entry for f in m
    LogCrawler      \* slices of the crawl that are in progress at once

Fighters(m) == UNION Sides[m]

ASSUME BattlesAssumption ==
    /\ Match \subseteq Nat /\ IsFiniteSet(Match)
    /\ Crawled \subseteq Fighter
    /\ \A m \in Match :
        /\ Sides[m] \subseteq SUBSET Fighter /\ {} \notin Sides[m]
        /\ \A s, t \in Sides[m] : s = t \/ s \cap t = {}
        /\ Winner[m] \in Sides[m] \cup {{}}
        /\ m \in Solo => \A s \in Sides[m] : Cardinality(s) = 1

VARIABLES
    fought,         \* the matches so far
    battles,        \* committed rows of normalized_battles and battle_teams
    seenIn,         \* battle_observations: <<key, player>>
    players,        \* rows of normalized_players
    noted,          \* players noted for promotion (observed_players)
    unknown,        \* brawlers the catalog does not know
    log             \* the transaction of each crawler

battleVars == <<fought, battles, seenIn, players, noted, unknown, log>>

NoLog(at) == [at |-> at, of |-> {}, left |-> {}, view |-> {}, modes |-> {},
              rows |-> {}, seen |-> {}, stubs |-> {}, notes |-> {}]

BattlesInit ==
    /\ fought = {}
    /\ battles = {} /\ seenIn = {} /\ players = {} /\ noted = {}
    /\ unknown = NewBrawler
    /\ log = [x \in LogCrawler |-> NoLog("idle")]

-----------------------------------------------------------------------------
(* What a log says *)

\* validateBattleItem: participants without a valid entry are left out, and
\* then teams without participants.
Seen(p, m) == {{f \in side : <<p, m, f>> \notin Garbled} : side \in Sides[m]} \ {{}}

OwnResult(f, m) ==
    IF Winner[m] = {} THEN "draw" ELSE IF f \in Winner[m] THEN "victory" ELSE "defeat"

\* The result of the entry, which is that of the player whose log it is, for
\* every team; none in a match without teams.
ResultsIn(p, m) == [side \in Seen(p, m) |-> IF m \in Solo THEN "unknown" ELSE OwnResult(p, m)]

\* computeBattleKey: time and mode of the battle and its teams, without order.
BattleKey(p, m) == <<m, Mode[m], Seen(p, m)>>

HasUnknownBrawler(p, m) == \E f \in UNION Seen(p, m) : Plays[m][f] \in unknown

-----------------------------------------------------------------------------
Fight(m) ==
    /\ m \notin fought /\ \A n \in Match : n < m => n \in fought
    /\ fought' = fought \cup {m}
    /\ UNCHANGED <<battles, seenIn, players, noted, unknown, log>>

\* A catalog sync.
LearnBrawler(b) ==
    /\ b \in unknown
    /\ unknown' = unknown \ {b}
    /\ UNCHANGED <<fought, battles, seenIn, players, noted, log>>

\* The log of a player has arrived and its transaction begins.
Logged(p) == {m \in fought : p \in Fighters(m) /\ Seen(p, m) # {}}

BeginLog(x, p) ==
    /\ log[x].at \in {"idle", "down"}
    /\ log' = [log EXCEPT ![x] = [NoLog("in") EXCEPT !.of = {p}, !.left = Logged(p),
                                    !.view = {b.key : b \in battles}]]
    /\ UNCHANGED <<fought, battles, seenIn, players, noted, unknown>>

Newest(S) == CHOOSE m \in S : \A n \in S : n <= m
Item(x) == Newest(log[x].left)
Of(x) == CHOOSE p \in log[x].of : TRUE
ItemKey(x) == BattleKey(Of(x), Item(x))
AtItem(x) == log[x].at = "in" /\ log[x].left # {}

\* getBattleIdByKey, in the transaction.
Known(x) == ItemKey(x) \in log[x].view \cup {b.key : b \in log[x].rows}

\* The battle is there: one more observation of it.
Deduplicate(x) ==
    /\ AtItem(x) /\ Known(x)
    /\ log' = [log EXCEPT ![x].left = @ \ {Item(x)}, ![x].seen = @ \cup {<<ItemKey(x), Of(x)>>}]
    /\ UNCHANGED <<fought, battles, seenIn, players, noted, unknown>>

\* getOrCreateGameMode updates or inserts the row of the mode.
ModeLocked(x) == \E y \in LogCrawler \ {x} : Mode[Item(x)] \in log[y].modes

\* MUTANT: the rest of the log is given up.
QuarantineAll(x) ==
    /\ AtItem(x) /\ ~Known(x) /\ ~ModeLocked(x)
    /\ HasUnknownBrawler(Of(x), Item(x))
    /\ log' = [log EXCEPT ![x].left = {}, ![x].modes = @ \cup {Mode[Item(x)]}]
    /\ UNCHANGED <<fought, battles, seenIn, players, noted, unknown>>

\* A brawler is unknown: the battle is left out, with an incident, but its
\* fighters with a known one have their stubs.
Quarantine(x) ==
    LET p == Of(x)  m == Item(x)
        stubs == {f \in UNION Seen(p, m) : Plays[m][f] \notin unknown}
    IN  /\ AtItem(x) /\ ~Known(x) /\ ~ModeLocked(x)
        /\ HasUnknownBrawler(p, m)
        /\ log' = [log EXCEPT ![x].left = @ \ {m}, ![x].modes = @ \cup {Mode[m]},
                              ![x].stubs = @ \cup stubs]
        /\ UNCHANGED <<fought, battles, seenIn, players, noted, unknown>>

\* MUTANT: only the fighters of the other teams are noted.
NotedOpponents(p, m) == UNION {side \in Seen(p, m) : p \notin side}

\* recordObservedPlayer, of everybody but the player whose log it is.
NotedBy(p, m) == (UNION Seen(p, m)) \ {p}

\* The UNIQUE key is free.
CanInsert(x) == ItemKey(x) \notin {b.key : b \in battles}

InsertBattle(x) ==
    LET p == Of(x)  m == Item(x)
    IN  /\ AtItem(x) /\ ~Known(x) /\ ~ModeLocked(x)
        /\ ~HasUnknownBrawler(p, m)
        /\ CanInsert(x)
        /\ log' = [log EXCEPT ![x].left = @ \ {m}, ![x].modes = @ \cup {Mode[m]},
                              ![x].rows = @ \cup {[key |-> ItemKey(x), match |-> m, result |-> ResultsIn(p, m)]},
                              ![x].stubs = @ \cup UNION Seen(p, m),
                              ![x].notes = @ \cup NotedBy(p, m),
                              ![x].seen = @ \cup {<<ItemKey(x), p>>}]
        /\ UNCHANGED <<fought, battles, seenIn, players, noted, unknown>>

\* Another transaction has inserted the battle since this one began: everything
\* of this log is rolled back.
InsertRejected(x) ==
    /\ AtItem(x) /\ ~Known(x) /\ ~ModeLocked(x)
    /\ ~HasUnknownBrawler(Of(x), Item(x)) /\ ~CanInsert(x)
    /\ log' = [log EXCEPT ![x] = NoLog("idle")]
    /\ UNCHANGED <<fought, battles, seenIn, players, noted, unknown>>

\* x waits for a mode that y has locked, and y for one of x.
WaitsFor(x, y) == AtItem(x) /\ ~Known(x) /\ Mode[Item(x)] \in log[y].modes

Deadlocked(x) ==
    /\ \E y \in LogCrawler \ {x} : WaitsFor(x, y) /\ WaitsFor(y, x)
    /\ log' = [log EXCEPT ![x] = NoLog("idle")]
    /\ UNCHANGED <<fought, battles, seenIn, players, noted, unknown>>

CommitLog(x) ==
    /\ log[x].at = "in" /\ log[x].left = {}
    /\ battles' = battles \cup log[x].rows
    /\ seenIn' = seenIn \cup log[x].seen
    /\ players' = players \cup log[x].stubs
    /\ noted' = noted \cup log[x].notes
    /\ log' = [log EXCEPT ![x] = NoLog("idle")]
    /\ UNCHANGED <<fought, unknown>>

\* A statement throws, or the process dies.
LogFails(x) ==
    /\ log[x].at = "in"
    /\ log' = [log EXCEPT ![x] = NoLog("down")]
    /\ UNCHANGED <<fought, battles, seenIn, players, noted, unknown>>

LogStep(x) ==
    \/ Deduplicate(x) \/ Quarantine(x) \/ InsertBattle(x)
    \/ InsertRejected(x) \/ Deadlocked(x) \/ CommitLog(x)

BattlesNext ==
    \/ \E m \in Match : Fight(m)
    \/ \E b \in NewBrawler : LearnBrawler(b)
    \/ \E x \in LogCrawler : LogStep(x) \/ LogFails(x) \/ \E p \in Crawled : BeginLog(x, p)

\* Every scheduled player is crawled again and again, and transactions do not
\* fail for ever.
BattlesFairness ==
    /\ \A x \in LogCrawler : WF_battleVars(LogStep(x))
    /\ \A p \in Crawled : []<><<\E x \in LogCrawler : BeginLog(x, p)>>_battleVars
    /\ <>[][~\E x \in LogCrawler : LogFails(x)]_battleVars

BattlesSpec == BattlesInit /\ [][BattlesNext]_battleVars /\ BattlesFairness

-----------------------------------------------------------------------------
\* A match is one battle, whoever's log it came from and in whatever order:
\* except for logs with different gaps.
EachMatchOnce ==
    \A a, b \in battles : a.match = b.match /\ a.key[3] = b.key[3] => a = b

\* What a battle refers to is there with it: its fighters have rows, somebody
\* saw it and has said who won, and whoever is not crawled yet is noted, so that
\* he can be.
BattleIsWhole ==
    \A b \in battles :
        /\ UNION b.key[3] \subseteq players
        /\ \E p \in Crawled : <<b.key, p>> \in seenIn /\ b.result = ResultsIn(p, b.match)
        /\ UNION b.key[3] \subseteq noted \cup Crawled

\* Whatever was stored of the logs is consistent, at whatever entry they fail.
BattlesInv == EachMatchOnce /\ BattleIsWhole

\* Whatever the logs of crawled players show is stored some day, though a log
\* was thrown away because of another, and though a brawler had to be learnt
\* first: again and again nothing is missing.
EveryMatchIsStored ==
    []<>(\A m \in Match, p \in Crawled :
            m \in Logged(p) /\ ~HasUnknownBrawler(p, m)
                => BattleKey(p, m) \in {b.key : b \in battles})
=============================================================================
