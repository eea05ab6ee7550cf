--------------------------- MODULE Records_proofs ---------------------------
(***************************************************************************)
(* Rows that are made once (MC_Records), payloads that are removed (RawArchive)  *)
(* and the figures that are made of the battles (MC_Formulas), for any players,   *)
(* matches, gaps in their logs and crawlers, any requests of monitoring, any      *)
(* snapshots, archivers, sweepers and limits, and any battles, days, caps, floors *)
(* and cutoffs: a match is one battle, a key of monitoring counts once, what was  *)
(* removed is in a whole object, and a rate, a tier and a forecast are those of   *)
(* what was counted.                                                         *)
(***************************************************************************)
EXTENDS Battles, Monitoring, RawArchive, MC_Formulas, Orders, SequenceTheorems, Folds

-----------------------------------------------------------------------------
(* Battles.  The UNIQUE key alone does not explain why two transactions never   *)
(* commit the same battle in this model: the later one has locked the row of   *)
(* the game mode, which is part of the key, from its first insert on.         *)

Keys == {BattleKey(p, m) : p \in Crawled, m \in Match}
BattleRow == [key : Keys, match : Match, result : {ResultsIn(p, m) : p \in Crawled, m \in Match}]
LogRow == [at : {"idle", "down", "in"}, of : SUBSET Crawled, left : SUBSET Match, view : SUBSET Keys,
           modes : SUBSET {Mode[m] : m \in Match}, rows : SUBSET BattleRow,
           seen : SUBSET (Keys \X Crawled), stubs : SUBSET Fighter, notes : SUBSET Fighter]

\* A battle has the key of its match, whoever saw it: what it refers to is among
\* some players, some observations and some notes.
Backed(b, seen, stubs, notes) ==
    /\ b.key = <<b.match, Mode[b.match], b.key[3]>>
    /\ UNION b.key[3] \subseteq stubs
    /\ \E p \in Crawled : <<b.key, p>> \in seen /\ b.result = ResultsIn(p, b.match)
    /\ UNION b.key[3] \subseteq notes \cup Crawled

KeysDiffer(S) == \A a, b \in S : a.key = b.key => a = b

\* A transaction has a player, and what it adds is whole, new and under its locks.
LogAgrees(l) ==
    /\ l.at = "in" => \E p \in Crawled : l.of = {p}
    /\ KeysDiffer(l.rows)
    /\ \A b \in l.rows : /\ Backed(b, l.seen, l.stubs, l.notes)
                         /\ Mode[b.match] \in l.modes
LogIsNew(l) == \A b \in l.rows, c \in battles : b.key # c.key

LocksApart == \A x, y \in LogCrawler : x # y => log[x].modes \cap log[y].modes = {}

BattlesIInv ==
    /\ fought \subseteq Match
    /\ battles \subseteq BattleRow /\ KeysDiffer(battles)
    /\ \A b \in battles : Backed(b, seenIn, players, noted)
    /\ log \in [LogCrawler -> LogRow]
    /\ \A x \in LogCrawler : LogAgrees(log[x]) /\ LogIsNew(log[x])
    /\ LocksApart

LEMMA BattlesIInvImplies == BattlesIInv => BattlesInv
<1> SUFFICES ASSUME BattlesIInv PROVE BattlesInv
  OBVIOUS
<1>1. BattleIsWhole
  BY DEF BattlesIInv, Backed, BattleIsWhole
<1>2. ASSUME NEW a \in battles, NEW b \in battles, a.match = b.match, a.key[3] = b.key[3]
      PROVE  a = b
  <2>1. a.key = b.key
    BY <1>2 DEF BattlesIInv, Backed
  <2> QED
    BY <2>1 DEF BattlesIInv, KeysDiffer
<1> QED
  BY <1>1, <1>2 DEF BattlesInv, EachMatchOnce

\* A transaction that has not begun.
LEMMA NoLogAgrees ==
    ASSUME NEW at \in {"idle", "down"}
    PROVE  /\ NoLog(at) \in LogRow /\ LogAgrees(NoLog(at))
           /\ NoLog(at).rows = {} /\ NoLog(at).modes = {}
BY DEF NoLog, LogRow, LogAgrees, KeysDiffer

LEMMA InitBattles == BattlesInit => BattlesIInv
BY NoLogAgrees DEF BattlesInit, BattlesIInv, KeysDiffer, LogIsNew, LocksApart

\* A step of one transaction that commits nothing.
LEMMA LogSteps ==
    ASSUME BattlesIInv, NEW x \in LogCrawler, NEW l \in LogRow, log' = [log EXCEPT ![x] = l],
           LogAgrees(l), LogIsNew(l), \A y \in LogCrawler \ {x} : l.modes \cap log[y].modes = {},
           UNCHANGED <<fought, battles, seenIn, players, noted>>
    PROVE  BattlesIInv'
<1>1. /\ log' \in [LogCrawler -> LogRow]
      /\ \A y \in LogCrawler : log'[y] = IF y = x THEN l ELSE log[y]
  BY DEF BattlesIInv
<1>2. ASSUME NEW y \in LogCrawler PROVE LogAgrees(log'[y]) /\ LogIsNew(log[y])'
  BY <1>1 DEF BattlesIInv, LogIsNew
<1>3. LocksApart'
  BY <1>1 DEF BattlesIInv, LocksApart
<1>4. \A b \in battles' : Backed(b, seenIn', players', noted')
  BY DEF BattlesIInv
<1>5. \A y \in LogCrawler : LogAgrees(log'[y])
  BY <1>2
<1> QED
  BY <1>1, <1>2, <1>3, <1>4, <1>5 DEF BattlesIInv, LogAgrees, KeysDiffer, Backed

\* A transaction that is over, or never was, leaves no trace.
LEMMA LogDropped ==
    ASSUME BattlesIInv, NEW x \in LogCrawler, NEW at \in {"idle", "down"},
           log' = [log EXCEPT ![x] = NoLog(at)],
           UNCHANGED <<fought, battles, seenIn, players, noted>>
    PROVE  BattlesIInv'
<1>1. PICK l \in LogRow : l = NoLog(at) /\ LogAgrees(l) /\ l.rows = {} /\ l.modes = {}
  BY NoLogAgrees
<1> QED
  BY <1>1, LogSteps DEF LogIsNew

\* The entry a transaction is at is one of its log's.
LEMMA AtSomeItem ==
    ASSUME BattlesIInv, NEW x \in LogCrawler, AtItem(x)
    PROVE  /\ Item(x) \in Match /\ Of(x) \in Crawled /\ ItemKey(x) \in Keys
           /\ UNION Seen(Of(x), Item(x)) \subseteq Fighter
           /\ log[x] \in LogRow /\ log[x].at = "in" /\ LogAgrees(log[x]) /\ LogIsNew(log[x])
<1>1. log[x] \in LogRow /\ log[x].at = "in" /\ log[x].left # {} /\ LogAgrees(log[x]) /\ LogIsNew(log[x])
  BY DEF BattlesIInv, AtItem
<1>2. Item(x) \in Match
  <2>1. log[x].left \in SUBSET Match /\ log[x].left \in SUBSET Nat /\ IsFiniteSet(log[x].left)
    <3>1. log[x].left \in SUBSET Match
      BY <1>1 DEF LogRow
    <3>2. IsFiniteSet(Match) /\ Match \subseteq Nat
      BY BattlesAssumption
    <3> QED
      BY <3>1, <3>2, FS_Subset
  <2>2. \E m \in log[x].left : \A n \in log[x].left : n <= m
    BY <1>1, <2>1, GreatestOfFinite
  <2>3. Newest(log[x].left) \in log[x].left
    BY <2>2 DEF Newest
  <2> QED
    BY <2>1, <2>3 DEF Item
<1>3. Of(x) \in Crawled
  BY <1>1 DEF LogAgrees, Of
<1>4. UNION Seen(Of(x), Item(x)) \subseteq Fighter
  <2>1. Sides[Item(x)] \subseteq SUBSET Fighter
    BY <1>2, BattlesAssumption
  <2> SUFFICES ASSUME NEW f \in UNION Seen(Of(x), Item(x)) PROVE f \in Fighter
    OBVIOUS
  <2>2. PICK team \in Seen(Of(x), Item(x)) : f \in team
    OBVIOUS
  <2>3. PICK side \in Sides[Item(x)] : team = {g \in side : <<Of(x), Item(x), g>> \notin Garbled}
    BY <2>2 DEF Seen
  <2>4. f \in side /\ side \subseteq Fighter
    BY <2>1, <2>2, <2>3
  <2> QED
    BY <2>4
<1> QED
  BY <1>1, <1>2, <1>3, <1>4 DEF ItemKey, Keys

LEMMA BeginKeeps ==
    ASSUME BattlesIInv, NEW x \in LogCrawler, NEW p \in Crawled, BeginLog(x, p)
    PROVE  BattlesIInv'
<1>1. PICK l : l = [NoLog("in") EXCEPT !.of = {p}, !.left = Logged(p), !.view = {b.key : b \in battles}]
  OBVIOUS
<1>2. Logged(p) \in SUBSET Match /\ {b.key : b \in battles} \in SUBSET Keys
  BY DEF Logged, BattlesIInv, BattleRow
<1>3. /\ l.at = "in" /\ l.of = {p} /\ l.left = Logged(p) /\ l.view = {b.key : b \in battles}
      /\ l.modes = {} /\ l.rows = {}
  BY <1>1 DEF NoLog
<1>4. l \in LogRow
  BY <1>1, <1>2 DEF NoLog, LogRow
<1>5. LogAgrees(l) /\ LogIsNew(l)
  BY <1>3 DEF LogAgrees, LogIsNew, KeysDiffer
<1>6. log' = [log EXCEPT ![x] = l] /\ UNCHANGED <<fought, battles, seenIn, players, noted>>
  BY <1>1 DEF BeginLog
<1> QED
  BY <1>3, <1>4, <1>5, <1>6, LogSteps

\* The battle is known: one observation more.
LEMMA DeduplicateKeeps ==
    ASSUME BattlesIInv, NEW x \in LogCrawler, Deduplicate(x)
    PROVE  BattlesIInv'
<1>0. AtItem(x)
  BY DEF Deduplicate
<1>1. PICK left : left = log[x].left \ {Item(x)}
  OBVIOUS
<1>2. PICK seen : seen = log[x].seen \cup {<<ItemKey(x), Of(x)>>}
  OBVIOUS
<1>3. PICK l : l = [log[x] EXCEPT !.left = left, !.seen = seen]
  OBVIOUS
<1>4. left \in SUBSET Match /\ seen \in SUBSET (Keys \X Crawled)
  BY <1>0, <1>1, <1>2, AtSomeItem DEF LogRow
<1>5. /\ l \in LogRow /\ l.at = log[x].at /\ l.of = log[x].of /\ l.modes = log[x].modes /\ l.rows = log[x].rows
      /\ l.seen = seen /\ l.stubs = log[x].stubs /\ l.notes = log[x].notes
  BY <1>0, <1>3, <1>4, AtSomeItem DEF LogRow
<1>6. LogAgrees(l) /\ LogIsNew(l)
  <2>1. LogAgrees(log[x]) /\ LogIsNew(log[x]) /\ log[x].seen \subseteq seen
    BY <1>0, <1>2, AtSomeItem
  <2> QED
    BY <1>5, <2>1 DEF LogAgrees, LogIsNew, Backed
<1>7. log' = [log EXCEPT ![x] = l] /\ UNCHANGED <<fought, battles, seenIn, players, noted>>
  BY <1>1, <1>2, <1>3 DEF Deduplicate
<1>8. \A y \in LogCrawler \ {x} : l.modes \cap log[y].modes = {}
  BY <1>5 DEF BattlesIInv, LocksApart
<1> QED
  BY <1>5, <1>6, <1>7, <1>8, LogSteps

\* The battle is left out, with its stubs and the lock of its mode.
LEMMA QuarantineKeeps ==
    ASSUME BattlesIInv, NEW x \in LogCrawler, Quarantine(x)
    PROVE  BattlesIInv'
<1>0. AtItem(x) /\ ~ModeLocked(x)
  BY DEF Quarantine
<1>1. PICK left : left = log[x].left \ {Item(x)}
  OBVIOUS
<1>2. PICK modes : modes = log[x].modes \cup {Mode[Item(x)]}
  OBVIOUS
<1>3. PICK stubs : stubs = log[x].stubs \cup {f \in UNION Seen(Of(x), Item(x)) : Plays[Item(x)][f] \notin unknown}
  OBVIOUS
<1>4. PICK l : l = [log[x] EXCEPT !.left = left, !.modes = modes, !.stubs = stubs]
  OBVIOUS
<1>5. left \in SUBSET Match /\ modes \in SUBSET {Mode[m] : m \in Match} /\ stubs \in SUBSET Fighter
  <2>1. log[x] \in LogRow /\ Item(x) \in Match /\ UNION Seen(Of(x), Item(x)) \subseteq Fighter
    BY <1>0, AtSomeItem
  <2>2. left \in SUBSET Match /\ modes \in SUBSET {Mode[m] : m \in Match}
    BY <1>1, <1>2, <2>1 DEF LogRow
  <2>3. stubs \in SUBSET Fighter
    BY <1>3, <2>1 DEF LogRow
  <2> QED
    BY <2>2, <2>3
<1>6. /\ l \in LogRow /\ l.at = log[x].at /\ l.of = log[x].of /\ l.modes = modes /\ l.rows = log[x].rows
      /\ l.seen = log[x].seen /\ l.stubs = stubs /\ l.notes = log[x].notes
  BY <1>0, <1>4, <1>5, AtSomeItem DEF LogRow
<1>7. LogAgrees(l) /\ LogIsNew(l)
  <2>1. LogAgrees(log[x]) /\ LogIsNew(log[x]) /\ log[x].stubs \subseteq stubs /\ log[x].modes \subseteq modes
    BY <1>0, <1>2, <1>3, AtSomeItem
  <2> QED
    BY <1>6, <2>1 DEF LogAgrees, LogIsNew, Backed
<1>8. log' = [log EXCEPT ![x] = l] /\ UNCHANGED <<fought, battles, seenIn, players, noted>>
  BY <1>1, <1>2, <1>3, <1>4 DEF Quarantine
<1>9. \A y \in LogCrawler \ {x} : l.modes \cap log[y].modes = {}
  BY <1>0, <1>2, <1>6 DEF BattlesIInv, LocksApart, ModeLocked
<1> QED
  BY <1>6, <1>7, <1>8, <1>9, LogSteps

\* The battle is new, and nobody else can add it.
LEMMA InsertKeeps ==
    ASSUME BattlesIInv, NEW x \in LogCrawler, InsertBattle(x)
    PROVE  BattlesIInv'
<1>0. AtItem(x) /\ ~ModeLocked(x) /\ ~Known(x) /\ CanInsert(x)
  BY DEF InsertBattle
<1>1. PICK p \in Crawled, m \in Match : p = Of(x) /\ m = Item(x)
  BY <1>0, AtSomeItem
<1>2. PICK key \in Keys : key = BattleKey(p, m) /\ key = ItemKey(x)
  BY <1>0, <1>1, AtSomeItem DEF ItemKey
<1>3. PICK row : row = [key |-> key, match |-> m, result |-> ResultsIn(p, m)]
  OBVIOUS
<1>4. row \in BattleRow /\ row.key = key /\ row.match = m /\ row.result = ResultsIn(p, m)
  BY <1>3 DEF BattleRow
<1>5. PICK left : left = log[x].left \ {m}
  OBVIOUS
<1>6. PICK modes : modes = log[x].modes \cup {Mode[m]}
  OBVIOUS
<1>7. PICK rows : rows = log[x].rows \cup {row}
  OBVIOUS
<1>8. PICK stubs : stubs = log[x].stubs \cup UNION Seen(p, m)
  OBVIOUS
<1>9. PICK notes : notes = log[x].notes \cup NotedBy(p, m)
  OBVIOUS
<1>10. PICK seen : seen = log[x].seen \cup {<<key, p>>}
  OBVIOUS
<1>11. PICK l : l = [log[x] EXCEPT !.left = left, !.modes = modes, !.rows = rows, !.stubs = stubs,
                                   !.notes = notes, !.seen = seen]
  OBVIOUS
<1>12. /\ left \in SUBSET Match /\ modes \in SUBSET {Mode[n] : n \in Match} /\ rows \in SUBSET BattleRow
       /\ stubs \in SUBSET Fighter /\ notes \in SUBSET Fighter /\ seen \in SUBSET (Keys \X Crawled)
  <2>1. log[x] \in LogRow /\ UNION Seen(p, m) \subseteq Fighter
    BY <1>0, <1>1, AtSomeItem
  <2>2. left \in SUBSET Match /\ modes \in SUBSET {Mode[n] : n \in Match}
    BY <1>5, <1>6, <2>1 DEF LogRow
  <2>3. rows \in SUBSET BattleRow /\ seen \in SUBSET (Keys \X Crawled)
    BY <1>4, <1>7, <1>10, <2>1 DEF LogRow
  <2>4. stubs \in SUBSET Fighter /\ notes \in SUBSET Fighter
    BY <1>8, <1>9, <2>1 DEF LogRow, NotedBy
  <2> QED
    BY <2>2, <2>3, <2>4
<1>13. /\ l \in LogRow /\ l.at = log[x].at /\ l.of = log[x].of /\ l.modes = modes /\ l.rows = rows
       /\ l.seen = seen /\ l.stubs = stubs /\ l.notes = notes
  BY ZenonT(30), <1>0, <1>11, <1>12, AtSomeItem DEF LogRow
<1>14. LogAgrees(log[x]) /\ LogIsNew(log[x])
  BY <1>0, AtSomeItem
<1>15. Backed(row, seen, stubs, notes)
  <2>1. key = <<m, Mode[m], Seen(p, m)>> /\ key[3] = Seen(p, m)
    BY <1>2 DEF BattleKey
  <2>2. UNION Seen(p, m) \subseteq stubs /\ UNION Seen(p, m) \subseteq notes \cup Crawled
    BY <1>8, <1>9 DEF NotedBy
  <2>3. <<row.key, p>> \in seen /\ row.result = ResultsIn(p, row.match)
    BY <1>4, <1>10
  <2> QED
    BY <1>4, <2>1, <2>2, <2>3 DEF Backed
<1>16. \A b \in log[x].rows : Backed(b, seen, stubs, notes) /\ Mode[b.match] \in modes
  BY <1>6, <1>8, <1>9, <1>10, <1>14 DEF LogAgrees, Backed
<1>17. \A b \in log[x].rows : b.key # key
  BY <1>0, <1>2 DEF Known
<1>18. LogAgrees(l)
  <2>1. KeysDiffer(rows)
    BY <1>4, <1>7, <1>14, <1>17 DEF KeysDiffer, LogAgrees
  <2>2. \A b \in rows : Backed(b, seen, stubs, notes) /\ Mode[b.match] \in modes
    BY <1>4, <1>6, <1>7, <1>15, <1>16
  <2> QED
    BY <1>13, <1>14, <2>1, <2>2 DEF LogAgrees
<1>19. LogIsNew(l)
  <2>1. \A c \in battles : c.key # key
    BY <1>0, <1>2 DEF CanInsert
  <2> QED
    BY <1>4, <1>7, <1>13, <1>14, <2>1 DEF LogIsNew
<1>20. log' = [log EXCEPT ![x] = l]
  BY <1>1, <1>2, <1>3, <1>5, <1>6, <1>7, <1>8, <1>9, <1>10, <1>11 DEF InsertBattle
<1>21. UNCHANGED <<fought, battles, seenIn, players, noted>>
  BY DEF InsertBattle
<1>22. \A y \in LogCrawler \ {x} : l.modes \cap log[y].modes = {}
  BY <1>0, <1>1, <1>6, <1>13 DEF BattlesIInv, LocksApart, ModeLocked
<1> QED
  BY <1>13, <1>18, <1>19, <1>20, <1>21, <1>22, LogSteps

\* What is committed is new to everybody else as well, because of the locks.
LEMMA CommitKeeps ==
    ASSUME BattlesIInv, NEW x \in LogCrawler, CommitLog(x)
    PROVE  BattlesIInv'
<1>1. /\ battles' = battles \cup log[x].rows /\ seenIn' = seenIn \cup log[x].seen
      /\ players' = players \cup log[x].stubs /\ noted' = noted \cup log[x].notes
      /\ log' = [log EXCEPT ![x] = NoLog("idle")] /\ fought' = fought
  BY DEF CommitLog
<1>2. log[x] \in LogRow /\ LogAgrees(log[x]) /\ LogIsNew(log[x])
  BY DEF BattlesIInv
<1>3. battles' \subseteq BattleRow
  BY <1>1, <1>2 DEF BattlesIInv, LogRow
<1>4. KeysDiffer(battles')
  <2>1. ASSUME NEW a \in battles \cup log[x].rows, NEW b \in battles \cup log[x].rows, a.key = b.key
        PROVE  a = b
    BY <1>2, <2>1 DEF BattlesIInv, KeysDiffer, LogIsNew, LogAgrees
  <2> QED
    BY <1>1, <2>1 DEF KeysDiffer
<1>5. ASSUME NEW b \in battles' PROVE Backed(b, seenIn', players', noted')
  BY <1>1, <1>2, <1>5 DEF BattlesIInv, LogAgrees, Backed
<1>6. PICK l \in LogRow : l = NoLog("idle") /\ LogAgrees(l) /\ l.rows = {} /\ l.modes = {}
  BY NoLogAgrees
<1>7. /\ log' \in [LogCrawler -> LogRow]
      /\ \A y \in LogCrawler : log'[y] = IF y = x THEN l ELSE log[y]
  BY <1>1, <1>6 DEF BattlesIInv
<1>8. LocksApart'
  BY <1>6, <1>7 DEF BattlesIInv, LocksApart
<1>9. ASSUME NEW y \in LogCrawler PROVE LogAgrees(log'[y]) /\ \A b \in log'[y].rows, c \in battles' : b.key # c.key
  <2>1. CASE y = x
    BY <1>6, <1>7, <2>1
  <2>2. CASE y # x
    <3>1. log'[y] = log[y] /\ LogAgrees(log[y]) /\ LogIsNew(log[y]) /\ log[x].modes \cap log[y].modes = {}
      BY <1>7, <2>2 DEF BattlesIInv, LocksApart
    <3>2. ASSUME NEW b \in log[y].rows, NEW c \in log[x].rows PROVE b.key # c.key
      <4>1. /\ b.key = <<b.match, Mode[b.match], b.key[3]>> /\ c.key = <<c.match, Mode[c.match], c.key[3]>>
            /\ Mode[b.match] \in log[y].modes /\ Mode[c.match] \in log[x].modes
        BY <1>2, <3>1 DEF LogAgrees, Backed
      <4>2. Mode[b.match] # Mode[c.match]
        BY <3>1, <4>1
      <4> QED
        BY <4>1, <4>2
    <3> QED
      BY <1>1, <3>1, <3>2 DEF LogIsNew
  <2> QED
    BY <2>1, <2>2
<1>10. \A y \in LogCrawler : LogAgrees(log'[y]) /\ LogIsNew(log[y])'
  BY <1>9 DEF LogIsNew
<1>11. fought' \subseteq Match /\ \A b \in battles' : Backed(b, seenIn', players', noted')
  BY <1>1, <1>5 DEF BattlesIInv
<1> QED
  BY <1>3, <1>4, <1>7, <1>8, <1>10, <1>11 DEF BattlesIInv, LogAgrees, KeysDiffer, Backed

LEMMA BattlesStepKeeps ==
    BattlesIInv /\ [BattlesNext]_battleVars => BattlesIInv'
<1> SUFFICES ASSUME BattlesIInv, [BattlesNext]_battleVars PROVE BattlesIInv'
  OBVIOUS
<1>1. ASSUME UNCHANGED <<battles, seenIn, players, noted, log>>, fought' \subseteq Match
      PROVE  BattlesIInv'
  <2>1. LocksApart'
    BY <1>1 DEF BattlesIInv, LocksApart
  <2>2. \A x \in LogCrawler : LogAgrees(log'[x]) /\ LogIsNew(log[x])'
    BY <1>1 DEF BattlesIInv, LogIsNew
  <2> QED
    BY <1>1, <2>1, <2>2 DEF BattlesIInv
<1>2. CASE UNCHANGED battleVars
  BY <1>1, <1>2 DEF battleVars, BattlesIInv
<1>3. ASSUME NEW m \in Match, Fight(m) PROVE BattlesIInv'
  BY <1>1, <1>3 DEF Fight, BattlesIInv
<1>4. ASSUME NEW b \in NewBrawler, LearnBrawler(b) PROVE BattlesIInv'
  BY <1>1, <1>4 DEF LearnBrawler, BattlesIInv
<1>5. ASSUME NEW x \in LogCrawler, InsertRejected(x) \/ Deadlocked(x) \/ LogFails(x) PROVE BattlesIInv'
  <2>1. PICK at \in {"idle", "down"} : log' = [log EXCEPT ![x] = NoLog(at)]
    BY <1>5 DEF InsertRejected, Deadlocked, LogFails
  <2>2. UNCHANGED <<fought, battles, seenIn, players, noted>>
    BY <1>5 DEF InsertRejected, Deadlocked, LogFails
  <2> QED
    BY <2>1, <2>2, LogDropped
<1>6. ASSUME NEW x \in LogCrawler, NEW p \in Crawled, BeginLog(x, p) PROVE BattlesIInv'
  BY <1>6, BeginKeeps
<1>7. ASSUME NEW x \in LogCrawler, Deduplicate(x) \/ Quarantine(x) \/ InsertBattle(x) \/ CommitLog(x)
      PROVE  BattlesIInv'
  BY <1>7, DeduplicateKeeps, QuarantineKeeps, InsertKeeps, CommitKeeps
<1> QED
  BY <1>2, <1>3, <1>4, <1>5, <1>6, <1>7 DEF BattlesNext, LogStep

\* A match is one battle and what it refers to is there (BattlesInv), whoever is
\* crawled, with whatever gaps in the logs, and however transactions overlap.
THEOREM MatchesAreStoredOnce == BattlesSpec => []BattlesInv
<1>1. BattlesSpec => []BattlesIInv
  BY InitBattles, BattlesStepKeeps, PTL DEF BattlesSpec
<1> QED
  BY <1>1, BattlesIInvImplies, PTL


-----------------------------------------------------------------------------
(* Monitoring.  A key has one request for ever, so that at most one is ever     *)
(* counted.  Times are renumbered at each start, which keeps them apart.      *)

RequestStages == {"idle", "capacity", "insert capacity", "health", "insert health",
           "latest capacity", "latest health", "reconcile", "complete"}
Known3 == BOOLEAN \cup {NotKnown}
Severity == {"none", "warning"} \cup (Level \ {"healthy"})
RequestRow == [at : RequestStages, key : IdempotencyKey \cup {NoKey}, now : Nat, level : Level, failed : Known3]

\* A key that was never sent has no request, and one that was has at most one,
\* which has no work left once it is counted.
KeyOnce(k) ==
    /\ counted[k] \in {0, 1}
    /\ keyed[k] = "none" => counted[k] = 0 /\ \A x \in Caller : request[x].key # k
    /\ \A x, y \in Caller : request[x].key = k /\ request[y].key = k => x = y
    /\ counted[k] = 1 => \A x \in Caller : request[x].key = k => request[x].at = "complete"

TimesApart == \A x, y \in Caller : request[x].now = request[y].now => x = y \/ request[x].now = 0

MonitoringIInv ==
    /\ space \in Level /\ failedArchives \in BOOLEAN
    /\ capacity \in [at : Nat, level : Level]
    /\ health \in [at : Nat, failed : Known3]
    /\ alert \in [AlertKey -> Severity]
    /\ keyed \in [IdempotencyKey -> {"none", "running", "succeeded", "failed"}]
    /\ request \in [Caller -> RequestRow]
    /\ TimesApart
    /\ DOMAIN counted = IdempotencyKey
    /\ \A k \in IdempotencyKey : KeyOnce(k)

LEMMA MonitoringIInvImplies == MonitoringIInv => MonitoringInv
BY DEF MonitoringIInv, MonitoringInv, MonitoringTypeOK, CountedOnce, KeyOnce, TimesApart,
       Known3, Severity

\* A rank is the number of times up to it: a later one ranks higher.
LEMMA RankedApart ==
    ASSUME NEW S \in SUBSET Nat, IsFiniteSet(S), NEW t \in Nat
    PROVE  /\ Cardinality({s \in S : s <= t}) \in Nat
           /\ Cardinality(S) \in Nat
           /\ Cardinality({s \in S : s <= t}) <= Cardinality(S)
           /\ \A u \in S : t < u => Cardinality({s \in S : s <= t}) < Cardinality({s \in S : s <= u})
<1>1. /\ IsFiniteSet({s \in S : s <= t})
      /\ Cardinality({s \in S : s <= t}) <= Cardinality(S)
  BY FS_Subset
<1>2. Cardinality({s \in S : s <= t}) \in Nat /\ Cardinality(S) \in Nat
  BY <1>1, FS_CardinalityType
<1>3. ASSUME NEW u \in S, t < u
      PROVE  Cardinality({s \in S : s <= t}) < Cardinality({s \in S : s <= u})
  <2>1. IsFiniteSet({s \in S : s <= u})
    BY FS_Subset
  <2>2. /\ {s \in S : s <= t} \subseteq {s \in S : s <= u}
        /\ u \in {s \in S : s <= u} /\ u \notin {s \in S : s <= t}
    <3>1. u \in Nat /\ t \in Nat /\ \A s \in S : s \in Nat
      OBVIOUS
    <3>2. \A s \in S : s <= t => s <= u
      BY <1>3, <3>1
    <3>3. u <= u /\ ~(u <= t)
      BY <1>3, <3>1
    <3> QED
      BY <3>2, <3>3, Zenon
  <2>3. {s \in S : s <= t} # {s \in S : s <= u}
    BY <2>2
  <2>4. /\ Cardinality({s \in S : s <= t}) <= Cardinality({s \in S : s <= u})
        /\ Cardinality({s \in S : s <= t}) = Cardinality({s \in S : s <= u})
             => {s \in S : s <= t} = {s \in S : s <= u}
    BY <2>1, <2>2, FS_Subset
  <2>5. Cardinality({s \in S : s <= u}) \in Nat
    BY <2>1, FS_CardinalityType
  <2> QED
    BY <1>2, <2>3, <2>4, <2>5
<1> QED
  BY <1>1, <1>2, <1>3

LEMMA RanksApart ==
    ASSUME MonitoringIInv
    PROVE  /\ Cardinality(Stamps) \in Nat
           /\ \A t \in Nat : Rank(t) \in Nat /\ Rank(t) <= Cardinality(Stamps)
           /\ \A x, y \in Caller : Rank(request[x].now) = Rank(request[y].now)
                => x = y \/ Rank(request[x].now) = 0
<1>1. \A x \in Caller : request[x].now \in Nat
  BY DEF MonitoringIInv, RequestRow
<1>2. IsFiniteSet(Stamps) /\ Stamps \in SUBSET Nat
  <2>1. IsFiniteSet({request[x].now : x \in Caller})
    <3>1. PICK f : f = [x \in Caller |-> request[x].now]
      OBVIOUS
    <3>2. {request[x].now : x \in Caller} = {f[x] : x \in Caller}
      BY <3>1
    <3>3. f \in Surjection(Caller, {f[x] : x \in Caller})
      BY <3>1 DEF Surjection
    <3> QED
      BY <3>2, <3>3, FS_Surjection, MonitoringAssumption
  <2> QED
    BY <1>1, <2>1, FS_Subset DEF Stamps
<1>3. \A t \in Nat : /\ Rank(t) \in Nat /\ Rank(t) <= Cardinality(Stamps)
                     /\ Cardinality(Stamps) \in Nat
                     /\ \A u \in Stamps : t < u => Rank(t) < Rank(u)
  BY <1>2, RankedApart DEF Rank
<1>4. ASSUME NEW x \in Caller, NEW y \in Caller, Rank(request[x].now) = Rank(request[y].now), x # y
      PROVE  Rank(request[x].now) = 0
  <2>1. \A a, b \in Nat : b \in Stamps /\ a < b => Rank(a) # Rank(b)
    BY <1>3
  <2>2. request[x].now = 0 \/ request[x].now \in Stamps
    BY DEF Stamps
  <2>3. request[y].now = 0 \/ request[y].now \in Stamps
    BY DEF Stamps
  <2>4. request[x].now = request[y].now
    BY <1>1, <1>4, <2>1, <2>2, <2>3
  <2>5. request[x].now = 0
    BY <1>4, <2>4 DEF MonitoringIInv, TimesApart
  <2>6. {s \in Stamps : s <= 0} = {}
    BY <1>2 DEF Stamps
  <2> QED
    BY <2>5, <2>6, FS_EmptySet DEF Rank
<1> QED
  BY <1>3, <1>4

\* What a request makes of its own row, of the latest snapshots and of its key.
LEMMA RequestSteps ==
    ASSUME MonitoringIInv, NEW x \in Caller, NEW r \in RequestRow,
           request' = [request EXCEPT ![x] = r],
           r.now \in {0, request[x].now}, r.key \in {NoKey, request[x].key},
           UNCHANGED <<space, failedArchives>>,
           capacity' \in [at : Nat, level : Level], health' \in [at : Nat, failed : Known3],
           alert' \in [AlertKey -> Severity],
           keyed' \in [IdempotencyKey -> {"none", "running", "succeeded", "failed"}],
           \A k \in IdempotencyKey : keyed'[k] = "none" => keyed[k] = "none",
           DOMAIN counted' = IdempotencyKey,
           \A k \in IdempotencyKey : \/ counted'[k] = counted[k]
                                     \/ k = request[x].key /\ counted'[k] \in {0, 1},
           \A k \in IdempotencyKey : r.key = k /\ counted'[k] = 1 => r.at = "complete"
    PROVE  MonitoringIInv'
<1>1. /\ request' \in [Caller -> RequestRow]
      /\ \A y \in Caller : request'[y] = IF y = x THEN r ELSE request[y]
  BY DEF MonitoringIInv
<1>2. TimesApart'
  <2> SUFFICES ASSUME NEW y \in Caller, NEW z \in Caller, request'[y].now = request'[z].now, y # z
               PROVE  request'[y].now = 0
    BY DEF TimesApart
  <2>1. request[y].now = request[z].now => request[y].now = 0
    BY DEF MonitoringIInv, TimesApart
  <2> QED
    BY <1>1, <2>1
<1>3. ASSUME NEW k \in IdempotencyKey PROVE KeyOnce(k)'
  <2>0. KeyOnce(k) /\ k # NoKey
    BY MonitoringAssumption DEF MonitoringIInv
  <2>1. \A y \in Caller : request'[y].key = k => request[y].key = k
    BY <1>1, <2>0
  <2>2. counted'[k] = counted[k] \/ (k = request[x].key /\ counted'[k] \in {0, 1})
    OBVIOUS
  <2>3. counted'[k] \in {0, 1}
    BY <2>0, <2>2 DEF KeyOnce
  <2>4. keyed'[k] = "none" => counted'[k] = 0 /\ \A y \in Caller : request'[y].key # k
    BY <2>0, <2>1, <2>2 DEF KeyOnce
  <2>5. \A y, z \in Caller : request'[y].key = k /\ request'[z].key = k => y = z
    BY <2>0, <2>1 DEF KeyOnce
  <2>6. ASSUME counted'[k] = 1, NEW y \in Caller, request'[y].key = k PROVE request'[y].at = "complete"
    <3>1. CASE y = x
      BY <1>1, <2>6, <3>1
    <3>2. CASE y # x
      <4>1. request[y].key = k /\ request'[y] = request[y]
        BY <1>1, <2>6, <3>2
      <4>2. request[x].key # k
        BY <2>0, <3>2, <4>1 DEF KeyOnce
      <4> QED
        BY <2>0, <2>2, <2>6, <4>1, <4>2 DEF KeyOnce
    <3> QED
      BY <3>1, <3>2
  <2> QED
    BY <2>3, <2>4, <2>5, <2>6 DEF KeyOnce
<1> QED
  BY <1>1, <1>2, <1>3 DEF MonitoringIInv


\* A request whose key was never sent begins; the times are renumbered.
LEMMA StartKeeps ==
    ASSUME MonitoringIInv, NEW x \in Caller, NEW k \in IdempotencyKey \cup {NoKey}, NEW new \in RequestRow,
           new.now \in {0, Cardinality(Stamps) + 1}, StartMonitoringRun(x, k, new)
    PROVE  MonitoringIInv'
<1>1. PICK first : first = [new EXCEPT !.key = k]
  OBVIOUS
<1>2. first \in RequestRow /\ first.key = k /\ first.now = new.now
  BY <1>1 DEF RequestRow
<1>3. \A y \in Caller : request[y].now \in Nat
  BY DEF MonitoringIInv, RequestRow
<1>4. \A y \in Caller : Rank(request[y].now) \in Nat /\ Rank(request[y].now) <= Cardinality(Stamps)
  BY <1>3, RanksApart
<1>5. PICK row : row = [y \in Caller |-> [request[y] EXCEPT !.now = Rank(@)]]
  OBVIOUS
<1>6. \A y \in Caller : row[y] \in RequestRow /\ row[y].key = request[y].key
                        /\ row[y].at = request[y].at /\ row[y].now = Rank(request[y].now)
  BY <1>4, <1>5 DEF MonitoringIInv, RequestRow
<1>7. request' = [y \in Caller |-> IF y = x THEN first ELSE row[y]]
  BY <1>1, <1>5 DEF StartMonitoringRun
<1>8. request' \in [Caller -> RequestRow]
  BY <1>2, <1>6, <1>7
<1>9. TimesApart'
  <2> SUFFICES ASSUME NEW y \in Caller, NEW z \in Caller, request'[y].now = request'[z].now, y # z
               PROVE  request'[y].now = 0
    BY DEF TimesApart
  <2>1. Cardinality(Stamps) \in Nat
    BY RanksApart
  <2>2. CASE y # x /\ z # x
    <3>1. Rank(request[y].now) = Rank(request[z].now)
      BY <1>6, <1>7, <2>2
    <3> QED
      BY <1>6, <1>7, <2>2, <3>1, RanksApart
  <2>3. CASE y = x /\ z # x
    BY <1>2, <1>4, <1>6, <1>7, <2>1, <2>3
  <2>4. CASE y # x /\ z = x
    BY <1>2, <1>4, <1>6, <1>7, <2>1, <2>4
  <2> QED
    BY <2>2, <2>3, <2>4
<1>10. ASSUME NEW j \in IdempotencyKey PROVE KeyOnce(j)'
  <2>0. KeyOnce(j) /\ j # NoKey
    BY MonitoringAssumption DEF MonitoringIInv
  <2>1. keyed' = [i \in IdempotencyKey |-> IF i = k THEN "running" ELSE keyed[i]] /\ counted' = counted
    BY DEF StartMonitoringRun
  <2>2. CASE j = k
    <3>1. keyed[j] = "none"
      BY <2>0, <2>2 DEF StartMonitoringRun, NewRun
    <3>2. counted[j] = 0 /\ \A y \in Caller : request[y].key # j
      BY <2>0, <3>1 DEF KeyOnce
    <3>3. \A y \in Caller : request'[y].key = j => y = x
      BY <1>6, <1>7, <3>2
    <3>4. keyed'[j] = "running"
      BY <2>1, <2>2
    <3> QED
      BY <2>1, <3>2, <3>3, <3>4 DEF KeyOnce
  <2>3. CASE j # k
    <3>1. \A y \in Caller : request'[y].key = j => y # x /\ request[y].key = j /\ request'[y].at = request[y].at
      BY <1>2, <1>6, <1>7, <2>3
    <3>2. keyed'[j] = keyed[j]
      BY <2>1, <2>3
    <3> QED
      BY <2>0, <2>1, <3>1, <3>2 DEF KeyOnce
  <2> QED
    BY <2>2, <2>3
<1>11. capacity' \in [at : Nat, level : Level] /\ health' \in [at : Nat, failed : Known3]
  <2>1. capacity.at \in Nat /\ health.at \in Nat
    BY DEF MonitoringIInv
  <2>2. Rank(capacity.at) \in Nat /\ Rank(health.at) \in Nat
    BY <2>1, RanksApart
  <2> QED
    BY <2>2 DEF MonitoringIInv, StartMonitoringRun
<1>12. keyed' \in [IdempotencyKey -> {"none", "running", "succeeded", "failed"}]
  BY DEF MonitoringIInv, StartMonitoringRun
<1> QED
  BY <1>8, <1>9, <1>10, <1>11, <1>12 DEF MonitoringIInv, StartMonitoringRun

LEMMA InitMonitoring == MonitoringInit => MonitoringIInv
<1> SUFFICES ASSUME MonitoringInit PROVE MonitoringIInv
  OBVIOUS
<1>1. PICK r : r = NoRequest("idle")
  OBVIOUS
<1>2. r \in RequestRow /\ r.now = 0 /\ r.key = NoKey
  BY <1>1, MonitoringAssumption DEF NoRequest, RequestRow, RequestStages, Known3
<1>3. request \in [Caller -> RequestRow] /\ \A x \in Caller : request[x] = r
  BY <1>1, <1>2 DEF MonitoringInit
<1>4. TimesApart
  BY <1>2, <1>3 DEF TimesApart
<1>5. \A k \in IdempotencyKey : counted[k] = 0 /\ k # NoKey
  BY MonitoringAssumption DEF MonitoringInit
<1>6. \A k \in IdempotencyKey : KeyOnce(k)
  BY <1>2, <1>3, <1>5 DEF KeyOnce
<1>7. alert \in [AlertKey -> Severity]
  BY DEF MonitoringInit, Severity
<1>8. capacity \in [at : Nat, level : Level] /\ health \in [at : Nat, failed : Known3]
  BY MonitoringAssumption DEF MonitoringInit, Known3
<1>9. /\ space \in Level /\ failedArchives \in BOOLEAN
      /\ keyed \in [IdempotencyKey -> {"none", "running", "succeeded", "failed"}]
      /\ DOMAIN counted = IdempotencyKey
  BY MonitoringAssumption DEF MonitoringInit
<1> QED
  BY <1>3, <1>4, <1>6, <1>7, <1>8, <1>9 DEF MonitoringIInv

\* A request that does not start, and whose work is not yet done, has counted
\* nothing.
LEMMA NothingCounted ==
    ASSUME MonitoringIInv, NEW x \in Caller, request[x].at # "complete", NEW k \in IdempotencyKey,
           request[x].key = k
    PROVE  counted[k] = 0 /\ keyed[k] # "none"
BY DEF MonitoringIInv, KeyOnce

\* A request looks, or inserts what it has found.
LEMMA CollectKeeps ==
    ASSUME MonitoringIInv, NEW x \in Caller, NEW at \in RequestStages, NEW level \in Level, NEW failed \in Known3,
           request[x].at # "complete",
           request' = [request EXCEPT ![x] = [@ EXCEPT !.at = at, !.level = level, !.failed = failed]],
           capacity' \in [at : Nat, level : Level], health' \in [at : Nat, failed : Known3],
           UNCHANGED <<space, failedArchives, alert, keyed, counted>>
    PROVE  MonitoringIInv'
<1>1. request[x] \in RequestRow
  BY DEF MonitoringIInv
<1>2. PICK r : r = [request[x] EXCEPT !.at = at, !.level = level, !.failed = failed]
  OBVIOUS
<1>3. r \in RequestRow /\ r.now = request[x].now /\ r.key = request[x].key
  BY <1>1, <1>2 DEF RequestRow
<1>4. request' = [request EXCEPT ![x] = r]
  BY <1>2
<1>5. \A k \in IdempotencyKey : r.key = k /\ counted'[k] = 1 => r.at = "complete"
  <2> SUFFICES ASSUME NEW k \in IdempotencyKey, r.key = k, counted'[k] = 1 PROVE FALSE
    OBVIOUS
  <2>1. request[x].key = k /\ counted'[k] = counted[k]
    BY <1>3
  <2>2. counted[k] = 0
    BY <2>1, NothingCounted
  <2> QED
    BY <2>1, <2>2
<1>6. /\ UNCHANGED <<space, failedArchives>> /\ alert' \in [AlertKey -> Severity]
      /\ keyed' \in [IdempotencyKey -> {"none", "running", "succeeded", "failed"}]
      /\ \A k \in IdempotencyKey : keyed'[k] = "none" => keyed[k] = "none"
      /\ DOMAIN counted' = IdempotencyKey
      /\ \A k \in IdempotencyKey : counted'[k] = counted[k]
  BY DEF MonitoringIInv
<1> QED
  BY ZenonT(60), <1>3, <1>4, <1>5, <1>6, RequestSteps

\* The request is over, whatever became of it.
LEMMA EndKeeps ==
    ASSUME MonitoringIInv, NEW x \in Caller, request' = [request EXCEPT ![x] = NoRequest("idle")],
           keyed' \in [IdempotencyKey -> {"none", "running", "succeeded", "failed"}],
           \A k \in IdempotencyKey : keyed'[k] = "none" => keyed[k] = "none",
           UNCHANGED <<space, failedArchives, capacity, health, alert, counted>>
    PROVE  MonitoringIInv'
<1>1. PICK r : r = NoRequest("idle")
  OBVIOUS
<1>2. r \in RequestRow /\ r.now = 0 /\ r.key = NoKey
  BY <1>1, MonitoringAssumption DEF NoRequest, RequestRow, RequestStages, Known3
<1>3. request' = [request EXCEPT ![x] = r]
  BY <1>1
<1>4. \A k \in IdempotencyKey : r.key = k /\ counted'[k] = 1 => r.at = "complete"
  BY <1>2, MonitoringAssumption
<1>5. /\ UNCHANGED <<space, failedArchives>> /\ alert' \in [AlertKey -> Severity]
      /\ capacity' \in [at : Nat, level : Level] /\ health' \in [at : Nat, failed : Known3]
      /\ DOMAIN counted' = IdempotencyKey
      /\ \A k \in IdempotencyKey : counted'[k] = counted[k]
  BY DEF MonitoringIInv
<1>6. r.now \in {0, request[x].now} /\ r.key \in {NoKey, request[x].key}
  BY <1>2
<1> QED
  BY ZenonT(30), <1>2, <1>3, <1>4, <1>5, <1>6, RequestSteps

\* The request has done its work, and nothing of its key is left to count.
LEMMA DoneKeeps ==
    ASSUME MonitoringIInv, NEW x \in Caller, request[x].at # "complete",
           request' = [request EXCEPT ![x] = [NoRequest("complete") EXCEPT !.key = request[x].key]],
           health' \in [at : Nat, failed : Known3], alert' \in [AlertKey -> Severity],
           counted' = counted \/
             counted' = [k \in IdempotencyKey |-> IF k = request[x].key THEN counted[k] + 1 ELSE counted[k]],
           UNCHANGED <<space, failedArchives, capacity, keyed>>
    PROVE  MonitoringIInv'
<1>0. request[x] \in RequestRow
  BY DEF MonitoringIInv
<1>1. PICK r : r = [NoRequest("complete") EXCEPT !.key = request[x].key]
  OBVIOUS
<1>2. r \in RequestRow /\ r.now = 0 /\ r.key = request[x].key /\ r.at = "complete"
  BY <1>0, <1>1, MonitoringAssumption DEF NoRequest, RequestRow, RequestStages, Known3
<1>3. request' = [request EXCEPT ![x] = r]
  BY <1>1
<1>4. DOMAIN counted' = IdempotencyKey
  BY DEF MonitoringIInv
<1>5. ASSUME NEW k \in IdempotencyKey
      PROVE  counted'[k] = counted[k] \/ (k = request[x].key /\ counted'[k] \in {0, 1})
  <2>0. counted'[k] = counted[k] \/ counted'[k] = IF k = request[x].key THEN counted[k] + 1 ELSE counted[k]
    OBVIOUS
  <2>1. CASE k = request[x].key
    <3>1. counted[k] = 0
      BY <2>1, NothingCounted
    <3> QED
      BY <2>0, <2>1, <3>1
  <2>2. CASE k # request[x].key
    <3>1. counted[k] \in {0, 1}
      BY DEF MonitoringIInv, KeyOnce
    <3> QED
      BY <2>0, <2>2, <3>1
  <2> QED
    BY <2>1, <2>2
<1>6. /\ UNCHANGED <<space, failedArchives>>
      /\ capacity' \in [at : Nat, level : Level]
      /\ keyed' \in [IdempotencyKey -> {"none", "running", "succeeded", "failed"}]
      /\ \A k \in IdempotencyKey : keyed'[k] = "none" => keyed[k] = "none"
  BY DEF MonitoringIInv
<1>7. r.now \in {0, request[x].now} /\ r.key \in {NoKey, request[x].key}
  BY <1>2
<1>8. \A k \in IdempotencyKey : r.key = k /\ counted'[k] = 1 => r.at = "complete"
  BY <1>2
<1>9. \A k \in IdempotencyKey : \/ counted'[k] = counted[k]
                                \/ k = request[x].key /\ counted'[k] \in {0, 1}
  BY <1>5
<1>10. health' \in [at : Nat, failed : Known3] /\ alert' \in [AlertKey -> Severity]
  OBVIOUS
<1> QED
  BY ZenonT(60), <1>2, <1>3, <1>4, <1>6, <1>7, <1>8, <1>9, <1>10, RequestSteps

LEMMA CollectingKeeps ==
    ASSUME MonitoringIInv, NEW x \in Caller,
           \/ CollectCapacity(x) \/ InsertCapacity(x)
           \/ \E known \in BOOLEAN : CollectHealth(x, known)
           \/ GetLatestCapacity(x) \/ GetLatestHealth(x)
    PROVE  MonitoringIInv'
<1>0. request[x] \in RequestRow /\ request[x].level \in Level /\ request[x].failed \in Known3
      /\ request[x].now \in Nat
  BY DEF MonitoringIInv, RequestRow
<1>1. /\ capacity.level \in Level /\ health.failed \in Known3 /\ failedArchives \in Known3 /\ NotKnown \in Known3
      /\ space \in Level /\ "healthy" \in Level
      /\ capacity \in [at : Nat, level : Level] /\ health \in [at : Nat, failed : Known3]
  BY MonitoringAssumption DEF MonitoringIInv, Known3
<1>2. PICK was \in Level \X Known3 : was = <<request[x].level, request[x].failed>>
  BY <1>0
<1>3. CASE CollectCapacity(x)
  <2>1. request' = [request EXCEPT ![x] = [@ EXCEPT !.at = "insert capacity", !.level = space, !.failed = was[2]]]
    BY <1>0, <1>2, <1>3 DEF CollectCapacity, RequestRow
  <2>2. request[x].at # "complete" /\ "insert capacity" \in RequestStages /\ was[2] \in Known3
    BY <1>2, <1>3 DEF CollectCapacity, RequestStages
  <2>3. UNCHANGED <<space, failedArchives, capacity, health, alert, keyed, counted>>
    BY <1>3 DEF CollectCapacity
  <2> QED
    BY <1>1, <2>1, <2>2, <2>3, CollectKeeps
<1>4. CASE InsertCapacity(x)
  <2>1. request' = [request EXCEPT ![x] = [@ EXCEPT !.at = "health", !.level = "healthy", !.failed = was[2]]]
    BY <1>0, <1>2, <1>4 DEF InsertCapacity, RequestRow
  <2>2. request[x].at # "complete" /\ "health" \in RequestStages /\ was[2] \in Known3
    BY <1>2, <1>4 DEF InsertCapacity, RequestStages
  <2>3. capacity' \in [at : Nat, level : Level]
    BY <1>0, <1>1, <1>4 DEF InsertCapacity
  <2>4. UNCHANGED <<space, failedArchives, health, alert, keyed, counted>>
    BY <1>4 DEF InsertCapacity
  <2> QED
    BY <1>1, <2>1, <2>2, <2>3, <2>4, CollectKeeps
<1>5. CASE GetLatestCapacity(x)
  <2>1. /\ request' = [request EXCEPT ![x] =
                [@ EXCEPT !.at = "latest health", !.level = capacity.level, !.failed = was[2]]]
    BY <1>0, <1>2, <1>5 DEF GetLatestCapacity, RequestRow
  <2>2. request[x].at # "complete" /\ "latest health" \in RequestStages /\ was[2] \in Known3
    BY <1>2, <1>5 DEF GetLatestCapacity, RequestStages
  <2>3. UNCHANGED <<space, failedArchives, capacity, health, alert, keyed, counted>>
    BY <1>5 DEF GetLatestCapacity
  <2> QED
    BY <1>1, <2>1, <2>2, <2>3, CollectKeeps
<1>6. CASE GetLatestHealth(x)
  <2>1. request' = [request EXCEPT ![x] = [@ EXCEPT !.at = "reconcile", !.level = was[1], !.failed = health.failed]]
    BY <1>0, <1>2, <1>6 DEF GetLatestHealth, RequestRow
  <2>2. request[x].at # "complete" /\ "reconcile" \in RequestStages /\ was[1] \in Level
    BY <1>2, <1>6 DEF GetLatestHealth, RequestStages
  <2>3. UNCHANGED <<space, failedArchives, capacity, health, alert, keyed, counted>>
    BY <1>6 DEF GetLatestHealth
  <2> QED
    BY <1>1, <2>1, <2>2, <2>3, CollectKeeps
<1>7. CASE \E known \in BOOLEAN : CollectHealth(x, known)
  <2>1. PICK failed \in Known3 : request' = [request EXCEPT ![x].at = "insert health", ![x].failed = failed]
    BY <1>1, <1>7 DEF CollectHealth
  <2>2. request' = [request EXCEPT ![x] = [@ EXCEPT !.at = "insert health", !.level = was[1], !.failed = failed]]
    BY <1>0, <1>2, <2>1 DEF RequestRow
  <2>3. request[x].at # "complete" /\ "insert health" \in RequestStages /\ was[1] \in Level
    BY <1>2, <1>7 DEF CollectHealth, RequestStages
  <2>4. UNCHANGED <<space, failedArchives, capacity, health, alert, keyed, counted>>
    BY <1>7 DEF CollectHealth
  <2> QED
    BY <1>1, <2>2, <2>3, <2>4, CollectKeeps
<1> QED
  BY <1>3, <1>4, <1>5, <1>6, <1>7

LEMMA EndingKeeps ==
    ASSUME MonitoringIInv, NEW x \in Caller,
           InsertHealth(x) \/ ReconcileAlerts(x) \/ CompleteMonitoringRun(x) \/ RequestThrows(x) \/ CallerDies(x)
    PROVE  MonitoringIInv'
<1>0. /\ request[x] \in RequestRow
      /\ request[x].level \in Level /\ request[x].failed \in Known3 /\ request[x].now \in Nat
      /\ health \in [at : Nat, failed : Known3] /\ alert \in [AlertKey -> Severity]
  BY DEF MonitoringIInv, RequestRow
<1>1. CASE InsertHealth(x)
  <2>1. health' \in [at : Nat, failed : Known3] /\ alert' \in [AlertKey -> Severity]
    BY <1>0, <1>1 DEF InsertHealth
  <2>2. request[x].at # "complete"
    BY <1>1 DEF InsertHealth
  <2> QED
    BY <1>1, <2>1, <2>2, DoneKeeps DEF InsertHealth
<1>2. CASE ReconcileAlerts(x)
  <2>1. alert' \in [AlertKey -> Severity]
    BY <1>0, <1>2 DEF ReconcileAlerts, Reconciled, DesiredAlerts, Severity
  <2>2. request[x].at # "complete" /\ health' \in [at : Nat, failed : Known3]
    BY <1>0, <1>2 DEF ReconcileAlerts
  <2> QED
    BY <1>2, <2>1, <2>2, DoneKeeps DEF ReconcileAlerts
<1>3. ASSUME NEW status \in {"succeeded", "failed"}, EndOf(x, status) PROVE MonitoringIInv'
  <2>1. /\ keyed' \in [IdempotencyKey -> {"none", "running", "succeeded", "failed"}]
        /\ \A k \in IdempotencyKey : keyed'[k] = "none" => keyed[k] = "none"
    BY <1>3 DEF EndOf, MonitoringIInv
  <2> QED
    BY <1>3, <2>1, EndKeeps DEF EndOf
<1>4. CASE CallerDies(x)
  <2>1. keyed' \in [IdempotencyKey -> {"none", "running", "succeeded", "failed"}] /\ keyed' = keyed
    BY <1>4 DEF CallerDies, MonitoringIInv
  <2> QED
    BY <1>4, <2>1, EndKeeps DEF CallerDies
<1> QED
  BY <1>1, <1>2, <1>3, <1>4 DEF CompleteMonitoringRun, RequestThrows

LEMMA StartingKeeps ==
    ASSUME MonitoringIInv, NEW x \in Caller, NEW k \in IdempotencyKey \cup {NoKey},
           RunSnapshot(x, k) \/ RunEvaluate(x, k)
    PROVE  MonitoringIInv'
<1>1. Cardinality(Stamps) + 1 \in Nat
  BY RanksApart
<1>2. CASE RunSnapshot(x, k)
  <2>1. PICK new : new = [NoRequest("capacity") EXCEPT !.now = Cardinality(Stamps) + 1]
    OBVIOUS
  <2>2. new \in RequestRow /\ new.now = Cardinality(Stamps) + 1
    BY <1>1, <2>1, MonitoringAssumption DEF NoRequest, RequestRow, RequestStages, Known3
  <2>3. StartMonitoringRun(x, k, new)
    BY <1>2, <2>1 DEF RunSnapshot
  <2> QED
    BY <2>2, <2>3, StartKeeps
<1>3. CASE RunEvaluate(x, k)
  <2>1. PICK new : new = NoRequest("latest capacity")
    OBVIOUS
  <2>2. new \in RequestRow /\ new.now = 0
    BY <2>1, MonitoringAssumption DEF NoRequest, RequestRow, RequestStages, Known3
  <2>3. StartMonitoringRun(x, k, new)
    BY <1>3, <2>1 DEF RunEvaluate
  <2> QED
    BY <2>2, <2>3, StartKeeps
<1> QED
  BY <1>2, <1>3

LEMMA MonitoringStepKeeps == MonitoringIInv /\ [MonitoringNext]_monitoringVars => MonitoringIInv'
<1> SUFFICES ASSUME MonitoringIInv, [MonitoringNext]_monitoringVars PROVE MonitoringIInv'
  OBVIOUS
<1>1. ASSUME UNCHANGED <<capacity, health, alert, keyed, counted, request>>,
             space' \in Level, failedArchives' \in BOOLEAN
      PROVE  MonitoringIInv'
  <2>1. TimesApart' /\ \A k \in IdempotencyKey : KeyOnce(k)'
    BY <1>1 DEF MonitoringIInv, TimesApart, KeyOnce
  <2> QED
    BY <1>1, <2>1 DEF MonitoringIInv
<1>2. CASE UNCHANGED monitoringVars
  BY <1>1, <1>2 DEF monitoringVars, MonitoringIInv
<1>3. CASE World
  BY <1>1, <1>3 DEF World, ArchivesChange, SpaceChanges, MonitoringIInv
<1>4. ASSUME NEW x \in Caller, MonitoringStep(x) \/ MonitoringFault(x) PROVE MonitoringIInv'
  BY <1>4, CollectingKeeps, EndingKeeps DEF MonitoringStep, MonitoringFault
<1>5. ASSUME NEW x \in Caller, NEW k \in IdempotencyKey \cup {NoKey}, RunSnapshot(x, k) \/ RunEvaluate(x, k)
      PROVE  MonitoringIInv'
  BY <1>5, StartingKeeps
<1> QED
  BY <1>2, <1>3, <1>4, <1>5 DEF MonitoringNext

\* Monitoring records what it was asked to (MonitoringInv): a key, however often
\* it is sent and whatever fails, is counted in the alerts at most once.
THEOREM AKeyCountsOnce == MonitoringSpec => []MonitoringInv
<1>1. MonitoringSpec => []MonitoringIInv
  BY InitMonitoring, MonitoringStepKeeps, PTL DEF MonitoringSpec
<1> QED
  BY <1>1, MonitoringIInvImplies, PTL

-----------------------------------------------------------------------------
(* Raw payloads.  What carries the proof is the end of the days of grace: from   *)
(* then on no request is at work on the row and none can claim it, so that a      *)
(* sweeper that has checked the object may rely on it.                         *)

ArchiveRow == [status : {"none", "pending", "uploading", "verified", "failed"},
               leased : BOOLEAN, backoff : BOOLEAN, grace : {"none", "running", "over"}]
ArchiveStages == {"idle", "down", "enqueue", "read", "put", "check", "mark", "fail", "lost"}

\* A request that is at work has something to work on.
BusyHasWork ==
    /\ \A w \in Archiver : Resting(w) <=> archiver[w].snapshots = {}
    /\ \A x \in Sweeper : sweeper[x].at = "idle" <=> sweeper[x].snapshots = {}

\* When a verified row's days of grace are over, nobody is at work on it.
Settled(s) == archive[s].status = "verified" /\ archive[s].grace = "over"
SettledIsQuiet ==
    \A s \in Snapshot : Settled(s) => \A w \in Archiver : s \notin archiver[w].snapshots

\* What is about to be removed, or was, can be read back for good.
Kept(s) == Settled(s) /\ object[s] = "good"
LockedIsKept ==
    \A x \in Sweeper : sweeper[x].at = "locked" => Kept(OldestOf(sweeper[x].snapshots))
RemovedIsKept == \A s \in Snapshot : ~payload[s] => Kept(s)

KeptInv == RawTypeOK /\ BusyHasWork /\ SettledIsQuiet /\ LockedIsKept /\ RemovedIsKept

\* The oldest of some snapshots is one of them,
LEMMA OldestIsOne ==
    ASSUME NEW S \in SUBSET Snapshot, S # {}
    PROVE  OldestOf(S) \in S
<1>1. S \in SUBSET Nat
  BY RawArchiveAssumption
<1>2. \E s \in S : \A t \in S : s <= t
  BY <1>1, LeastNat
<1> QED
  BY <1>2 DEF OldestOf

\* and one of the oldest when there is room for one.
LEMMA OldestOfMany ==
    ASSUME NEW most \in Nat \ {0}, NEW S \in SUBSET Snapshot
    PROVE  Oldest(most, S) \subseteq S /\ (S # {} => Oldest(most, S) # {})
<1>1. S \in SUBSET Nat
  BY RawArchiveAssumption
<1>2. ASSUME S # {}
      PROVE  Oldest(most, S) # {}
  <2>1. PICK least \in S : \A t \in S : least <= t
    BY <1>1, <1>2, LeastNat
  <2>2. {t \in S : t < least} = {}
    <3>1. \A t \in S : t \in Nat /\ least <= t
      BY <1>1, <2>1
    <3>2. \A t \in S : ~(t < least)
      BY <3>1, <2>1
    <3> QED
      BY <3>2
  <2>3. Cardinality({t \in S : t < least}) = 0
    BY <2>2, FS_EmptySet
  <2> QED
    BY <2>3 DEF Oldest
<1> QED
  BY <1>2 DEF Oldest

LEMMA InitKept == RawInit => KeptInv
BY RawArchiveAssumption
DEF RawInit, KeptInv, RawTypeOK, NoRow, AtRest, BusyHasWork, Resting, SettledIsQuiet, Settled, LockedIsKept,
    RemovedIsKept

\* Nobody works on a row whose days of grace are over, so a step on a row that
\* somebody works on leaves it.
LEMMA WorkIsNotKept ==
    ASSUME KeptInv, NEW w \in Archiver, ~Resting(w)
    PROVE  /\ OldestOf(archiver[w].snapshots) \in archiver[w].snapshots
           /\ OldestOf(archiver[w].snapshots) \in Snapshot
           /\ \A s \in archiver[w].snapshots : ~Settled(s)
<1>1. archiver[w].snapshots \in SUBSET Snapshot /\ archiver[w].snapshots # {}
  BY DEF KeptInv, RawTypeOK, BusyHasWork
<1> QED
  BY <1>1, OldestIsOne DEF KeptInv, SettledIsQuiet

\* A step of an archiver with rows that nobody may remove yet.
LEMMA WorkKeeps ==
    ASSUME KeptInv, NEW w \in Archiver, NEW task, NEW s \in Snapshot,
           ~Settled(s),
           archiver' = [archiver EXCEPT ![w] = task],
           task \in [at : ArchiveStages, snapshots : SUBSET Snapshot],
           task.at \in {"idle", "down"} <=> task.snapshots = {},
           \A t \in task.snapshots : ~Settled(t),
           archive' = archive \/ \E row \in ArchiveRow :
               /\ archive' = [archive EXCEPT ![s] = row]
               /\ row.status # "verified" \/ row.grace # "over",
           object' = object \/ \E o \in {"good", "bad"} : object' = [object EXCEPT ![s] = o],
           damage' \in 0..MaxDamage,
           UNCHANGED <<payload, sweeper>>
    PROVE  KeptInv'
<1> USE DEF KeptInv
<1>1. RawTypeOK'
  <2>1. archive' \in [Snapshot -> ArchiveRow]
    BY DEF RawTypeOK, ArchiveRow
  <2>2. object' \in [Snapshot -> {"none", "good", "bad"}]
    BY DEF RawTypeOK
  <2>3. archiver' \in [Archiver -> [at : ArchiveStages, snapshots : SUBSET Snapshot]]
    BY DEF RawTypeOK, ArchiveStages
  <2> QED
    BY <2>1, <2>2, <2>3 DEF RawTypeOK, ArchiveRow, ArchiveStages
<1>2. \A v \in Archiver : archiver'[v] = IF v = w THEN task ELSE archiver[v]
  BY DEF RawTypeOK
<1>3. /\ \A t \in Snapshot : t # s => archive'[t] = archive[t] /\ object'[t] = object[t]
      /\ ~Settled(s)'
  BY DEF RawTypeOK, Settled
<1>4. BusyHasWork'
  BY <1>2 DEF BusyHasWork, Resting
<1>5. \A t \in Snapshot : Settled(t) <=> Settled(t)'
  BY <1>3 DEF Settled
<1>6. SettledIsQuiet'
  BY <1>2, <1>3, <1>5 DEF SettledIsQuiet
<1>7. \A t \in Snapshot : Kept(t) => t # s /\ Kept(t)'
  BY <1>3, <1>5 DEF Kept
<1>8. LockedIsKept'
  <2> SUFFICES ASSUME NEW x \in Sweeper, sweeper[x].at = "locked"
               PROVE  Kept(OldestOf(sweeper[x].snapshots))'
    BY DEF LockedIsKept
  <2>1. PICK t : t = OldestOf(sweeper[x].snapshots)
    OBVIOUS
  <2>2. t \in Snapshot
    BY <2>1, OldestIsOne DEF RawTypeOK, BusyHasWork
  <2>3. Kept(t)'
    BY <1>7, <2>1, <2>2 DEF LockedIsKept
  <2> QED
    BY <2>1, <2>3
<1>9. RemovedIsKept'
  BY <1>7 DEF RemovedIsKept
<1> QED
  BY <1>1, <1>4, <1>6, <1>8, <1>9


-----------------------------------------------------------------------------
\* Every step of an archiver, those that fail included.
LEMMA ArchiverKeeps ==
    ASSUME KeptInv, NEW w \in Archiver,
           ArchiverStep(w) \/ UploadDamages(w) \/ StoreRequestFails(w) \/ ArchiverDies(w)
    PROVE  KeptInv'
<1> USE RawArchiveAssumption
<1> DEFINE Task == [at : ArchiveStages, snapshots : SUBSET Snapshot]
           batch == archiver[w].snapshots
<1>1. RawTypeOK /\ archiver[w] \in Task /\ archive \in [Snapshot -> ArchiveRow]
  BY DEF KeptInv, RawTypeOK, ArchiveStages, ArchiveRow
<1>2. damage \in 0..MaxDamage
  BY <1>1 DEF RawTypeOK
<1>3. AtRest \in Task /\ Down \in Task
  BY DEF AtRest, Down, ArchiveStages
<1>4. CASE StartEnqueue(w)
  <2>1. PICK new : /\ new = Oldest(EnqueueLimit, {s \in Snapshot : archive[s].status = "none"})
                   /\ new # {}
                   /\ archiver' = [archiver EXCEPT ![w] = [at |-> "enqueue", snapshots |-> new]]
                   /\ UNCHANGED <<payload, archive, object, sweeper, damage>>
    BY <1>4 DEF StartEnqueue
  <2>2. new \subseteq {s \in Snapshot : archive[s].status = "none"}
    BY <2>1, OldestOfMany
  <2>3. PICK s \in Snapshot : s \in new /\ ~Settled(s)
    BY <2>1, <2>2 DEF Settled
  <2>4. \A t \in new : ~Settled(t)
    BY <2>2 DEF Settled
  <2>5. PICK task : task = [at |-> "enqueue", snapshots |-> new]
    OBVIOUS
  <2>6. /\ task \in Task /\ task.snapshots = new /\ task.at \notin {"idle", "down"}
        /\ archiver' = [archiver EXCEPT ![w] = task]
    BY <2>1, <2>2, <2>5 DEF ArchiveStages
  <2> QED
    BY <1>2, <2>1, <2>3, <2>4, <2>6, WorkKeeps
<1>5. CASE ClaimArchive(w)
  <2>1. PICK claimable : /\ claimable = {s \in Snapshot : Claimable(s) /\ ~RowLocked(s)} /\ claimable # {}
                   /\ archive' = [archive EXCEPT ![OldestOf(claimable)] =
                                    [@ EXCEPT !.status = "uploading", !.leased = TRUE]]
                   /\ archiver' = [archiver EXCEPT ![w] =
                                     [at |-> "read", snapshots |-> {OldestOf(claimable)}]]
                   /\ UNCHANGED <<payload, object, sweeper, damage>>
    BY <1>5 DEF ClaimArchive
  <2>2. PICK s : s = OldestOf(claimable)
    OBVIOUS
  <2>3. s \in claimable
    BY <2>1, <2>2, OldestIsOne
  <2>4. s \in Snapshot /\ ~Settled(s)
    BY <2>1, <2>3 DEF Claimable, Settled
  <2>5. PICK row : row = [archive[s] EXCEPT !.status = "uploading", !.leased = TRUE]
    OBVIOUS
  <2>6. row \in ArchiveRow /\ row.status # "verified"
    BY ZenonT(30), <1>1, <2>4, <2>5 DEF ArchiveRow
  <2>7. archive' = [archive EXCEPT ![s] = row]
    BY <2>1, <2>2, <2>5
  <2>8. PICK task : task = [at |-> "read", snapshots |-> {s}]
    OBVIOUS
  <2>9. /\ task \in Task /\ task.snapshots = {s} /\ task.at \notin {"idle", "down"}
        /\ archiver' = [archiver EXCEPT ![w] = task]
    BY <2>1, <2>2, <2>4, <2>8 DEF ArchiveStages
  <2>10. \A t \in task.snapshots : ~Settled(t)
    BY <2>4, <2>9
  <2>11. task.at \in {"idle", "down"} <=> task.snapshots = {}
    BY <2>9
  <2>12. archive' = archive \/ \E r \in ArchiveRow :
            /\ archive' = [archive EXCEPT ![s] = r]
            /\ r.status # "verified" \/ r.grace # "over"
    BY <2>6, <2>7
  <2>13. UNCHANGED <<payload, object, sweeper, damage>>
    BY <1>5 DEF ClaimArchive
  <2>14. object' = object /\ damage' \in 0..MaxDamage /\ UNCHANGED <<payload, sweeper>>
    BY <1>2, <2>13
  <2> QED
    BY <2>4, <2>9, <2>10, <2>11, <2>12, <2>14, WorkKeeps
\* The others work on the oldest they have.
<1>6. ASSUME ~Resting(w)
      PROVE  \E s \in Snapshot :
               /\ s = OldestOf(batch) /\ s \in batch
               /\ \A t \in batch : ~Settled(t)
  BY <1>6, WorkIsNotKept
<1>7. CASE EnqueueNext(w)
  <2>1. PICK s \in Snapshot : s = OldestOf(batch) /\ s \in batch /\ \A t \in batch : ~Settled(t)
    BY <1>6, <1>7 DEF EnqueueNext, Resting
  <2>2. PICK task : /\ task = IF batch \ {s} = {} THEN AtRest
                              ELSE [at |-> "enqueue", snapshots |-> batch \ {s}]
                    /\ archiver' = [archiver EXCEPT ![w] = task]
    BY <1>7, <2>1 DEF EnqueueNext
  <2>3. /\ task \in Task /\ task.snapshots \subseteq batch
        /\ task.at \in {"idle", "down"} <=> task.snapshots = {}
    BY <1>1, <1>3, <2>2 DEF AtRest, ArchiveStages
  <2>4. PICK row : row = [archive[s] EXCEPT !.status = "pending"]
    OBVIOUS
  <2>5. row \in ArchiveRow /\ row.status # "verified"
    BY <1>1, <2>4 DEF ArchiveRow
  <2>6. archive' = archive \/ archive' = [archive EXCEPT ![s] = row]
    BY <1>7, <2>1, <2>4 DEF EnqueueNext
  <2>7. UNCHANGED <<payload, object, sweeper, damage>>
    BY <1>7 DEF EnqueueNext
  <2> QED
    BY <1>2, <2>1, <2>2, <2>3, <2>5, <2>6, <2>7, WorkKeeps
\* A step to another stage of the same work, which may store an object.
<1>8. ASSUME ~Resting(w), NEW at \in ArchiveStages \ {"idle", "down"}, ArchiverGoesTo(w, at),
             object' = object \/ \E o \in {"good", "bad"} : object' = [object EXCEPT ![OldestOf(batch)] = o],
             damage' \in 0..MaxDamage, UNCHANGED <<payload, archive, sweeper>>
      PROVE  KeptInv'
  <2>1. PICK s \in Snapshot : s = OldestOf(batch) /\ s \in batch /\ \A t \in batch : ~Settled(t)
    BY <1>6, <1>8
  <2>2. PICK task : task = [archiver[w] EXCEPT !.at = at]
    OBVIOUS
  <2>3. task \in Task /\ task.snapshots = batch /\ task.at = at
    BY <1>1, <2>2 DEF ArchiveStages
  <2>4. archiver' = [archiver EXCEPT ![w] = task]
    BY <1>8, <2>2 DEF ArchiverGoesTo
  <2> QED
    BY <1>8, <2>1, <2>3, <2>4, WorkKeeps
<1>9. CASE ReadRawPayload(w)
  <2>1. PICK at \in ArchiveStages \ {"idle", "down"} : ArchiverGoesTo(w, at)
    BY <1>9 DEF ReadRawPayload, ArchiveStages
  <2> QED
    BY <1>2, <1>8, <1>9, <2>1 DEF ReadRawPayload, Resting
<1>10. CASE CheckUpload(w)
  <2>1. PICK at \in ArchiveStages \ {"idle", "down"} : ArchiverGoesTo(w, at)
    BY <1>10 DEF CheckUpload, ArchiveStages
  <2> QED
    BY <1>2, <1>8, <1>10, <2>1 DEF CheckUpload, Resting
<1>11. CASE UploadPayload(w)
  <2>1. "check" \in ArchiveStages \ {"idle", "down"}
    BY DEF ArchiveStages
  <2> QED
    BY <1>2, <1>8, <1>11, <2>1 DEF UploadPayload, Resting
<1>12. CASE UploadDamages(w)
  <2>1. PICK at \in ArchiveStages \ {"idle", "down"} : ArchiverGoesTo(w, at)
    BY <1>12 DEF UploadDamages, ArchiveStages
  <2>2. damage' \in 0..MaxDamage
    BY <1>2, <1>12 DEF UploadDamages
  <2> QED
    BY <1>8, <1>12, <2>1, <2>2 DEF UploadDamages, Resting
<1>13. CASE StoreRequestFails(w)
  <2>1. "lost" \in ArchiveStages \ {"idle", "down"}
    BY DEF ArchiveStages
  <2> QED
    BY <1>2, <1>8, <1>13, <2>1 DEF StoreRequestFails, Resting
\* A step that ends the work, with or without a word on the row.
<1>14. ASSUME ~Resting(w), NEW task \in {AtRest, Down}, archiver' = [archiver EXCEPT ![w] = task],
              \/ archive' = archive
              \/ \E row \in ArchiveRow : /\ archive' = [archive EXCEPT ![OldestOf(batch)] = row]
                                         /\ row.status # "verified" \/ row.grace # "over",
              UNCHANGED <<payload, object, sweeper, damage>>
       PROVE  KeptInv'
  <2>1. PICK s \in Snapshot : s = OldestOf(batch) /\ s \in batch /\ \A t \in batch : ~Settled(t)
    BY <1>6, <1>14
  <2>2. task \in Task /\ task.snapshots = {} /\ task.at \in {"idle", "down"}
    BY <1>3, <1>14 DEF AtRest, Down
  <2> QED
    BY <1>2, <1>14, <2>1, <2>2, WorkKeeps
<1>15. CASE MarkVerified(w)
  <2>1. PICK s \in Snapshot : s = OldestOf(batch)
    BY <1>6, <1>15 DEF MarkVerified, Resting
  <2>2. PICK row : row = [archive[s] EXCEPT !.status = "verified", !.leased = FALSE, !.grace = "running"]
    OBVIOUS
  <2>3. row \in ArchiveRow /\ row.grace # "over"
    BY ZenonT(60), <1>1, <2>2 DEF ArchiveRow
  <2>4. archive' = [archive EXCEPT ![s] = row]
    BY <1>15, <2>1, <2>2 DEF MarkVerified
  <2> QED
    BY <1>14, <1>15, <2>1, <2>3, <2>4 DEF MarkVerified, ArchiverRests, Resting
<1>16. CASE MarkFailed(w)
  <2>1. PICK s \in Snapshot : s = OldestOf(batch)
    BY <1>6, <1>16 DEF MarkFailed, Resting
  <2>2. PICK row : row = FailedRow(archive[s])
    OBVIOUS
  <2>3. row \in ArchiveRow /\ row.status # "verified"
    BY ZenonT(60), <1>1, <2>2 DEF ArchiveRow, FailedRow
  <2>4. archive' = [archive EXCEPT ![s] = row]
    BY <1>16, <2>1, <2>2 DEF MarkFailed
  <2> QED
    BY <1>14, <1>16, <2>1, <2>3, <2>4 DEF MarkFailed, ArchiverRests, Resting
<1>17. CASE ArchiverDies(w)
  BY <1>14, <1>17 DEF ArchiverDies
<1> QED
  BY <1>4, <1>5, <1>7, <1>9, <1>10, <1>11, <1>12, <1>13, <1>15, <1>16, <1>17 DEF ArchiverStep


-----------------------------------------------------------------------------
\* Leases, backoffs and days of grace end.
LEMMA TimeKeeps ==
    ASSUME KeptInv, NEW s \in Snapshot, ArchiveLeaseEnds(s) \/ RetryDue(s) \/ GraceEnds(s)
    PROVE  KeptInv'
<1> USE DEF KeptInv
<1>1. RawTypeOK /\ UNCHANGED <<payload, object, archiver, sweeper, damage>>
  BY DEF ArchiveLeaseEnds, RetryDue, GraceEnds
<1>2. archive \in [Snapshot -> ArchiveRow]
  BY <1>1 DEF RawTypeOK, ArchiveRow
<1>3. PICK row \in ArchiveRow :
        /\ archive' = [archive EXCEPT ![s] = row] /\ row.status = archive[s].status
        /\ \/ row.grace = archive[s].grace
           \/ /\ archive[s].grace = "running" /\ row.grace = "over"
              /\ \A w \in Archiver : ~WorksOn(w, s)
  <2>1. CASE ArchiveLeaseEnds(s)
    <3>1. [archive[s] EXCEPT !.leased = FALSE] \in ArchiveRow
      BY <1>2 DEF ArchiveRow
    <3> QED
      BY <1>2, <2>1, <3>1 DEF ArchiveLeaseEnds, ArchiveRow
  <2>2. CASE RetryDue(s)
    <3>1. [archive[s] EXCEPT !.backoff = FALSE] \in ArchiveRow
      BY <1>2 DEF ArchiveRow
    <3> QED
      BY <1>2, <2>2, <3>1 DEF RetryDue, ArchiveRow
  <2>3. CASE GraceEnds(s)
    <3>1. [archive[s] EXCEPT !.grace = "over"] \in ArchiveRow
      BY <1>2 DEF ArchiveRow
    <3> QED
      BY <1>2, <2>3, <3>1 DEF GraceEnds, ArchiveRow
  <2> QED
    BY <2>1, <2>2, <2>3
<1>4. RawTypeOK'
  <2>1. archive' \in [Snapshot -> ArchiveRow]
    BY <1>2, <1>3
  <2> QED
    BY <1>1, <2>1 DEF RawTypeOK, ArchiveRow
<1>5. /\ archive'[s] = row
      /\ \A t \in Snapshot : t # s => archive'[t] = archive[t]
  BY <1>2, <1>3
<1>6. \A t \in Snapshot : Settled(t) => Settled(t)'
  BY <1>3, <1>5 DEF Settled
<1>7. BusyHasWork'
  BY <1>1 DEF BusyHasWork, Resting
<1>8. SettledIsQuiet'
  <2>1. CASE row.grace = archive[s].grace
    BY <1>1, <1>3, <1>5, <2>1 DEF SettledIsQuiet, Settled
  <2>2. CASE \A w \in Archiver : ~WorksOn(w, s)
    <3>1. \A w \in Archiver : s \notin archiver[w].snapshots
      BY <2>2 DEF WorksOn, BusyHasWork
    <3> QED
      BY <1>1, <1>5, <3>1 DEF SettledIsQuiet, Settled
  <2> QED
    BY <1>3, <2>1, <2>2
<1>9. \A t \in Snapshot : Kept(t) => Kept(t)'
  BY <1>1, <1>6 DEF Kept
<1>10. LockedIsKept'
  <2> SUFFICES ASSUME NEW x \in Sweeper, sweeper[x].at = "locked"
               PROVE  Kept(OldestOf(sweeper[x].snapshots))'
    BY <1>1 DEF LockedIsKept
  <2>1. PICK t : t = OldestOf(sweeper[x].snapshots)
    OBVIOUS
  <2>2. t \in Snapshot
    BY <1>1, <2>1, OldestIsOne DEF RawTypeOK, BusyHasWork
  <2>3. Kept(t)'
    BY <1>9, <2>1, <2>2 DEF LockedIsKept
  <2> QED
    BY <1>1, <2>1, <2>3
<1>11. RemovedIsKept'
  BY <1>1, <1>9 DEF RemovedIsKept
<1> QED
  BY <1>4, <1>7, <1>8, <1>10, <1>11

\* A sweep removes only what it has just checked under the lock of the row.
LEMMA SweeperKeeps ==
    ASSUME KeptInv, NEW x \in Sweeper, SweeperStep(x) \/ RemovalFails(x)
    PROVE  KeptInv'
<1> USE DEF KeptInv
<1> DEFINE Sweep == [at : {"idle", "sweep", "locked"}, snapshots : SUBSET Snapshot]
           batch == sweeper[x].snapshots
<1>1. RawTypeOK /\ sweeper[x] \in Sweep /\ AtRest \in Sweep
  BY DEF RawTypeOK, AtRest
<1>2. UNCHANGED <<archive, object, archiver, damage>>
  BY DEF SweeperStep, StartSweep, Recheck, RemovePayload, RemovalFails
<1>3. \A rest : rest = batch \ {OldestOf(batch)} =>
        (IF rest = {} THEN AtRest ELSE [at |-> "sweep", snapshots |-> rest]) \in Sweep
  BY <1>1
\* It goes on as it may, and is at a row only when that is kept.
<1>4. PICK task \in Sweep :
        /\ sweeper' = [sweeper EXCEPT ![x] = task]
        /\ task.at = "idle" <=> task.snapshots = {}
        /\ task.at = "locked" => task.snapshots = batch /\ Kept(OldestOf(batch))
  <2>1. ASSUME SweepNextAfter(x)
        PROVE  \E task \in Sweep :
                 /\ sweeper' = [sweeper EXCEPT ![x] = task]
                 /\ task.at = "idle" <=> task.snapshots = {}
                 /\ task.at # "locked"
    <3>1. PICK rest : rest = batch \ {OldestOf(batch)}
      OBVIOUS
    <3>2. PICK task : task = IF rest = {} THEN AtRest ELSE [at |-> "sweep", snapshots |-> rest]
      OBVIOUS
    <3>3. task \in Sweep /\ (task.at = "idle" <=> task.snapshots = {}) /\ task.at # "locked"
      BY <1>3, <3>1, <3>2 DEF AtRest
    <3>4. sweeper' = [sweeper EXCEPT ![x] = task]
      BY <2>1, <3>1, <3>2 DEF SweepNextAfter
    <3> QED
      BY <3>3, <3>4
  <2>2. CASE StartSweep(x)
    <3>1. PICK chosen : /\ chosen \in SUBSET Snapshot /\ chosen # {}
                        /\ sweeper' = [sweeper EXCEPT ![x] = [at |-> "sweep", snapshots |-> chosen]]
      <4>1. PICK scanned : scanned = Oldest(ScanLimit, {s \in Snapshot : payload[s]})
        OBVIOUS
      <4>2. scanned \in SUBSET Snapshot
        BY <4>1 DEF Oldest
      <4>3. PICK chosen : chosen = Oldest(SweepBatch, {s \in scanned : Removable(s)})
        OBVIOUS
      <4>4. chosen \in SUBSET Snapshot
        BY <4>2, <4>3 DEF Oldest
      <4> QED
        BY <2>2, <4>1, <4>3, <4>4 DEF StartSweep
    <3>2. PICK task : task = [at |-> "sweep", snapshots |-> chosen]
      OBVIOUS
    <3>3. task \in Sweep /\ task.at # "idle" /\ task.at # "locked" /\ task.snapshots # {}
      BY <3>1, <3>2
    <3> QED
      BY <3>1, <3>2, <3>3
  <2>3. CASE Recheck(x)
    <3>1. batch # {}
      BY <2>3 DEF Recheck, BusyHasWork
    <3>2. PICK s : s = OldestOf(batch) /\ s \in Snapshot
      BY <1>1, <3>1, OldestIsOne
    <3>3. CASE sweeper' = [sweeper EXCEPT ![x].at = "locked"] /\ Removable(s) /\ Reverified(s)
      <4>1. PICK task : task = [sweeper[x] EXCEPT !.at = "locked"]
        OBVIOUS
      <4>2. task \in Sweep /\ task.at = "locked" /\ task.snapshots = batch
        BY <1>1, <4>1
      <4>3. Kept(OldestOf(batch))
        BY <3>2, <3>3 DEF Removable, Reverified, Kept, Settled
      <4>4. sweeper' = [sweeper EXCEPT ![x] = task]
        BY <3>3, <4>1
      <4> QED
        BY <3>1, <4>2, <4>3, <4>4
    <3> QED
      BY <2>1, <2>3, <3>2, <3>3 DEF Recheck
  <2>4. CASE RemovePayload(x)
    BY <2>1, <2>4 DEF RemovePayload
  <2>5. CASE RemovalFails(x)
    BY <1>1, <2>1, <2>5 DEF RemovalFails, AtRest
  <2> QED
    BY <2>2, <2>3, <2>4, <2>5 DEF SweeperStep
<1>5. \A y \in Sweeper : sweeper'[y] = IF y = x THEN task ELSE sweeper[y]
  BY <1>1, <1>4 DEF RawTypeOK
<1>6. \A s \in Snapshot : payload'[s] = payload[s] \/ Kept(s)
  <2>1. CASE RemovePayload(x)
    <3>1. Kept(OldestOf(batch))
      BY <2>1 DEF RemovePayload, LockedIsKept
    <3> QED
      BY <1>1, <2>1, <3>1 DEF RemovePayload, RawTypeOK
  <2>2. CASE ~RemovePayload(x)
    BY <2>2 DEF SweeperStep, StartSweep, Recheck, RemovalFails
  <2> QED
    BY <2>1, <2>2
<1>7. RawTypeOK'
  <2>1. payload' \in [Snapshot -> BOOLEAN]
    BY <1>1 DEF SweeperStep, StartSweep, Recheck, RemovalFails, RemovePayload, RawTypeOK
  <2>2. sweeper' \in [Sweeper -> Sweep]
    BY <1>1, <1>4 DEF RawTypeOK
  <2> QED
    BY <1>1, <1>2, <2>1, <2>2 DEF RawTypeOK
<1>8. BusyHasWork' /\ SettledIsQuiet'
  BY <1>2, <1>4, <1>5 DEF BusyHasWork, Resting, SettledIsQuiet, Settled
<1>9. \A s : Kept(s)' <=> Kept(s)
  BY <1>2 DEF Kept, Settled
<1>10. LockedIsKept'
  <2> SUFFICES ASSUME NEW y \in Sweeper, sweeper'[y].at = "locked"
               PROVE  Kept(OldestOf(sweeper[y].snapshots)) /\ sweeper'[y].snapshots = sweeper[y].snapshots
    BY <1>2 DEF LockedIsKept, Kept, Settled
  <2> QED
    BY <1>4, <1>5 DEF LockedIsKept
<1>11. RemovedIsKept'
  BY <1>6, <1>9 DEF RemovedIsKept
<1> QED
  BY <1>7, <1>8, <1>10, <1>11

\* The only copy of a payload is never one that cannot be restored: no archiver
\* that lost its lease, no damaged upload and no second sweep undoes that.
THEOREM PayloadsAreKept == RawSpec => []RawInv
<1>1. KeptInv /\ [RawNext]_rawVars => KeptInv'
  <2> SUFFICES ASSUME KeptInv, [RawNext]_rawVars PROVE KeptInv'
    OBVIOUS
  <2>1. CASE UNCHANGED rawVars
    BY <2>1 DEF rawVars, KeptInv, RawTypeOK, BusyHasWork, Resting, SettledIsQuiet, Settled,
                LockedIsKept, RemovedIsKept, Kept
  <2> QED
    BY <2>1, ArchiverKeeps, SweeperKeeps, TimeKeeps DEF RawNext, RawFault, RawTime
<1>2. KeptInv => RawInv
  BY DEF KeptInv, RemovedIsKept, Kept, Settled, RawInv, RemovedIsArchived
<1> QED
  BY <1>1, <1>2, InitKept, PTL DEF RawSpec

-----------------------------------------------------------------------------
(* Capacity.  Snapshots are taken one after the other, so a rate is a change   *)
(* by a time that has passed; what the forecast claims are facts about such    *)
(* fractions.                                                                *)

SizeRow == [at : Nat, size : Nat]

CapacityFacts ==
    /\ limit \in Limits
    /\ snapshots \in Seq(SizeRow) /\ Len(snapshots) > 0
    /\ \A i, j \in 1..Len(snapshots) : i < j => snapshots[i].at > snapshots[j].at

\* A row in front of the others keeps the order.
LEMMA RowInFront ==
  ASSUME CapacityAssumption, CapacityFacts, NEW wait \in Interval, NEW change \in Change, TakeSnapshot(wait, change)
  PROVE  CapacityFacts'
<1>1. PICK row : row = [at |-> Latest.at + wait, size |-> Latest.size + change]
  OBVIOUS
<1>2. snapshots' = <<row>> \o snapshots /\ limit' = limit
  BY <1>1 DEF TakeSnapshot, Cons
<1>3. Latest = snapshots[1] /\ Latest \in SizeRow
  BY DEF Latest, CapacityFacts
<1>4. wait \in Nat \ {0} /\ change \in Int /\ Latest.at \in Nat /\ Latest.size \in Nat
  BY <1>3 DEF CapacityAssumption, SizeRow
<1>5. row.at \in Nat /\ row.at > Latest.at /\ row.size \in Nat /\ row \in SizeRow
  BY <1>1, <1>4 DEF TakeSnapshot, SizeRow
<1>6. snapshots \in Seq(SizeRow) /\ <<row>> \in Seq(SizeRow) /\ Len(<<row>>) = 1 /\ <<row>>[1] = row
      /\ Len(snapshots) \in Nat
  BY <1>5 DEF CapacityFacts
<1>7. /\ snapshots' \in Seq(SizeRow) /\ Len(snapshots') = 1 + Len(snapshots)
      /\ \A i \in 1..1 + Len(snapshots) :
            snapshots'[i] = IF i <= 1 THEN <<row>>[i] ELSE snapshots[i - 1]
  BY <1>2, <1>6, ConcatProperties
<1>8. ASSUME NEW i \in 1..Len(snapshots'), NEW j \in 1..Len(snapshots'), i < j
      PROVE  snapshots'[i].at > snapshots'[j].at
  <2>0. j \in 1..1 + Len(snapshots) /\ j > 1 /\ j - 1 \in 1..Len(snapshots)
    BY <1>6, <1>7, <1>8
  <2>1. j - 1 \in 1..Len(snapshots) /\ snapshots'[j] = snapshots[j - 1] /\ snapshots[j - 1].at \in Nat
    <3>1. snapshots'[j] = snapshots[j - 1]
      BY <1>7, <2>0
    <3>2. snapshots[j - 1] \in SizeRow
      BY <1>6, <2>0
    <3> QED
      BY <2>0, <3>1, <3>2 DEF SizeRow
  <2>2. CASE i = 1
    <3>1. snapshots'[i] = row
      BY <1>6, <1>7, <2>2
    <3>2. j - 1 = 1 \/ snapshots[1].at > snapshots[j - 1].at
      BY <1>6, <2>1 DEF CapacityFacts
    <3> QED
      BY <1>3, <1>4, <1>5, <2>1, <3>1, <3>2
  <2>3. CASE i # 1
    <3>1. i - 1 \in 1..Len(snapshots) /\ snapshots'[i] = snapshots[i - 1] /\ i - 1 < j - 1
      BY <1>6, <1>7, <1>8, <2>3
    <3> QED
      BY <2>1, <3>1 DEF CapacityFacts
  <2> QED
    BY <2>2, <2>3
<1> QED
  BY <1>2, <1>6, <1>7, <1>8 DEF CapacityFacts

LEMMA CapacityInitFacts == CapacityAssumption /\ CapacityInit => CapacityFacts
<1> SUFFICES ASSUME CapacityAssumption, CapacityInit PROVE CapacityFacts
  OBVIOUS
<1>1. PICK size \in FirstSize : snapshots = <<[at |-> 0, size |-> size]>>
  BY DEF CapacityInit
<1>2. [at |-> 0, size |-> size] \in SizeRow
  BY DEF CapacityAssumption, SizeRow
<1>3. snapshots \in Seq(SizeRow) /\ Len(snapshots) = 1
  BY <1>1, <1>2
<1> QED
  BY <1>3 DEF CapacityFacts, CapacityInit

LEMMA CapacityNextFacts == CapacityAssumption /\ CapacityFacts /\ [CapacityNext]_capacityVars => CapacityFacts'
<1> SUFFICES ASSUME CapacityAssumption, CapacityFacts, [CapacityNext]_capacityVars PROVE CapacityFacts'
  OBVIOUS
<1>1. CASE \E l \in Limits : SetLimit(l)
  BY <1>1 DEF SetLimit, CapacityFacts
<1>2. CASE UNCHANGED capacityVars
  BY <1>2 DEF capacityVars, CapacityFacts
<1> QED
  BY <1>1, <1>2, RowInFront DEF CapacityNext

\* Rows of the history are rows taken before the newest.
LEMMA HistoryRows ==
  ASSUME CapacityAssumption, CapacityFacts
  PROVE  /\ DOMAIN History = 1..Len(History) /\ Len(History) \in Nat
         /\ \A i \in DOMAIN History : History[i] \in SizeRow /\ Latest.at > History[i].at
         /\ Latest \in SizeRow
<1>1. PICK n \in Nat : n = Len(snapshots) /\ n > 0
  BY DEF CapacityFacts
<1>2. HistoryLimit + 1 \in Nat /\ HistoryLimit >= 1
  BY DEF CapacityAssumption
<1>3. PICK m : m = Min({Len(snapshots), HistoryLimit + 1})
  OBVIOUS
<1>4. m \in {n, HistoryLimit + 1} /\ m <= n
  <2>1. \E x \in {n, HistoryLimit + 1} : \A y \in {n, HistoryLimit + 1} : x <= y
    BY <1>1, <1>2
  <2>2. m = CHOOSE x \in {n, HistoryLimit + 1} : \A y \in {n, HistoryLimit + 1} : x <= y
    BY <1>1, <1>3 DEF Min
  <2> QED
    BY <2>1, <2>2
<1>5. m \in Int /\ m >= 1 /\ History = SubSeq(snapshots, 2, m)
  BY <1>1, <1>2, <1>3, <1>4 DEF History
<1>6. \A i \in 2..m : snapshots[i] \in SizeRow
  BY <1>1, <1>4, <1>5 DEF CapacityFacts
<1>7. /\ History \in Seq(SizeRow) /\ Len(History) = IF 2 <= m THEN m - 2 + 1 ELSE 0
      /\ \A i \in 1..m - 2 + 1 : History[i] = snapshots[2 + i - 1]
  BY <1>5, <1>6, SubSeqProperties
<1>8. ASSUME NEW i \in 1..Len(History)
      PROVE  History[i] \in SizeRow /\ Latest.at > History[i].at
  <2>1. i \in 1..m - 2 + 1 /\ i + 1 \in 2..m /\ i + 1 \in 1..n /\ 2 + i - 1 = i + 1 /\ 1 \in 1..n /\ 1 < i + 1
    BY <1>1, <1>4, <1>5, <1>7
  <2>2. History[i] = snapshots[i + 1]
    BY <1>7, <2>1
  <2>3. Latest = snapshots[1]
    BY DEF Latest, CapacityFacts
  <2> QED
    BY <1>1, <1>6, <2>1, <2>2, <2>3 DEF CapacityFacts
<1>9. DOMAIN History = 1..Len(History) /\ Len(History) \in Nat /\ Latest \in SizeRow
  BY <1>7 DEF CapacityFacts, Latest
<1> QED
  BY <1>8, <1>9

\* A rate that is not missing is the change since a row of the history.
RateSince(r, i) ==
    r = <<2 * (Latest.size - History[i].size), Latest.at - History[i].at>>

LEMMA RatesAreSinceRows ==
  ASSUME CapacityAssumption, CapacityFacts, NEW target \in Nat, NEW tolerance \in Nat,
         GrowthRate(target, tolerance) # NoRate
  PROVE  \E i \in DOMAIN History : RateSince(GrowthRate(target, tolerance), i)
<1> DEFINE close == {i \in DOMAIN History : Off(History[i], target) <= tolerance}
           nearest == {i \in close : \A j \in close : Off(History[i], target) <= Off(History[j], target)}
           offs == {Off(History[i], target) : i \in close}
<1>1. close # {} /\ GrowthRate(target, tolerance) =
        <<2 * (Latest.size - History[Min(nearest)].size), Latest.at - History[Min(nearest)].at>>
  BY DEF GrowthRate
<1>2. \A i \in DOMAIN History : Off(History[i], target) \in Nat
  <2> SUFFICES ASSUME NEW i \in DOMAIN History PROVE Off(History[i], target) \in Nat
    OBVIOUS
  <2>1. Latest.at \in Nat /\ History[i].at \in Nat
    BY HistoryRows DEF SizeRow
  <2>2. PICK d : d = Latest.at - History[i].at - target
    OBVIOUS
  <2>3. d \in Int /\ Off(History[i], target) = IF d < 0 THEN -d ELSE d
    BY <2>1, <2>2 DEF Off
  <2> QED
    BY <2>3
<1>3. PICK least \in offs : \A x \in offs : least <= x
  <2>1. offs \in SUBSET Nat
    BY <1>2
  <2>2. offs # {}
    BY <1>1
  <2> HIDE DEF offs
  <2> QED
    BY <2>1, <2>2, LeastNat
<1>4. PICK i \in close : least = Off(History[i], target)
  OBVIOUS
<1>5. i \in nearest
  BY <1>3, <1>4
<1>6. nearest \in SUBSET Nat /\ nearest \subseteq DOMAIN History
  BY HistoryRows
<1> HIDE DEF nearest
<1>7. PICK x \in nearest : \A y \in nearest : x <= y
  BY <1>5, <1>6, LeastNat
<1>8. Min(nearest) \in nearest
  BY <1>7 DEF Min
<1> QED
  BY <1>1, <1>6, <1>8 DEF RateSince

\* So it is a fraction, with the sign of the change.
LEMMA RatesAreFractions ==
  ASSUME CapacityAssumption, CapacityFacts, NEW r, NEW i \in DOMAIN History, RateSince(r, i)
  PROVE  /\ r \in Int \X (Nat \ {0})
         /\ r[1] = 2 * (Latest.size - History[i].size)
<1>1. /\ Latest.size \in Nat /\ Latest.at \in Nat /\ History[i].size \in Nat /\ History[i].at \in Nat
      /\ Latest.at > History[i].at
  BY HistoryRows DEF SizeRow
<1>2. Latest.at - History[i].at \in Nat \ {0} /\ 2 * (Latest.size - History[i].size) \in Int
  BY <1>1
<1> QED
  BY <1>2 DEF RateSince

LEMMA LongRatesAreRates ==
  ASSUME CapacityAssumption, CapacityFacts
  PROVE  /\ \A r \in LongRates : \E i \in DOMAIN History : RateSince(r, i)
         /\ DailyRate # NoRate => \E i \in DOMAIN History : RateSince(DailyRate, i)
         /\ \A r \in LongRates : r \in Int \X (Nat \ {0})
<1>1. \A r \in LongRates : \E i \in DOMAIN History : RateSince(r, i)
  BY RatesAreSinceRows DEF LongRates
<1> QED
  BY <1>1, RatesAreSinceRows, RatesAreFractions DEF DailyRate

\* Of the long rates one is the largest.
LEMMA LargestOfLong ==
  ASSUME CapacityAssumption, CapacityFacts, LongRates # {}
  PROVE  \E m \in LongRates : /\ \A q \in LongRates : ~LessThan(m, q)
                              /\ ConservativeRate = Larger(Zero, m)
<1> DEFINE m == CHOOSE r \in LongRates : \A q \in LongRates : ~LessThan(r, q)
<1>1. \E r \in LongRates : \A q \in LongRates : ~LessThan(r, q)
  <2>1. PICK a, b : LongRates = {a, b} \ {NoRate}
    BY DEF LongRates
  <2>2. \A r \in LongRates : r[1] \in Int /\ r[2] \in Int
    BY LongRatesAreRates
  <2>3. \A r, q \in LongRates : ~LessThan(r, r) /\ (LessThan(r, q) => ~LessThan(q, r))
    <3> SUFFICES ASSUME NEW r \in LongRates, NEW q \in LongRates
                 PROVE  ~LessThan(r, r) /\ (LessThan(r, q) => ~LessThan(q, r))
      OBVIOUS
    <3>1. r[1] * q[2] \in Int /\ q[1] * r[2] \in Int /\ r[1] * r[2] \in Int
      BY <2>2
    <3> QED
      BY <3>1 DEF LessThan
  <2>4. CASE a \in LongRates /\ b \in LongRates
    BY <2>1, <2>3, <2>4
  <2>5. CASE a \notin LongRates \/ b \notin LongRates
    BY <2>1, <2>3, <2>5
  <2> QED
    BY <2>4, <2>5
<1>2. m \in LongRates /\ \A q \in LongRates : ~LessThan(m, q)
  BY <1>1
<1>3. ConservativeRate = Larger(Zero, m)
  BY DEF ConservativeRate
<1> QED
  BY <1>2, <1>3

\* The rate that is reckoned with is none, zero, or a measured one that is above zero.
LEMMA ConservativeRates ==
  ASSUME CapacityAssumption, CapacityFacts, ConservativeRate # NoRate
  PROVE  /\ ConservativeRate \in Nat \X (Nat \ {0})
         /\ ConservativeRate[1] > 0 =>
               \E i \in DOMAIN History : RateSince(ConservativeRate, i)
<1>1. ASSUME NEW r, NEW i \in DOMAIN History, RateSince(r, i)
      PROVE  /\ Larger(Zero, r) \in Nat \X (Nat \ {0})
             /\ Larger(Zero, r)[1] > 0 => Larger(Zero, r) = r
  <2>1. r \in Int \X (Nat \ {0}) /\ r[1] \in Int /\ r[2] \in Nat
    BY <1>1, RatesAreFractions
  <2>2. LessThan(Zero, r) <=> r[1] > 0
    BY <2>1 DEF LessThan, Zero
  <2> QED
    BY <2>1, <2>2 DEF Larger, Zero
<1>2. CASE LongRates # {}
  <2>1. PICK m \in LongRates : ConservativeRate = Larger(Zero, m)
    BY <1>2, LargestOfLong
  <2>2. PICK i \in DOMAIN History : RateSince(m, i)
    BY LongRatesAreRates
  <2> QED
    BY <1>1, <2>1, <2>2
<1>3. CASE LongRates = {}
  <2>1. DailyRate # NoRate /\ ConservativeRate = Larger(Zero, DailyRate)
    BY <1>3 DEF ConservativeRate
  <2>2. PICK i \in DOMAIN History : RateSince(DailyRate, i)
    BY <2>1, LongRatesAreRates
  <2> QED
    BY <1>1, <2>1, <2>2
<1> QED
  BY <1>2, <1>3

\* Without a limit nothing is claimed; when the free space is gone that is enough.
LEMMA FullHolds ==
  ASSUME CapacityAssumption, CapacityFacts
  PROVE  FullIsCritical
<1>1. limit \in Nat /\ Latest.size \in Nat
  BY HistoryRows DEF CapacityAssumption, CapacityFacts, SizeRow
<1>2. ASSUME limit # 0, Latest.size >= limit PROVE FreeBelow(20)
  BY <1>1, <1>2 DEF FreeBelow, FreeSpace
<1> QED
  BY <1>2 DEF FullIsCritical, ForecastStatus

\* A rate is no larger than the largest, and a limit that is nearer at the one is
\* at least as near at the other.
LEMMA FasterIsSooner ==
  ASSUME NEW left \in Int, NEW days \in Nat, NEW n \in Int, NEW d \in Nat \ {0},
         NEW m \in Int, NEW e \in Nat \ {0}, n * e <= m * d, left * d < days * n
  PROVE  left * e < days * m
<1>1. /\ days * (n * e) <= days * (m * d)
      /\ (left * d) * e < (days * n) * e
  <2>1. \A a, b \in Int, k \in Nat : a <= b => k * a <= k * b
    OBVIOUS
  <2>2. \A a, b \in Int, k \in Nat \ {0} : a < b => a * k < b * k
    OBVIOUS
  <2>3. n * e \in Int /\ m * d \in Int /\ left * d \in Int /\ days * n \in Int
    OBVIOUS
  <2> QED
    BY <2>1, <2>2, <2>3
<1>2. (left * e) * d < (days * m) * d
  BY <1>1
<1>3. left * e \in Int /\ days * m \in Int
  OBVIOUS
<1>4. \A a, b \in Int, k \in Nat \ {0} : a * k < b * k => a < b
  OBVIOUS
<1> QED
  BY ONLY <1>2, <1>3, <1>4, d \in Nat \ {0}

LEMMA HeadroomHolds ==
  ASSUME CapacityAssumption, CapacityFacts
  PROVE  HeadroomPolicy
<1>1. limit \in Nat /\ Latest.size \in Nat
  BY HistoryRows DEF CapacityAssumption, CapacityFacts, SizeRow
<1>2. PICK left \in Int : left = FreeSpace /\ left = limit - Latest.size
  BY <1>1 DEF FreeSpace
<1>3. ASSUME limit # 0, NEW r \in LongRates, Latest.size * r[2] + 30 * r[1] > limit * r[2]
      PROVE  ForecastStatus = "critical"
  <2>1. PICK n \in Int, d \in Nat \ {0} : n = r[1] /\ d = r[2]
    BY LongRatesAreRates
  <2>2. left * d < 30 * n
    BY <1>1, <1>2, <1>3, <2>1
  <2>3. CASE n <= 0
    <3>1. left * d < 0
      BY <1>2, <2>2, <2>3
    <3>2. left < 0
      BY <3>1
    <3> QED
      BY <1>1, <1>2, <1>3, <3>2 DEF ForecastStatus, FreeBelow
  <2>4. CASE n > 0
    <3>1. PICK q \in LongRates : (\A p \in LongRates : ~LessThan(q, p)) /\ ConservativeRate = Larger(Zero, q)
      BY LargestOfLong
    <3>2. PICK m \in Int, e \in Nat \ {0} : m = q[1] /\ e = q[2] /\ q = <<m, e>>
      BY LongRatesAreRates
    <3>3. n * e <= m * d
      <4>1. ~LessThan(q, r)
        BY <3>1
      <4>2. n * e \in Int /\ m * d \in Int /\ ~(m * d < n * e)
        BY <2>1, <3>2, <4>1 DEF LessThan
      <4> QED
        BY <4>2
    <3>4. m > 0
      <4>1. n * e > 0
        BY <2>4
      <4>2. m * d > 0
        BY <3>3, <4>1
      <4> QED
        BY <4>2
    <3>5. ConservativeRate = q
      BY <3>1, <3>2, <3>4 DEF Larger, LessThan, Zero
    <3>6. left * e < 30 * m
      BY <2>2, <3>3, FasterIsSooner
    <3>7. Growing
      BY <3>2, <3>4, <3>5 DEF Growing, NoRate, Zero
    <3>8. LimitWithin(30)
      BY <1>2, <1>3, <3>2, <3>5, <3>6, <3>7 DEF LimitWithin
    <3> QED
      BY <1>3, <3>8 DEF ForecastStatus
  <2> QED
    BY <2>3, <2>4
<1>4. ASSUME limit # 0, ForecastStatus = "healthy" PROVE 10 * FreeSpace >= 3 * limit
  <2>1. ~FreeBelow(30)
    BY <1>4 DEF ForecastStatus
  <2> QED
    BY <1>1, <1>2, <1>4, <2>1 DEF FreeBelow
<1> QED
  BY <1>3, <1>4 DEF HeadroomPolicy

LEMMA ShrinkingHolds ==
  ASSUME CapacityAssumption, CapacityFacts
  PROVE  ShrinkingIsNotImminent
<1> SUFFICES ASSUME \A i \in DOMAIN History : History[i].size >= Latest.size PROVE ~Growing
  BY DEF ShrinkingIsNotImminent, LimitWithin
<1>1. ASSUME Growing PROVE FALSE
  <2>1. PICK i \in DOMAIN History : RateSince(ConservativeRate, i)
    BY <1>1, ConservativeRates DEF Growing
  <2>2. ConservativeRate[1] = 2 * (Latest.size - History[i].size)
    BY <2>1, RatesAreFractions
  <2>3. History[i].size \in Nat /\ Latest.size \in Nat /\ History[i].size >= Latest.size
    BY HistoryRows DEF SizeRow
  <2> QED
    BY <1>1, <2>2, <2>3 DEF Growing
<1> QED
  BY <1>1

LEMMA ForecastsHold ==
  ASSUME CapacityAssumption, CapacityFacts
  PROVE  ForecastsAgree
<1> SUFFICES ASSUME NEW days \in {30, 90, 365}, limit # 0, Growing
             PROVE  Projected(days) > limit * ConservativeRate[2] <=> LimitWithin(days)
  BY DEF ForecastsAgree
<1>1. limit \in Nat /\ Latest.size \in Nat
  BY HistoryRows DEF CapacityAssumption, CapacityFacts, SizeRow
<1>2. PICK n \in Nat, d \in Nat \ {0} : n = ConservativeRate[1] /\ d = ConservativeRate[2]
  BY ConservativeRates DEF Growing
<1>3. Latest.size * d + days * n > limit * d <=> (limit - Latest.size) * d < days * n
  BY <1>1, <1>2
<1> QED
  BY <1>2, <1>3 DEF Projected, LimitWithin, FreeSpace

LEMMA CapacityFactsSuffice == CapacityAssumption /\ CapacityFacts => CapacityInv
<1> SUFFICES ASSUME CapacityAssumption, CapacityFacts PROVE CapacityInv
  OBVIOUS
<1>1. CapacityTypeOK
  <2>1. PICK n \in Nat : n = Len(snapshots) /\ DOMAIN snapshots = 1..n
    BY DEF CapacityFacts
  <2>2. \A i \in 1..n : snapshots[i].at \in Nat /\ snapshots[i].size \in Nat
    <3>1. \A i \in 1..n : snapshots[i] \in SizeRow
      BY <2>1 DEF CapacityFacts
    <3> QED
      BY <3>1 DEF SizeRow
  <2>3. ASSUME NEW i \in 1..n - 1 PROVE snapshots[i].at > snapshots[i + 1].at
    <3>1. i \in 1..n /\ i + 1 \in 1..n /\ i < i + 1
      BY <2>1
    <3> QED
      BY <2>1, <3>1 DEF CapacityFacts
  <2> QED
    BY <2>1, <2>2, <2>3 DEF CapacityTypeOK, CapacityFacts
<1> QED
  BY <1>1, FullHolds, HeadroomHolds, ShrinkingHolds, ForecastsHold DEF CapacityInv

\* What is forecast of the database follows from the snapshots, whatever they are: a
\* full one is critical, no measured rate that fills it in a month is ignored, one
\* that was never smaller is not about to be full, and both forecasts agree.
THEOREM CapacityHolds == CapacitySpec => []CapacityInv
<1>1. CapacityInit => CapacityFacts
  BY CapacityAssumption, CapacityInitFacts
<1>2. CapacityFacts /\ [CapacityNext]_capacityVars => CapacityFacts'
  BY CapacityAssumption, CapacityNextFacts
<1>3. CapacityFacts => CapacityInv
  BY CapacityAssumption, CapacityFactsSuffice
<1> QED
  BY <1>1, <1>2, <1>3, PTL DEF CapacitySpec

-----------------------------------------------------------------------------
(* Tiers.  What a sum over a finite set is: a function that picks one member   *)
(* after the other, which exists.                                             *)

AnyOf(s) == CHOOSE x \in s : TRUE

SumsOver(f, v, T) ==
    f = [s \in T |-> IF s = {} THEN 0 ELSE v[AnyOf(s)] + f[s \ {AnyOf(s)}]]

\* The subsets with at most n members.
OfSize(S, n) == {s \in SUBSET S : Cardinality(s) <= n}

LEMMA SmallerSubset ==
  ASSUME NEW S, IsFiniteSet(S), NEW s \in SUBSET S, s # {}, NEW x, x = AnyOf(s)
  PROVE  /\ x \in s /\ x \in S /\ s \ {x} \in SUBSET S
         /\ Cardinality(s) \in Nat /\ Cardinality(s) > 0
         /\ Cardinality(s \ {x}) = Cardinality(s) - 1
<1>1. x \in s
  BY DEF AnyOf
<1>2. IsFiniteSet(s)
  BY FS_Subset
<1>3. Cardinality(s) \in Nat /\ Cardinality(s) # 0
  BY <1>2, FS_CardinalityType, FS_EmptySet
<1>4. Cardinality(s \ {x}) = Cardinality(s) - 1
  BY <1>1, <1>2, FS_RemoveElement
<1> QED
  BY <1>1, <1>3, <1>4

LEMMA SumsOverExist ==
  ASSUME NEW S, IsFiniteSet(S), NEW v
  PROVE  \E f : SumsOver(f, v, SUBSET S)
<1> DEFINE Bad == {n \in Nat : ~ \E f : SumsOver(f, v, OfSize(S, n))}
<1>1. ASSUME Bad # {} PROVE FALSE
  <2>1. PICK n \in Bad : \A m \in Bad : n <= m
    BY <1>1, LeastNat
  <2>2. n # 0
    <3>1. \A s \in OfSize(S, 0) : s = {}
      <4> SUFFICES ASSUME NEW s \in SUBSET S, Cardinality(s) <= 0 PROVE s = {}
        BY DEF OfSize
      <4>1. IsFiniteSet(s)
        BY FS_Subset
      <4> QED
        BY <4>1, FS_CardinalityType, FS_EmptySet
    <3>2. PICK f : f = [s \in OfSize(S, 0) |-> 0]
      OBVIOUS
    <3>3. SumsOver(f, v, OfSize(S, 0))
      BY <3>1, <3>2 DEF SumsOver
    <3> QED
      BY <2>1, <3>3
  <2>3. n - 1 \in Nat /\ n \in Nat /\ n - 1 \notin Bad
    BY <2>1, <2>2
  <2>4. PICK f : SumsOver(f, v, OfSize(S, n - 1))
    BY <2>3
  <2>5. PICK g : g = [s \in OfSize(S, n) |->
                        IF s = {} THEN 0 ELSE v[AnyOf(s)] + f[s \ {AnyOf(s)}]]
    OBVIOUS
  <2>6. \A s \in OfSize(S, n - 1) : s \in OfSize(S, n) /\ g[s] = f[s]
    <3> SUFFICES ASSUME NEW s \in OfSize(S, n - 1) PROVE s \in OfSize(S, n) /\ g[s] = f[s]
      OBVIOUS
    <3>1. IsFiniteSet(s) /\ s \in SUBSET S /\ Cardinality(s) <= n - 1
      BY FS_Subset DEF OfSize
    <3>2. s \in OfSize(S, n)
      BY <2>3, <3>1, FS_CardinalityType DEF OfSize
    <3> QED
      BY <2>4, <2>5, <3>2 DEF SumsOver
  <2>7. ASSUME NEW s \in OfSize(S, n), s # {}, NEW x, x = AnyOf(s)
        PROVE  f[s \ {x}] = g[s \ {x}]
    <3>1. s \in SUBSET S /\ Cardinality(s) <= n
      BY DEF OfSize
    <3>2. /\ s \ {x} \in SUBSET S /\ Cardinality(s) \in Nat
          /\ Cardinality(s \ {x}) = Cardinality(s) - 1
      BY <2>7, <3>1, SmallerSubset
    <3>3. Cardinality(s \ {x}) <= n - 1
      BY <2>3, <3>1, <3>2
    <3>4. s \ {x} \in OfSize(S, n - 1)
      BY <3>2, <3>3 DEF OfSize
    <3> QED
      BY <2>6, <3>4
  <2>8. SumsOver(g, v, OfSize(S, n))
    <3>1. \A s \in OfSize(S, n) : s # {} => f[s \ {AnyOf(s)}] = g[s \ {AnyOf(s)}]
      BY <2>7
    <3> QED
      BY ONLY <2>5, <3>1 DEF SumsOver
  <2> QED
    BY <2>1, <2>8
<1>2. Cardinality(S) \notin Bad /\ Cardinality(S) \in Nat
  BY <1>1, FS_CardinalityType
<1>3. OfSize(S, Cardinality(S)) = SUBSET S
  BY FS_Subset DEF OfSize
<1> QED
  BY <1>2, <1>3

\* It is a number no smaller than any it adds.
LEMMA SumsOverBound ==
  ASSUME NEW S, IsFiniteSet(S), NEW v \in [S -> Nat], NEW f, SumsOver(f, v, SUBSET S)
  PROVE  f[S] \in Nat /\ \A y \in S : f[S] >= v[y]
<1> DEFINE Good(s) == f[s] \in Nat /\ \A y \in s : f[s] >= v[y]
           Bad == {n \in Nat : \E s \in SUBSET S : Cardinality(s) = n /\ ~Good(s)}
<1>1. ASSUME Bad # {} PROVE FALSE
  <2>1. PICK n \in Bad : \A m \in Bad : n <= m
    BY <1>1, LeastNat
  <2>2. PICK s \in SUBSET S : Cardinality(s) = n /\ ~Good(s)
    BY <2>1
  <2>3. s # {}
    BY <2>2 DEF SumsOver
  <2>4. PICK x : x = AnyOf(s)
    OBVIOUS
  <2>5. /\ x \in s /\ x \in S /\ s \ {x} \in SUBSET S /\ n \in Nat /\ n > 0
        /\ Cardinality(s \ {x}) = n - 1
    BY <2>2, <2>3, <2>4, SmallerSubset
  <2>6. n - 1 \in Nat /\ n - 1 \notin Bad
    BY <2>1, <2>5
  <2>7. Good(s \ {x})
    BY <2>5, <2>6
  <2>8. f[s] = v[x] + f[s \ {x}]
    BY <2>3, <2>4 DEF SumsOver
  <2>9. v[x] \in Nat /\ f[s \ {x}] \in Nat
    BY <2>5, <2>7
  <2>10. ASSUME NEW y \in s PROVE f[s] >= v[y]
    <3>1. y \in S /\ v[y] \in Nat
      OBVIOUS
    <3>2. y = x \/ f[s \ {x}] >= v[y]
      BY <2>7
    <3> QED
      BY <2>8, <2>9, <3>1, <3>2
  <2>11. f[s] \in Nat
    BY <2>8, <2>9
  <2> QED
    BY <2>2, <2>10, <2>11
<1>2. Cardinality(S) \in Nat /\ Cardinality(S) \notin Bad
  BY <1>1, FS_CardinalityType
<1> QED
  BY <1>2


TiersFacts ==
    /\ data \in [Ranked -> Figures]
    /\ shown \in [Ranked -> [tier : 0..5, score : Nat]]
    /\ anyPublished \in BOOLEAN

\* The total is no less than the battles of any brawler.
LEMMA TotalOfSlots ==
  ASSUME TiersAssumption, TiersFacts
  PROVE  SlotTotal \in Nat /\ \A b \in Ranked : SlotTotal >= data[b].matches
<1> DEFINE v == [b \in Ranked |-> data[b].matches]
           Picks(f) == f = [s \in SUBSET Ranked |->
                              IF s = {} THEN 0 ELSE data[AnyOf(s)].matches + f[s \ {AnyOf(s)}]]
           f == CHOOSE f : Picks(f)
<1>1. v \in [Ranked -> Nat] /\ \A b \in Ranked : v[b] = data[b].matches
  BY DEF TiersAssumption, TiersFacts
<1>2. \A s \in SUBSET Ranked : s # {} => v[AnyOf(s)] = data[AnyOf(s)].matches
  BY DEF AnyOf
<1> HIDE DEF v
<1>3. \A g : SumsOver(g, v, SUBSET Ranked) <=> Picks(g)
  BY <1>2 DEF SumsOver
<1>4. Picks(f)
  <2>1. \E g : Picks(g)
    BY <1>3, SumsOverExist DEF TiersAssumption
  <2> HIDE DEF Picks
  <2> QED
    BY <2>1
<1>5. SlotTotal = f[Ranked]
  BY DEF SlotTotal, MapThenSumSet, MapThenFoldSet, AnyOf
<1> HIDE DEF f
<1>6. SumsOver(f, v, SUBSET Ranked)
  BY <1>3, <1>4
<1> QED
  BY <1>1, <1>5, <1>6, SumsOverBound DEF TiersAssumption

LEMMA EligibleCounted ==
  ASSUME TiersAssumption, TiersFacts
  PROVE  /\ IsFiniteSet(Eligible) /\ Cardinality(Eligible) \in Nat /\ Eligible \subseteq Ranked
         /\ \A S \in SUBSET Eligible : /\ IsFiniteSet(S) /\ Cardinality(S) \in Nat
                                       /\ Cardinality(S) <= Cardinality(Eligible)
<1>1. Eligible \in SUBSET Ranked
  BY DEF Eligible
<1>2. IsFiniteSet(Eligible)
  BY <1>1, FS_Subset DEF TiersAssumption
<1> QED
  BY <1>1, <1>2, FS_Subset, FS_CardinalityType

\* Scores are numbers, those that are stored too.
LEMMA ScoresAreNumbers ==
  ASSUME TiersAssumption, TiersFacts
  PROVE  /\ \A b \in Ranked : ScoreOf[b] \in Nat
         /\ \A b \in Eligible : StoredScore(b) \in Nat
<1>1. PICK total \in Nat : total = SlotTotal /\ \A b \in Ranked : total >= data[b].matches
  BY TotalOfSlots
<1>2. ASSUME NEW b \in Ranked PROVE ScoreOf[b] \in Nat
  <2>1. PICK w \in Nat, c \in Nat, m \in Nat : w = data[b].winRate /\ c = data[b].coverage /\ m = data[b].matches
    <3>1. data[b] \in Figures
      BY DEF TiersFacts
    <3>2. data[b].matches \in Nat /\ data[b].winRate \in Nat /\ data[b].coverage \in Nat
      BY <3>1 DEF TiersAssumption
    <3> QED
      BY <3>2, Zenon
  <2>2. ScoreOf[b] = (50 * w + 20 * w + 10 * c) * total + 2000 * m
    BY <1>1, <2>1 DEF ScoreOf
  <2>3. 50 * w + 20 * w + 10 * c \in Nat
    OBVIOUS
  <2>4. \A x, y \in Nat : x * y \in Nat
    OBVIOUS
  <2>5. (50 * w + 20 * w + 10 * c) * total \in Nat /\ 2000 * m \in Nat
    BY <2>3, <2>4
  <2> QED
    BY <2>2, <2>5
<1>3. ASSUME NEW b \in Eligible PROVE StoredScore(b) \in Nat
  <2>1. b \in Ranked /\ data[b].matches \in Nat /\ data[b].matches >= WinFloor /\ WinFloor > 0 /\ WinFloor \in Nat
    BY DEF Eligible, TiersAssumption, TiersFacts
  <2>2. PICK x \in Nat : x = ScoreOf[b]
    BY <1>2, <2>1
  <2>3. total > 0
    BY <1>1, <2>1
  <2>4. StoredScore(b) = (2 * x + total) \div (2 * total)
    BY <1>1, <2>2 DEF StoredScore
  <2>5. PICK n \in Nat, d \in Nat \ {0} : n = 2 * x + total /\ d = 2 * total
    BY <2>3
  <2>6. n \div d \in Nat
    BY <2>5
  <2> QED
    BY <2>4, <2>5, <2>6
<1> QED
  BY <1>2, <1>3

\* The tier is the best whose percentile is reached, and those below are reached too.
LEMMA BestTier ==
  ASSUME TiersAssumption, NEW count \in Nat, NEW total \in Nat
  PROVE  /\ TierFor(count, total) \in Tier
         /\ \A t \in Tier : TierFor(count, total) >= t <=> 100 * count >= Cutoff[t] * total
<1> DEFINE S == {t \in Tier : 100 * count >= Cutoff[t] * total}
<1>1. /\ \A t \in 1..5 : Cutoff[t] \in 0..100
      /\ Cutoff[1] <= Cutoff[2] /\ Cutoff[2] <= Cutoff[3]
      /\ Cutoff[3] <= Cutoff[4] /\ Cutoff[4] <= Cutoff[5] /\ Cutoff[1] = 0
  BY DEF TiersAssumption
<1>2. \A t, u \in Tier : t <= u => Cutoff[t] <= Cutoff[u]
  <2> SUFFICES ASSUME NEW t \in 1..5, NEW u \in 1..5, t <= u PROVE Cutoff[t] <= Cutoff[u]
    BY DEF Tier
  <2>1. t \in {1, 2, 3, 4, 5} /\ u \in {1, 2, 3, 4, 5}
    OBVIOUS
  <2> QED
    BY SMTT(30), <1>1, <2>1
<1>3. 1 \in S
  BY <1>1 DEF Tier
<1>4. S \in SUBSET (0..5) /\ S \subseteq Tier
  BY DEF Tier
<1>5. ASSUME NEW t \in Tier, NEW u \in S, t <= u PROVE t \in S
  <2>1. PICK c \in Nat, d \in Nat : c = Cutoff[t] /\ d = Cutoff[u] /\ c <= d
    <3>1. u \in Tier /\ Cutoff[t] <= Cutoff[u]
      BY <1>2, <1>4, <1>5
    <3>2. Cutoff[t] \in Nat /\ Cutoff[u] \in Nat
      BY <1>1, <3>1 DEF Tier
    <3> QED
      BY <3>1, <3>2, Zenon
  <2>2. c * total <= d * total
    BY <2>1
  <2>3. 100 * count >= d * total
    BY <2>1
  <2>4. c * total \in Nat /\ d * total \in Nat
    OBVIOUS
  <2> QED
    BY <2>1, <2>2, <2>3, <2>4
<1>6. TierFor(count, total) = Max(S)
  BY DEF TierFor
<1>7. \A t \in Tier : t \in S <=> 100 * count >= Cutoff[t] * total
  OBVIOUS
<1> HIDE DEF S
<1>8. PICK m \in S : \A t \in S : m >= t
  BY <1>3, <1>4, GreatestNat
<1>9. Max(S) \in S /\ \A t \in S : Max(S) >= t
  BY <1>8 DEF Max
<1>10. \A t \in Tier : Max(S) >= t => t \in S
  BY <1>5, <1>9
<1> QED
  BY <1>4, <1>6, <1>7, <1>9, <1>10

LEMMA TiersAreTiers ==
  ASSUME TiersAssumption, TiersFacts, NEW b \in Eligible
  PROVE  /\ TierOf[b] \in Tier
         /\ \A t \in Tier :
              TierOf[b] >= t <=> 100 * Cardinality(AtOrBelow(b)) >= Cutoff[t] * Cardinality(Eligible)
<1>1. PICK count \in Nat : count = Cardinality(AtOrBelow(b))
  BY EligibleCounted DEF AtOrBelow
<1>2. PICK total \in Nat : total = Cardinality(Eligible)
  BY EligibleCounted
<1>3. TierOf[b] = TierFor(count, total)
  BY <1>1, <1>2 DEF TierOf
<1> QED
  BY SMTT(30), <1>1, <1>2, <1>3, BestTier

LEMMA TiersInitFacts == TiersAssumption /\ TiersInit => TiersFacts
<1> SUFFICES ASSUME TiersAssumption, TiersInit PROVE TiersFacts
  OBVIOUS
<1>1. NotShown \in [tier : 0..5, score : Nat]
  BY DEF NotShown
<1> QED
  BY <1>1 DEF TiersInit, TiersFacts

LEMMA TiersNextFacts == TiersAssumption /\ TiersFacts /\ [TiersNext]_tiersVars => TiersFacts'
<1> SUFFICES ASSUME TiersAssumption, TiersFacts, [TiersNext]_tiersVars PROVE TiersFacts'
  OBVIOUS
<1>1. ASSUME Show PROVE TiersFacts'
  <2>1. NotShown \in [tier : 0..5, score : Nat]
    BY DEF NotShown
  <2>2. ASSUME NEW b \in Eligible PROVE [tier |-> TierOf[b], score |-> StoredScore(b)] \in [tier : 0..5, score : Nat]
    BY TiersAreTiers, ScoresAreNumbers DEF Tier
  <2> QED
    BY <1>1, <2>1, <2>2 DEF Show, TiersFacts
<1>2. ASSUME NEW b \in Ranked, NEW f \in Figures, MoreBattles(b, f) PROVE TiersFacts'
  BY <1>2 DEF MoreBattles, TiersFacts
<1>3. CASE UNCHANGED tiersVars
  BY <1>3 DEF tiersVars, TiersFacts
<1> QED
  BY <1>1, <1>2, <1>3 DEF TiersNext, PublishTiers, ApproveTiers

\* Whoever is not above is at or below.
LEMMA FollowsScores ==
  ASSUME TiersAssumption, TiersFacts
  PROVE  TiersFollowScores
<1> SUFFICES ASSUME NEW b \in Eligible, NEW t \in Tier
             PROVE  TierOf[b] >= t <=>
                      100 * Cardinality({c \in Eligible : ScoreOf[c] > ScoreOf[b]})
                        <= (100 - Cutoff[t]) * Cardinality(Eligible)
  BY DEF TiersFollowScores
<1> DEFINE above == {c \in Eligible : ScoreOf[c] > ScoreOf[b]}
<1>1. \A c \in Eligible : ScoreOf[c] \in Nat
  BY ScoresAreNumbers, EligibleCounted
<1>2. AtOrBelow(b) \cap above = {} /\ AtOrBelow(b) \cup above = Eligible
  <2>1. \A c \in Eligible : ScoreOf[c] <= ScoreOf[b] <=> ~(ScoreOf[c] > ScoreOf[b])
    BY <1>1
  <2> QED
    BY <2>1 DEF AtOrBelow
<1>3. PICK low \in Nat, high \in Nat, n \in Nat :
        low = Cardinality(AtOrBelow(b)) /\ high = Cardinality(above) /\ n = Cardinality(Eligible)
  BY EligibleCounted DEF AtOrBelow
<1>4. n = low + high
  <2>1. IsFiniteSet(AtOrBelow(b)) /\ IsFiniteSet(above)
    BY EligibleCounted DEF AtOrBelow
  <2>2. Cardinality(AtOrBelow(b) \cup above) = low + high - Cardinality(AtOrBelow(b) \cap above)
    BY <1>3, <2>1, FS_Union
  <2>3. Cardinality({}) = 0
    BY FS_EmptySet
  <2> QED
    <3>1. Cardinality(AtOrBelow(b) \cap above) = 0
      BY <1>2, <2>3, Zenon
    <3>2. Cardinality(AtOrBelow(b) \cup above) = n
      BY <1>2, <1>3, Zenon
    <3> HIDE DEF above
    <3> QED
      BY <2>2, <3>1, <3>2
<1>5. PICK cut \in Nat : cut = Cutoff[t]
  BY DEF TiersAssumption, Tier
<1>6. 100 * low >= cut * n <=> 100 * high <= (100 - cut) * n
  <2>1. (100 - cut) * n = 100 * n - cut * n
    OBVIOUS
  <2>2. cut * n \in Nat
    OBVIOUS
  <2> QED
    BY <1>4, <2>1, <2>2
<1> QED
  BY <1>3, <1>5, <1>6, TiersAreTiers

\* What is said of a run that is passed over or held.
LEMMA DecisionsHold ==
  ASSUME TiersAssumption, TiersFacts
  PROVE  NoDrift /\ NewcomersDoNotHold
<1> DEFINE known == {b \in Eligible : shown[b].tier # 0}
<1>1. PICK moved \in Nat, n \in Nat, k \in Nat :
        moved = Cardinality(Moved) /\ n = Cardinality(Eligible) /\ k = Cardinality(known)
  BY EligibleCounted DEF Moved
<1>2. moved <= k
  <2>1. Moved \subseteq known /\ IsFiniteSet(known)
    BY EligibleCounted DEF Moved
  <2> QED
    BY <1>1, <2>1, FS_Subset
<1>3. ASSUME Decision = "no_change", NEW b \in Eligible
      PROVE  shown[b].tier = TierOf[b] /\ Distance(shown[b].score, StoredScore(b)) <= 100
  <2>1. ~Changed
    BY <1>3 DEF Decision
  <2>2. shown[b].score \in Nat /\ StoredScore(b) \in Nat
    BY ScoresAreNumbers, EligibleCounted DEF TiersFacts
  <2>3. PICK d \in Int : d = Distance(shown[b].score, StoredScore(b))
    BY <2>2 DEF Distance
  <2>4. shown[b].tier = TierOf[b] /\ ~(d > 100)
    BY <2>1, <2>3 DEF Changed
  <2> QED
    BY <2>3, <2>4
<1>4. ASSUME Decision = "hold"
      PROVE  4 * moved > n /\ Changed /\ \E b \in Eligible : shown[b].tier # 0
  <2>1. TooManyMoves
    BY <1>4 DEF Decision
  <2>2. 4 * moved > n
    BY <1>1, <2>1 DEF TooManyMoves
  <2>3. Moved # {}
    <3>1. Moved = {} => moved = 0
      BY <1>1, FS_EmptySet, Zenon
    <3> QED
      BY <2>2, <3>1
  <2> QED
    BY <2>2, <2>3 DEF Moved, Changed
<1>5. Decision = "hold" => k * 4 > n /\ (n >= 4 => moved > 1)
  BY <1>2, <1>4
<1> QED
  BY <1>1, <1>3, <1>4, <1>5 DEF NoDrift, NewcomersDoNotHold

LEMMA TiersFactsSuffice == TiersAssumption /\ TiersFacts => TiersInv
<1> SUFFICES ASSUME TiersAssumption, TiersFacts PROVE TiersInv
  OBVIOUS
<1>1. TiersTypeOK
  BY DEF TiersTypeOK, TiersFacts, Tier
<1> QED
  BY <1>1, FollowsScores, DecisionsHold DEF TiersInv

\* For any figures of any number of brawlers: tiers follow the scores, runs that are
\* passed over do not add up to a change that is not shown, and a run is never held
\* for brawlers that are new, nor for one that moves among four or more.
THEOREM TiersHold == TiersSpec => []TiersInv
<1>1. TiersInit => TiersFacts
  BY TiersAssumption, TiersInitFacts
<1>2. TiersFacts /\ [TiersNext]_tiersVars => TiersFacts'
  BY TiersAssumption, TiersNextFacts
<1>3. TiersFacts => TiersInv
  BY TiersAssumption, TiersFactsSuffice
<1> QED
  BY <1>1, <1>2, <1>3, PTL DEF TiersSpec

-----------------------------------------------------------------------------
(* Scores.  A fraction in lowest terms is compared as the one it was made of:   *)
(* Euclid's algorithm finds a divisor of both numbers.                         *)

Divides(g, n) == \E k \in Nat : n = g * k
Divisors(a, b) == {g \in Nat \ {0} : Divides(g, a) /\ Divides(g, b)}
GreatestOf(S) == CHOOSE g \in S : \A h \in S : h <= g

LEMMA DivMod ==
  ASSUME NEW a \in Nat, NEW d \in Nat \ {0}
  PROVE  \E q \in Nat, r \in Nat : r = a % d /\ r < d /\ a = d * q + r
<1>1. a % d \in Nat /\ a % d < d /\ a \div d \in Nat /\ a = d * (a \div d) + (a % d)
  OBVIOUS
<1> QED
  BY <1>1, Zenon

\* The divisors of two numbers are those of one and the remainder of the other.
LEMMA SameDivisors ==
  ASSUME NEW a \in Nat \ {0}, NEW b \in Nat
  PROVE  Divisors(a, b) = Divisors(b % a, a)
<1>1. PICK q \in Nat, r \in Nat : r = b % a /\ r < a /\ b = a * q + r
  BY DivMod
<1>2. ASSUME NEW g \in Nat \ {0}, Divides(g, a) PROVE Divides(g, b) <=> Divides(g, r)
  <2>1. PICK k \in Nat : a = g * k
    BY <1>2 DEF Divides
  <2>2. a * q = g * (k * q) /\ k * q \in Nat
    BY <2>1
  <2>3. ASSUME NEW l \in Nat, b = g * l PROVE Divides(g, r)
    <3>1. r = g * l - g * (k * q)
      <4>1. PICK x \in Nat, y \in Nat : x = a * q /\ y = g * l
        OBVIOUS
      <4>2. r = y - x
        <5>1. b = x + r /\ b = y
          BY <1>1, <2>3, <4>1
        <5> QED
          BY <5>1
      <4> QED
        BY <2>2, <4>1, <4>2
    <3>2. PICK j \in Nat : j = k * q
      BY <2>2
    <3>3. r = g * (l - j) /\ l - j \in Int
      <4>1. \A x, y, z \in Int : x * y - x * z = x * (y - z)
        OBVIOUS
      <4>2. r = g * l - g * j
        BY <3>1, <3>2
      <4> QED
        BY <4>1, <4>2
    <3>4. l - j >= 0
      BY <3>3
    <3> QED
      BY <3>3, <3>4 DEF Divides
  <2>4. ASSUME NEW l \in Nat, r = g * l PROVE Divides(g, b)
    <3>1. b = g * (k * q) + g * l
      BY <1>1, <2>2, <2>4
    <3>2. PICK j \in Nat : j = k * q
      BY <2>2
    <3>3. b = g * (j + l) /\ j + l \in Nat
      BY <3>1, <3>2
    <3> QED
      BY <3>3 DEF Divides
  <2> QED
    BY <2>3, <2>4 DEF Divides
<1> QED
  BY <1>1, <1>2 DEF Divisors

\* A number is the greatest divisor of itself.
LEMMA GreatestOfItself ==
  ASSUME NEW a \in Nat \ {0}, NEW b \in Nat, b % a = 0
  PROVE  GreatestOf(Divisors(a, b)) = a
<1>1. PICK q \in Nat : b = a * q
  BY DivMod
<1>2. a = a * 1 /\ 1 \in Nat
  OBVIOUS
<1>3. a \in Divisors(a, b)
  BY <1>1, <1>2 DEF Divisors, Divides
<1>4. ASSUME NEW h \in Divisors(a, b) PROVE h <= a /\ h \in Nat
  <2>1. h \in Nat \ {0} /\ \E k \in Nat : a = h * k
    BY DEF Divisors, Divides
  <2>2. PICK k \in Nat : a = h * k
    BY <2>1
  <2>3. k # 0
    BY <2>1, <2>2
  <2>4. h * k >= h * 1
    BY <2>1, <2>3
  <2> QED
    BY <2>1, <2>2, <2>4
<1>5. \A g \in Divisors(a, b) : (\A h \in Divisors(a, b) : h <= g) => g = a
  <2>1. ASSUME NEW g \in Divisors(a, b), \A h \in Divisors(a, b) : h <= g PROVE g = a
    BY <1>3, <1>4, <2>1
  <2> QED
    BY <2>1
<1> QED
  BY <1>3, <1>4, <1>5 DEF GreatestOf

\* So there is a function as GCD is defined.
LEMMA EuclidEnds ==
  \A a, b \in Nat : GCD[a][b] = IF a = 0 THEN b ELSE GCD[b % a][a]
<1> DEFINE Euclid(f) == f = [a \in Nat |-> [b \in Nat |-> IF a = 0 THEN b ELSE f[b % a][a]]]
           G == [a \in Nat |-> [b \in Nat |-> IF a = 0 THEN b ELSE GreatestOf(Divisors(a, b))]]
<1>1. \A a \in Nat \ {0}, b \in Nat : b % a \in Nat /\ GreatestOf(Divisors(a, b)) = G[b % a][a]
  <2> SUFFICES ASSUME NEW a \in Nat \ {0}, NEW b \in Nat
               PROVE  b % a \in Nat /\ GreatestOf(Divisors(a, b)) = G[b % a][a]
    OBVIOUS
  <2>1. b % a \in Nat
    BY DivMod
  <2>2. G[b % a][a] = IF b % a = 0 THEN a ELSE GreatestOf(Divisors(b % a, a))
    BY <2>1
  <2> QED
    BY <2>1, <2>2, SameDivisors, GreatestOfItself
<1>2. Euclid(G)
  <2>1. \A a, b \in Nat :
          G[a][b] = IF a = 0 THEN b ELSE G[b % a][a]
    BY <1>1
  <2>2. G = [a \in Nat |-> [b \in Nat |-> G[a][b]]]
    OBVIOUS
  <2> HIDE DEF G
  <2> QED
    BY <2>1, <2>2
<1>3. Euclid(GCD)
  <2>1. \E f : Euclid(f)
    BY <1>2
  <2>2. GCD = CHOOSE f : Euclid(f)
    BY DEF GCD
  <2> HIDE DEF Euclid
  <2> QED
    BY <2>1, <2>2
<1> QED
  BY <1>3

LEMMA EuclidDivides ==
  ASSUME NEW a \in Nat, NEW b \in Nat, a # 0 \/ b # 0
  PROVE  GCD[a][b] \in Divisors(a, b)
<1> DEFINE Good(x) == \A y \in Nat : x # 0 \/ y # 0 => GCD[x][y] \in Divisors(x, y)
           Bad == {x \in Nat : ~Good(x)}
<1>1. ASSUME Bad # {} PROVE FALSE
  <2>1. PICK x \in Bad : \A y \in Bad : x <= y
    BY <1>1, LeastNat
  <2>2. PICK y \in Nat : (x # 0 \/ y # 0) /\ GCD[x][y] \notin Divisors(x, y)
    BY <2>1
  <2>3. x \in Nat
    BY <2>1
  <2>4. CASE x = 0
    <3>1. GCD[x][y] = y /\ y # 0
      BY <2>2, <2>4, EuclidEnds
    <3>2. 0 = y * 0 /\ y = y * 1
      OBVIOUS
    <3>3. y \in Divisors(0, y)
      BY <3>1, <3>2 DEF Divisors, Divides
    <3> QED
      BY <2>2, <2>4, <3>1, <3>3
  <2>5. CASE x # 0
    <3>1. PICK r \in Nat : r = y % x /\ r < x
      BY <2>3, <2>5, DivMod
    <3>2. r \notin Bad
      BY <2>1, <2>3, <3>1
    <3>3. GCD[r][x] \in Divisors(r, x)
      BY <2>3, <2>5, <3>2
    <3>4. GCD[x][y] = GCD[r][x]
      BY <2>3, <2>5, <3>1, EuclidEnds
    <3> QED
      BY <2>2, <2>3, <2>5, <3>1, <3>3, <3>4, SameDivisors
  <2> QED
    BY <2>4, <2>5
<1> QED
  BY <1>1

\* r is the fraction of n by d, in whatever terms.
IsRate(r, n, d) == r \in Nat \X (Nat \ {0}) /\ r[1] * d = n * r[2]

LEMMA FractionIsRate ==
  ASSUME NEW n \in Nat, NEW d \in Nat \ {0}
  PROVE  IsRate(Fraction(n, d), n, d) /\ Fraction(n, d) # None
<1>1. PICK g : g = GCD[d][n] /\ g \in Divisors(d, n)
  BY EuclidDivides
<1>2. PICK p \in Nat, q \in Nat : g \in Nat \ {0} /\ d = g * q /\ n = g * p
  BY <1>1 DEF Divisors, Divides
<1>3. n \div g = p /\ d \div g = q
  <2>1. \A h \in Nat \ {0}, k \in Nat : (h * k) \div h = k
    OBVIOUS
  <2> QED
    BY <1>2, <2>1
<1>4. Fraction(n, d) = <<p, q>>
  BY <1>1, <1>3 DEF Fraction
<1>5. q # 0
  BY <1>2
<1>6. p * (g * q) = (g * p) * q
  BY <1>2
<1> QED
  BY <1>2, <1>4, <1>5, <1>6 DEF IsRate, None

\* Fractions compare as the numbers they were made of.
LEMMA RatesCompare ==
  ASSUME NEW r, NEW s, NEW n \in Nat, NEW m \in Nat, NEW d \in Nat \ {0}, NEW e \in Nat \ {0},
         IsRate(r, n, d), IsRate(s, m, e)
  PROVE  AtMost(r, s) <=> n * e <= m * d
<1>1. PICK p \in Nat, q \in Nat \ {0}, u \in Nat, v \in Nat \ {0} :
        p = r[1] /\ q = r[2] /\ u = s[1] /\ v = s[2]
  BY DEF IsRate
<1>2. p * d = n * q /\ u * e = m * v
  BY <1>1 DEF IsRate
<1>3. (p * v) * (d * e) = (n * e) * (q * v)
  <2>1. (p * v) * (d * e) = (p * d) * (v * e)
    OBVIOUS
  <2>2. (n * q) * (v * e) = (n * e) * (q * v)
    OBVIOUS
  <2> QED
    BY <1>2, <2>1, <2>2
<1>4. (u * q) * (d * e) = (m * d) * (q * v)
  <2>1. (u * q) * (d * e) = (u * e) * (q * d)
    OBVIOUS
  <2>2. (m * v) * (q * d) = (m * d) * (q * v)
    OBVIOUS
  <2> QED
    BY <1>2, <2>1, <2>2
<1>5. \A x, y \in Nat, k \in Nat \ {0} : x <= y <=> x * k <= y * k
  OBVIOUS
<1>6. /\ d * e \in Nat \ {0} /\ q * v \in Nat \ {0} /\ p * v \in Nat /\ u * q \in Nat
      /\ n * e \in Nat /\ m * d \in Nat
  OBVIOUS
<1>7. p * v <= u * q <=> n * e <= m * d
  <2>1. p * v <= u * q <=> (p * v) * (d * e) <= (u * q) * (d * e)
    BY <1>5, <1>6
  <2>2. n * e <= m * d <=> (n * e) * (q * v) <= (m * d) * (q * v)
    BY <1>5, <1>6
  <2> QED
    BY <1>3, <1>4, <2>1, <2>2
<1> QED
  BY <1>1, <1>7 DEF AtMost

-----------------------------------------------------------------------------
(* What the battles weigh.                                                   *)

PlayedRow == [player : Contributor, result : Result, day : Nat, patch : Nat]

ScoresFacts ==
    /\ played \in Seq(PlayedRow)
    /\ today \in 0..MaxDay /\ patch \in 1..2
    /\ \A i \in 1..Len(played) : played[i].day <= today

All == 1..Len(played)
WeightOf(i) == RecencyWeight(DaysAgo(i))

LEMMA Places ==
  ASSUME ScoresAssumption, ScoresFacts
  PROVE  /\ Len(played) \in Nat /\ DOMAIN played = All /\ IsFiniteSet(All) /\ All \in SUBSET Nat
         /\ \A i \in All : /\ played[i] \in PlayedRow /\ played[i].player \in Contributor
                           /\ played[i].result \in Result /\ DaysAgo(i) \in Nat
<1>1. Len(played) \in Nat /\ DOMAIN played = All
  BY DEF ScoresFacts, All
<1>2. IsFiniteSet(All) /\ All \in SUBSET Nat
  <2>1. PICK n \in Nat : n = Len(played)
    BY <1>1
  <2>2. IsFiniteSet(1..n)
    BY FS_Interval
  <2> QED
    BY <2>1, <2>2 DEF All
<1>3. ASSUME NEW i \in All
      PROVE  /\ played[i] \in PlayedRow /\ played[i].player \in Contributor
             /\ played[i].result \in Result /\ DaysAgo(i) \in Nat
  <2>1. played[i] \in PlayedRow /\ played[i].day <= today
    BY <1>1 DEF ScoresFacts, All
  <2>2. played[i].day \in Nat /\ played[i].player \in Contributor /\ played[i].result \in Result
    BY <2>1 DEF PlayedRow
  <2>3. today \in Nat
    BY DEF ScoresFacts, ScoresAssumption
  <2> QED
    BY <2>1, <2>2, <2>3 DEF DaysAgo
<1> QED
  BY <1>1, <1>2, <1>3

LEMMA Weights ==
  ASSUME ScoresAssumption, ScoresFacts, NEW i \in All
  PROVE  /\ WeightOf(i) \in Nat /\ WeightOf(i) <= 360
         /\ WeightOf(i) = 0 <=> DaysAgo(i) >= 180
         /\ DaysAgo(i) = 0 => WeightOf(i) = 360
<1>1. PICK d \in Nat : d = DaysAgo(i)
  BY Places
<1>2. CASE d <= 30
  <2>1. RecencyWeight(d) = 360
    BY <1>1, <1>2 DEF RecencyWeight
  <2> QED
    BY <1>1, <1>2, <2>1 DEF WeightOf
<1>3. CASE d \in 31..90
  <2>1. RecencyWeight(d) = 360 - 3 * (d - 30)
    BY <1>1, <1>3 DEF RecencyWeight
  <2> QED
    BY <1>1, <1>3, <2>1 DEF WeightOf
<1>4. CASE d \in 91..180
  <2>1. RecencyWeight(d) = 180 - 2 * (d - 90)
    BY <1>1, <1>4 DEF RecencyWeight
  <2> QED
    BY <1>1, <1>4, <2>1 DEF WeightOf
<1>5. CASE d > 180
  <2>1. RecencyWeight(d) = 0
    BY <1>1, <1>5 DEF RecencyWeight
  <2> QED
    BY <1>1, <1>5, <2>1 DEF WeightOf
<1> QED
  BY <1>1, <1>2, <1>3, <1>4, <1>5

\* A function that sums up from 0 has numbers for values.
LEMMA SumsAreNumbers ==
  ASSUME NEW N \in Nat, NEW v \in [1..N -> Nat],
         NEW f, f = [i \in 0..N |-> IF i = 0 THEN 0 ELSE f[i - 1] + v[i]]
  PROVE  SumsUp(f, v, N)
<1>0. \A n \in 0..N : f[n] = IF n = 0 THEN 0 ELSE f[n - 1] + v[n]
  OBVIOUS
<1> DEFINE Bad == {n \in 0..N : f[n] \notin Nat}
<1>1. ASSUME Bad # {} PROVE FALSE
  <2>1. Bad \in SUBSET Nat
    OBVIOUS
  <2>2. PICK n \in Bad : \A m \in Bad : n <= m
    BY <1>1, <2>1, LeastNat
  <2>3. n \in 0..N /\ n # 0
    BY <1>0, <2>2
  <2>4. n - 1 \in 0..N /\ n - 1 \notin Bad /\ n \in 1..N
    BY <2>2, <2>3
  <2>5. f[n - 1] \in Nat /\ v[n] \in Nat
    BY <2>4
  <2> QED
    BY <1>0, <2>2, <2>3, <2>5
<1>2. \A n \in 0..N : f[n] \in Nat
  BY <1>1
<1>3. f \in [0..N -> Nat]
  <2>1. f = [n \in 0..N |-> f[n]]
    OBVIOUS
  <2> QED
    BY <1>2, <2>1
<1> QED
  BY <1>0, <1>3 DEF SumsUp

WeightIn(S) == [i \in All |-> IF i \in S THEN WeightOf(i) ELSE 0]

LEMMA WeightedSumsUp ==
  ASSUME ScoresAssumption, ScoresFacts, NEW S
  PROVE  /\ WeightIn(S) \in [1..Len(played) -> Nat]
         /\ \E R : SumsUp(R, WeightIn(S), Len(played)) /\ Weighted(S) = R[Len(played)]
<1>1. PICK N \in Nat : N = Len(played) /\ All = 1..N
  BY Places DEF All
<1>2. PICK v : v = WeightIn(S)
  OBVIOUS
<1>3. v \in [1..N -> Nat]
  BY <1>1, <1>2, Weights DEF WeightIn
<1> DEFINE Sums(f) == f = [i \in 0..N |->
                 IF i = 0 THEN 0 ELSE f[i - 1] + IF i \in S THEN RecencyWeight(DaysAgo(i)) ELSE 0]
           Ups(f) == f = [i \in 0..N |-> IF i = 0 THEN 0 ELSE f[i - 1] + v[i]]
           f == CHOOSE f : Sums(f)
<1>4. \A g : Sums(g) <=> Ups(g)
  <2>1. \A i \in 0..N : i # 0 => v[i] = IF i \in S THEN RecencyWeight(DaysAgo(i)) ELSE 0
    BY <1>1, <1>2 DEF WeightIn, WeightOf
  <2> QED
    BY <2>1
<1>5. Weighted(S) = f[N]
  BY <1>1 DEF Weighted
<1>6. \E g : Ups(g)
  <2>1. PICK g : SumsUp(g, v, N)
    BY <1>3, SumsExist
  <2>2. PICK h : h = [n \in 0..N |-> IF n = 0 THEN 0 ELSE g[n - 1] + v[n]]
    OBVIOUS
  <2>3. g \in [0..N -> Nat] /\ \A n \in 0..N : g[n] = IF n = 0 THEN 0 ELSE g[n - 1] + v[n]
    BY <2>1 DEF SumsUp
  <2>4. Ups(g)
    <3>1. \A n \in 0..N : h[n] = g[n]
      BY <2>2, <2>3
    <3>2. h = [n \in 0..N |-> g[n]]
      BY <2>2, <3>1
    <3>3. h = g
      BY <2>3, <3>2
    <3> QED
      BY <2>2, <3>3
  <2> QED
    BY ZenonT(30), <2>4
<1>7. Ups(f)
  <2>1. \E g : Sums(g)
    <3> HIDE DEF Sums, Ups
    <3> QED
      BY <1>4, <1>6
  <2>2. Sums(f)
    <3> HIDE DEF Sums
    <3> QED
      BY <2>1
  <2> HIDE DEF f
  <2> QED
    BY <1>4, <2>2
<1> HIDE DEF f
<1>8. SumsUp(f, v, N)
  BY <1>3, <1>7, SumsAreNumbers
<1> QED
  BY <1>1, <1>2, <1>3, <1>5, <1>8

LEMMA WeightedIsNat ==
  ASSUME ScoresAssumption, ScoresFacts, NEW S
  PROVE  Weighted(S) \in Nat
<1>1. PICK R : SumsUp(R, WeightIn(S), Len(played)) /\ Weighted(S) = R[Len(played)]
  BY WeightedSumsUp
<1>2. PICK N \in Nat : N = Len(played)
  BY Places
<1>3. R \in [0..N -> Nat] /\ N \in 0..N
  <2>1. R \in [0..N -> Nat]
    BY <1>1, <1>2 DEF SumsUp
  <2> QED
    BY <2>1
<1>4. R[N] \in Nat
  BY <1>3
<1> QED
  BY <1>1, <1>2, <1>4

\* One battle more weighs its weight more.
LEMMA OneMoreWeighs ==
  ASSUME ScoresAssumption, ScoresFacts, NEW S, NEW m \in All, m \notin S
  PROVE  Weighted(S \cup {m}) = Weighted(S) + WeightOf(m)
<1>1. PICK R : SumsUp(R, WeightIn(S), Len(played)) /\ Weighted(S) = R[Len(played)]
  BY WeightedSumsUp
<1>2. PICK Q : SumsUp(Q, WeightIn(S \cup {m}), Len(played)) /\ Weighted(S \cup {m}) = Q[Len(played)]
  BY WeightedSumsUp
<1>3. PICK N \in Nat : N = Len(played) /\ All = 1..N
  BY Places DEF All
<1>4. PICK v \in [1..N -> Nat] : v = WeightIn(S)
  BY <1>3, WeightedSumsUp
<1>5. PICK u \in [1..N -> Nat] : u = WeightIn(S \cup {m})
  BY <1>3, WeightedSumsUp
<1>6. PICK d \in Nat : d = WeightOf(m)
  BY Weights
<1>7. MoreAt(u, v, N, m, d)
  <2>1. ASSUME NEW n \in 1..N PROVE u[n] = IF n = m THEN v[n] + d ELSE v[n]
    <3>1. u[n] = IF n \in S \cup {m} THEN WeightOf(n) ELSE 0
      BY <1>3, <1>5 DEF WeightIn
    <3>2. v[n] = IF n \in S THEN WeightOf(n) ELSE 0
      BY <1>3, <1>4 DEF WeightIn
    <3> QED
      BY SMTT(30), <1>6, <3>1, <3>2
  <2> QED
    BY <2>1 DEF MoreAt
<1>8. LargerBy(Q, R, N, d)
  <2>1. m \in 1..N /\ SumsUp(R, v, N) /\ SumsUp(Q, u, N)
    BY <1>1, <1>2, <1>3, <1>4, <1>5
  <2> QED
    BY <1>7, <2>1, SumsDiffer
<1> QED
  BY <1>1, <1>2, <1>3, <1>6, <1>8 DEF LargerBy

LEMMA OneLessWeighs ==
  ASSUME ScoresAssumption, ScoresFacts, NEW S \in SUBSET All, NEW m \in S
  PROVE  Weighted(S) = Weighted(S \ {m}) + WeightOf(m)
<1>1. S = (S \ {m}) \cup {m} /\ m \notin S \ {m} /\ m \in All
  OBVIOUS
<1> QED
  BY <1>1, OneMoreWeighs

\* Nothing is weighed exactly when no battle has a weight.
LEMMA NothingWeighs ==
  ASSUME ScoresAssumption, ScoresFacts, NEW S \in SUBSET All
  PROVE  Weighted(S) = 0 <=> \A i \in S : WeightOf(i) = 0
<1>1. ASSUME \A i \in S : WeightOf(i) = 0 PROVE Weighted(S) = 0
  <2>1. PICK R : SumsUp(R, WeightIn(S), Len(played)) /\ Weighted(S) = R[Len(played)]
    BY WeightedSumsUp
  <2>2. \A i \in 1..Len(played) : WeightIn(S)[i] = 0
    BY <1>1 DEF WeightIn, All
  <2> QED
    BY <2>1, <2>2, Places, SumOfNothing
<1>2. ASSUME Weighted(S) = 0, NEW i \in S PROVE WeightOf(i) = 0
  <2>1. Weighted(S) = Weighted(S \ {i}) + WeightOf(i)
    BY OneLessWeighs
  <2>2. Weighted(S \ {i}) \in Nat /\ WeightOf(i) \in Nat
    BY WeightedIsNat, Weights
  <2> QED
    BY <1>2, <2>1, <2>2
<1> QED
  BY <1>1, <1>2

\* And never more than 360 by each.
LEMMA WeighsAtMost ==
  ASSUME ScoresAssumption, ScoresFacts, NEW S \in SUBSET All
  PROVE  Weighted(S) <= 360 * Cardinality(S)
<1> DEFINE Bad == {n \in Nat : \E T \in SUBSET All : Cardinality(T) = n /\ ~(Weighted(T) <= 360 * Cardinality(T))}
<1>0. \A T \in SUBSET All : IsFiniteSet(T) /\ Cardinality(T) \in Nat
  BY Places, FS_Subset, FS_CardinalityType
<1>1. ASSUME Bad # {} PROVE FALSE
  <2>1. PICK n \in Bad : \A m \in Bad : n <= m
    BY <1>1, LeastNat
  <2>2. PICK T \in SUBSET All : Cardinality(T) = n /\ ~(Weighted(T) <= 360 * n)
    BY <2>1
  <2>3. CASE T = {}
    <3>1. n = 0
      BY <2>2, <2>3, FS_EmptySet
    <3>2. Weighted(T) = 0
      BY <2>3, NothingWeighs
    <3> QED
      BY <2>2, <3>1, <3>2
  <2>4. ASSUME NEW x \in T PROVE FALSE
    <3>1. Weighted(T) = Weighted(T \ {x}) + WeightOf(x) /\ WeightOf(x) <= 360
      BY OneLessWeighs, Weights
    <3>2. Cardinality(T \ {x}) = n - 1
      BY <1>0, <2>2, FS_RemoveElement
    <3>3. T \ {x} \in SUBSET All
      OBVIOUS
    <3>4. n - 1 \in Nat /\ n \in Nat
      BY <1>0, <3>2, <3>3
    <3>5. n - 1 \notin Bad
      BY <2>1, <3>4
    <3>6. Weighted(T \ {x}) <= 360 * (n - 1)
      BY <3>2, <3>3, <3>4, <3>5
    <3>7. Weighted(T \ {x}) \in Nat /\ WeightOf(x) \in Nat
      BY WeightedIsNat, Weights
    <3> QED
      BY <2>2, <3>1, <3>4, <3>6, <3>7
  <2> QED
    BY <2>3, <2>4
<1>2. Cardinality(S) \notin Bad /\ Cardinality(S) \in Nat
  BY <1>0, <1>1
<1> QED
  BY <1>2

-----------------------------------------------------------------------------
(* What blending does, in the numbers the rates are made of.                  *)

BlendNum(w, v, d, x, e) == w * (v * e) + (FullBlend - w) * (x * d)

LEMMA Scaled ==
  ASSUME NEW k \in Nat, NEW a \in Int, NEW b \in Int, a <= b
  PROVE  k * a <= k * b
OBVIOUS

LEMMA BlendNumIsNat ==
  ASSUME ScoresAssumption, NEW w \in Nat, w <= FullBlend,
         NEW v \in Nat, NEW d \in Nat, NEW x \in Nat, NEW e \in Nat
  PROVE  BlendNum(w, v, d, x, e) \in Nat
<1>1. FullBlend - w \in Nat /\ v * e \in Nat /\ x * d \in Nat
  BY DEF ScoresAssumption
<1>2. \A p, q \in Nat : p * q \in Nat
  OBVIOUS
<1> QED
  BY <1>1, <1>2 DEF BlendNum

LEMMA BlendIsRate ==
  ASSUME ScoresAssumption, NEW w \in Nat, w <= FullBlend,
         NEW v \in Nat, NEW d \in Nat \ {0}, NEW x \in Nat, NEW e \in Nat \ {0},
         NEW c, NEW a, IsRate(c, v, d), IsRate(a, x, e), c # None, a # None
  PROVE  /\ IsRate(Blend(c, a, w), BlendNum(w, v, d, x, e), FullBlend * (d * e))
         /\ FullBlend * (d * e) \in Nat \ {0}
         /\ Blend(c, a, w) # None
<1>1. PICK p \in Nat, q \in Nat \ {0}, r \in Nat, s \in Nat \ {0} :
        p = c[1] /\ q = c[2] /\ r = a[1] /\ s = a[2]
  BY ZenonT(30) DEF IsRate
<1>2. p * d = v * q /\ r * e = x * s
  BY <1>1 DEF IsRate
<1>3. PICK F \in Nat \ {0}, u \in Nat : F = FullBlend /\ u = F - w
  BY DEF ScoresAssumption
<1>4. PICK n \in Nat, m \in Nat \ {0} : n = w * p * s + u * r * q /\ m = F * q * s
  <2>1. w * p * s \in Nat /\ u * r * q \in Nat /\ F * q * s \in Nat /\ F * q * s # 0
    OBVIOUS
  <2> QED
    BY <2>1
<1>5. Blend(c, a, w) = Fraction(n, m)
  BY <1>1, <1>3, <1>4 DEF Blend
<1>6. PICK b : b = Blend(c, a, w) /\ IsRate(b, n, m) /\ b # None
  BY <1>5, FractionIsRate
<1>7. PICK y \in Nat, z \in Nat \ {0} : y = b[1] /\ z = b[2] /\ y * m = n * z
  BY <1>6 DEF IsRate
<1>8. PICK g \in Nat, h \in Nat \ {0} : g = w * (v * e) + u * (x * d) /\ h = F * (d * e)
  <2>1. v * e \in Nat /\ x * d \in Nat /\ d * e \in Nat \ {0}
    OBVIOUS
  <2>2. \A i, j \in Nat : i * j \in Nat
    OBVIOUS
  <2>3. w * (v * e) \in Nat /\ u * (x * d) \in Nat /\ F * (d * e) \in Nat /\ F * (d * e) # 0
    BY <2>1, <2>2
  <2> QED
    BY <2>3
<1>9. n * (d * e) = g * (q * s)
  <2>1. (w * p * s) * (d * e) = (w * s * e) * (p * d)
    OBVIOUS
  <2>2. (u * r * q) * (d * e) = (u * q * d) * (r * e)
    OBVIOUS
  <2>3. (w * s * e) * (v * q) = (w * (v * e)) * (q * s)
    OBVIOUS
  <2>4. (u * q * d) * (x * s) = (u * (x * d)) * (q * s)
    OBVIOUS
  <2>5. n * (d * e) = (w * p * s) * (d * e) + (u * r * q) * (d * e)
    BY <1>4
  <2>6. g * (q * s) = (w * (v * e)) * (q * s) + (u * (x * d)) * (q * s)
    BY <1>8
  <2> QED
    BY <1>2, <2>1, <2>2, <2>3, <2>4, <2>5, <2>6
<1>10. (y * h) * (q * s) = (g * z) * (q * s)
  <2>1. (y * h) * (q * s) = (y * m) * (d * e)
    BY <1>4, <1>8
  <2>2. (n * z) * (d * e) = (n * (d * e)) * z
    OBVIOUS
  <2>3. (g * (q * s)) * z = (g * z) * (q * s)
    OBVIOUS
  <2> QED
    BY <1>7, <1>9, <2>1, <2>2, <2>3
<1>11. y * h = g * z
  <2>1. \A i, j \in Nat, k \in Nat \ {0} : i * k = j * k => i = j
    OBVIOUS
  <2>2. y * h \in Nat /\ g * z \in Nat /\ q * s \in Nat \ {0}
    OBVIOUS
  <2> QED
    BY <1>10, <2>1, <2>2
<1> QED
  BY <1>3, <1>6, <1>7, <1>8, <1>11 DEF IsRate, BlendNum

\* A blend is between what it blends.
LEMMA BlendBetween ==
  ASSUME ScoresAssumption, NEW w \in Nat, w <= FullBlend,
         NEW v \in Nat, NEW d \in Nat \ {0}, NEW x \in Nat, NEW e \in Nat \ {0},
         NEW c, NEW a, IsRate(c, v, d), IsRate(a, x, e), c # None, a # None
  PROVE  /\ AtMost(c, Blend(c, a, w)) \/ AtMost(a, Blend(c, a, w))
         /\ AtMost(Blend(c, a, w), c) \/ AtMost(Blend(c, a, w), a)
<1>1. PICK b : b = Blend(c, a, w)
  OBVIOUS
<1>2. PICK F \in Nat \ {0}, u \in Nat : F = FullBlend /\ u = F - w
  BY DEF ScoresAssumption
<1>3. PICK h \in Nat \ {0} : h = F * (d * e) /\ IsRate(b, BlendNum(w, v, d, x, e), h)
  BY <1>1, <1>2, BlendIsRate
<1>4. PICK X \in Nat, Y \in Nat : X = v * e /\ Y = x * d
  OBVIOUS
<1>5. PICK n \in Nat : n = BlendNum(w, v, d, x, e) /\ n = w * X + u * Y
  BY <1>2, <1>4, BlendNumIsNat DEF BlendNum
<1>6. F * X = w * X + u * X /\ F * Y = w * Y + u * Y
  <2>1. F = w + u
    BY <1>2
  <2> QED
    BY <2>1
<1>7. v * h = (F * X) * d /\ x * h = (F * Y) * e
  BY <1>3, <1>4
<1>8. /\ AtMost(c, b) <=> (F * X) * d <= n * d
      /\ AtMost(a, b) <=> (F * Y) * e <= n * e
      /\ AtMost(b, c) <=> n * d <= (F * X) * d
      /\ AtMost(b, a) <=> n * e <= (F * Y) * e
  <2>1. IsRate(b, n, h)
    BY <1>3, <1>5
  <2>2. AtMost(c, b) <=> v * h <= n * d
    BY <2>1, RatesCompare
  <2>3. AtMost(a, b) <=> x * h <= n * e
    BY <2>1, RatesCompare
  <2>4. AtMost(b, c) <=> n * d <= v * h
    BY <2>1, RatesCompare
  <2>5. AtMost(b, a) <=> n * e <= x * h
    BY <2>1, RatesCompare
  <2> QED
    BY ONLY <1>7, <2>2, <2>3, <2>4, <2>5
<1>9. \A i, j \in Nat, k \in Nat : i <= j => i * k <= j * k
  OBVIOUS
<1>10. F * X \in Nat /\ F * Y \in Nat /\ w * X \in Nat /\ w * Y \in Nat /\ u * X \in Nat /\ u * Y \in Nat
  OBVIOUS
<1>11. CASE X <= Y
  <2>1. w * X <= w * Y /\ u * X <= u * Y
    BY <1>11, Scaled
  <2>2. F * X <= n /\ n <= F * Y
    BY <1>5, <1>6, <1>10, <2>1
  <2> QED
    BY <1>1, <1>8, <1>9, <1>10, <2>2
<1>12. CASE Y <= X
  <2>1. w * Y <= w * X /\ u * Y <= u * X
    BY <1>12, Scaled
  <2>2. F * Y <= n /\ n <= F * X
    BY <1>5, <1>6, <1>10, <2>1
  <2> QED
    BY <1>1, <1>8, <1>9, <1>10, <2>2
<1> QED
  BY <1>11, <1>12

\* n of d is no larger a share than m of e.
ShareAtMost(n, d, m, e) == n * e <= m * d

\* One more part of the weight, and what the share gains with it.
GainsAPart(w, v, d, v1, d1) == (w * v + d) * d1 <= (w + 1) * (v1 * d)

\* When both rates grow and their weights stay, so does the blend;
LEMMA BlendGrows ==
  ASSUME ScoresAssumption, NEW w \in Nat, w <= FullBlend,
         NEW v \in Nat, NEW d \in Nat, NEW x \in Nat, NEW e \in Nat,
         NEW v1 \in Nat, NEW d1 \in Nat, NEW x1 \in Nat, NEW e1 \in Nat,
         ShareAtMost(v, d, v1, d1), ShareAtMost(x, e, x1, e1)
  PROVE  ShareAtMost(BlendNum(w, v, d, x, e), d * e, BlendNum(w, v1, d1, x1, e1), d1 * e1)
<1>1. PICK u \in Nat : u = FullBlend - w
  BY DEF ScoresAssumption
<1>2. (w * e * e1) * (v * d1) <= (w * e * e1) * (v1 * d)
  <2>1. w * e * e1 \in Nat /\ v * d1 \in Int /\ v1 * d \in Int
    OBVIOUS
  <2> QED
    BY <2>1, Scaled DEF ShareAtMost, GainsAPart
<1>3. (u * d * d1) * (x * e1) <= (u * d * d1) * (x1 * e)
  <2>1. u * d * d1 \in Nat /\ x * e1 \in Int /\ x1 * e \in Int
    OBVIOUS
  <2> QED
    BY <2>1, Scaled DEF ShareAtMost, GainsAPart
<1>4. (w * (v * e) + u * (x * d)) * (d1 * e1) = (w * e * e1) * (v * d1) + (u * d * d1) * (x * e1)
  OBVIOUS
<1>5. (w * (v1 * e1) + u * (x1 * d1)) * (d * e) = (w * e * e1) * (v1 * d) + (u * d * d1) * (x1 * e)
  OBVIOUS
<1>6. /\ (w * e * e1) * (v * d1) \in Int /\ (u * d * d1) * (x * e1) \in Int
      /\ (w * e * e1) * (v1 * d) \in Int /\ (u * d * d1) * (x1 * e) \in Int
  OBVIOUS
<1> QED
  BY <1>1, <1>2, <1>3, <1>4, <1>5, <1>6 DEF BlendNum, ShareAtMost

\* and also when the current rate gains with one more part of the weight what the
\* other loses with it.
LEMMA BlendGains ==
  ASSUME ScoresAssumption, NEW w \in Nat, w + 1 <= FullBlend,
         NEW v \in Nat, NEW d \in Nat, NEW x \in Nat, NEW e \in Nat,
         NEW v1 \in Nat, NEW d1 \in Nat, NEW x1 \in Nat, NEW e1 \in Nat,
         GainsAPart(w, v, d, v1, d1), ShareAtMost(x, e, x1, e1), x <= e
  PROVE  ShareAtMost(BlendNum(w, v, d, x, e), d * e, BlendNum(w + 1, v1, d1, x1, e1), d1 * e1)
<1>1. PICK u \in Nat : u = FullBlend - (w + 1) /\ FullBlend - w = u + 1
  BY DEF ScoresAssumption
<1>2. (e * e1) * ((w * v + d) * d1) <= (e * e1) * ((w + 1) * (v1 * d))
  <2>1. e * e1 \in Nat /\ (w * v + d) * d1 \in Int /\ (w + 1) * (v1 * d) \in Int
    OBVIOUS
  <2> QED
    BY <2>1, Scaled DEF ShareAtMost, GainsAPart
<1>3. (u * d * d1) * (x * e1) <= (u * d * d1) * (x1 * e)
  <2>1. u * d * d1 \in Nat /\ x * e1 \in Int /\ x1 * e \in Int
    OBVIOUS
  <2> QED
    BY <2>1, Scaled DEF ShareAtMost, GainsAPart
<1>4. (d * d1 * e1) * x <= (d * d1 * e1) * e
  <2>1. d * d1 * e1 \in Nat
    OBVIOUS
  <2> QED
    BY <2>1, Scaled DEF ShareAtMost, GainsAPart
<1>5. (w * (v * e) + (u + 1) * (x * d)) * (d1 * e1)
        = (e * e1) * ((w * v + d) * d1) - (d * d1 * e1) * e + (d * d1 * e1) * x + (u * d * d1) * (x * e1)
  OBVIOUS
<1>6. ((w + 1) * (v1 * e1) + u * (x1 * d1)) * (d * e)
        = (e * e1) * ((w + 1) * (v1 * d)) + (u * d * d1) * (x1 * e)
  OBVIOUS
<1>7. /\ (e * e1) * ((w * v + d) * d1) \in Int /\ (e * e1) * ((w + 1) * (v1 * d)) \in Int
      /\ (u * d * d1) * (x * e1) \in Int /\ (u * d * d1) * (x1 * e) \in Int
      /\ (d * d1 * e1) * x \in Int /\ (d * d1 * e1) * e \in Int
  OBVIOUS
<1>8. /\ BlendNum(w, v, d, x, e) = w * (v * e) + (u + 1) * (x * d)
      /\ BlendNum(w + 1, v1, d1, x1, e1) = (w + 1) * (v1 * e1) + u * (x1 * d1)
  BY <1>1 DEF BlendNum
<1>9. \A p, q, r, s, t, z \in Int : p <= q /\ r <= s /\ t <= z => p - z + t + r <= q + s
  OBVIOUS
<1>10. (e * e1) * ((w * v + d) * d1) - (d * d1 * e1) * e + (d * d1 * e1) * x + (u * d * d1) * (x * e1)
         <= (e * e1) * ((w + 1) * (v1 * d)) + (u * d * d1) * (x1 * e)
  BY ONLY <1>2, <1>3, <1>4, <1>7, <1>9
<1> QED
  BY ONLY <1>5, <1>6, <1>8, <1>10 DEF ShareAtMost

-----------------------------------------------------------------------------
(* Rates of sets of battles.                                                 *)

Wins(S) == Weighted(With("victory", S))
Losses(S) == Weighted(With("defeat", S))

LEMMA RateOfSet ==
  ASSUME ScoresAssumption, ScoresFacts, NEW S \in SUBSET All
  PROVE  /\ Wins(S) \in Nat /\ Losses(S) \in Nat
         /\ WeightedWinRate(S) = None <=> Wins(S) + Losses(S) = 0
         /\ WeightedWinRate(S) # None =>
              /\ Wins(S) + Losses(S) \in Nat \ {0}
              /\ IsRate(WeightedWinRate(S), Wins(S), Wins(S) + Losses(S))
<1>1. PICK w \in Nat, l \in Nat : w = Wins(S) /\ l = Losses(S)
  BY WeightedIsNat DEF Wins, Losses
<1>2. WeightedWinRate(S) = IF w + l = 0 THEN None ELSE Fraction(w, w + l)
  BY <1>1 DEF WeightedWinRate, WinRate, Wins, Losses
<1>3. w + l # 0 => w + l \in Nat \ {0}
  OBVIOUS
<1> QED
  BY <1>1, <1>2, <1>3, FractionIsRate

\* There is a rate when a battle with a weight was decided.
LEMMA NoneOfSet ==
  ASSUME ScoresAssumption, ScoresFacts, NEW S \in SUBSET All
  PROVE  WeightedWinRate(S) = None <=> \A i \in S : played[i].result = "draw" \/ DaysAgo(i) >= 180
<1>1. With("victory", S) \in SUBSET All /\ With("defeat", S) \in SUBSET All
  BY DEF With
<1>2. Wins(S) = 0 <=> \A i \in With("victory", S) : WeightOf(i) = 0
  BY <1>1, NothingWeighs DEF Wins
<1>3. Losses(S) = 0 <=> \A i \in With("defeat", S) : WeightOf(i) = 0
  BY <1>1, NothingWeighs DEF Losses
<1>4. WeightedWinRate(S) = None <=> Wins(S) = 0 /\ Losses(S) = 0
  <2>1. \A x, y \in Nat : x + y = 0 <=> x = 0 /\ y = 0
    OBVIOUS
  <2> QED
    BY <2>1, RateOfSet
<1>5. \A i \in S : /\ played[i].result \in {"victory", "defeat", "draw"}
                   /\ WeightOf(i) = 0 <=> DaysAgo(i) >= 180
  BY Places, Weights DEF Result
<1> QED
  BY <1>2, <1>3, <1>4, <1>5 DEF With

LEMMA CurrentOf ==
  ASSUME ScoresAssumption, ScoresFacts, NEW S \in SUBSET All
  PROVE  /\ Current(S) \in SUBSET S /\ Current(S) \in SUBSET All
         /\ IsFiniteSet(Current(S)) /\ Cardinality(Current(S)) \in Nat
         /\ BlendWeight(Cardinality(Current(S))) \in Nat
         /\ BlendWeight(Cardinality(Current(S))) <= FullBlend
<1>1. Current(S) \in SUBSET S /\ Current(S) \in SUBSET All
  BY DEF Current
<1>2. IsFiniteSet(Current(S)) /\ Cardinality(Current(S)) \in Nat
  BY <1>1, Places, FS_Subset, FS_CardinalityType
<1>3. PICK n \in Nat : n = Cardinality(Current(S))
  BY <1>2
<1>4. BlendWeight(n) \in Nat /\ BlendWeight(n) <= FullBlend
  BY DEF BlendWeight, ScoresAssumption
<1> QED
  BY <1>1, <1>2, <1>3, <1>4

\* All battles have a rate when those of the patch have one, and the blend has one
\* when all have.
LEMMA BlendOfSet ==
  ASSUME ScoresAssumption, ScoresFacts, NEW S \in SUBSET All
  PROVE  /\ WeightedWinRate(S) = None => WeightedWinRate(Current(S)) = None
         /\ BlendedWinRate(S) = None <=> WeightedWinRate(S) = None
<1>1. ASSUME WeightedWinRate(S) = None PROVE WeightedWinRate(Current(S)) = None
  BY <1>1, CurrentOf, NoneOfSet
<1>2. PICK c, a, w : c = WeightedWinRate(Current(S)) /\ a = WeightedWinRate(S)
                     /\ w = BlendWeight(Cardinality(Current(S)))
  OBVIOUS
<1>3. BlendedWinRate(S) = Blend(c, a, w)
  BY <1>2 DEF BlendedWinRate
<1>4. CASE c = None
  BY <1>2, <1>3, <1>4 DEF Blend
<1>5. CASE c # None
  <2>1. a # None /\ w \in Nat /\ w <= FullBlend
    BY <1>1, <1>2, <1>5, CurrentOf
  <2>2. PICK v \in Nat, l \in Nat : v = Wins(Current(S)) /\ l = Losses(Current(S))
    BY CurrentOf, RateOfSet
  <2>3. PICK d \in Nat \ {0} : d = v + l /\ IsRate(c, v, d)
    BY <1>2, <1>5, <2>2, CurrentOf, RateOfSet
  <2>4. PICK x \in Nat, y \in Nat : x = Wins(S) /\ y = Losses(S)
    BY RateOfSet
  <2>5. PICK e \in Nat \ {0} : e = x + y /\ IsRate(a, x, e)
    BY <1>2, <2>1, <2>4, RateOfSet
  <2>6. Blend(c, a, w) # None
    BY <1>5, <2>1, <2>3, <2>5, BlendIsRate
  <2> QED
    BY <1>2, <1>3, <2>1, <2>6
<1> QED
  BY <1>1, <1>4, <1>5

LEMMA BlendIsBetweenSides ==
  ASSUME ScoresAssumption, ScoresFacts, NEW S \in SUBSET All, BlendedWinRate(S) # None
  PROVE  /\ \E s \in {WeightedWinRate(Current(S)), WeightedWinRate(S)} \ {None} : AtMost(s, BlendedWinRate(S))
         /\ \E s \in {WeightedWinRate(Current(S)), WeightedWinRate(S)} \ {None} : AtMost(BlendedWinRate(S), s)
<1>1. PICK c, a, w : c = WeightedWinRate(Current(S)) /\ a = WeightedWinRate(S)
                     /\ w = BlendWeight(Cardinality(Current(S)))
  OBVIOUS
<1>2. BlendedWinRate(S) = Blend(c, a, w)
  BY <1>1 DEF BlendedWinRate
<1>3. a # None /\ w \in Nat /\ w <= FullBlend
  BY <1>1, BlendOfSet, CurrentOf
<1>4. PICK x \in Nat, y \in Nat : x = Wins(S) /\ y = Losses(S)
  BY RateOfSet
<1>5. PICK e \in Nat \ {0} : e = x + y /\ IsRate(a, x, e)
  BY <1>1, <1>3, <1>4, RateOfSet
<1>6. CASE c = None
  <2>1. Blend(c, a, w) = a
    BY <1>6 DEF Blend
  <2>2. AtMost(a, a)
    BY <1>5, RatesCompare
  <2> QED
    BY <1>1, <1>2, <1>3, <2>1, <2>2
<1>7. CASE c # None
  <2>1. PICK v \in Nat, l \in Nat : v = Wins(Current(S)) /\ l = Losses(Current(S))
    BY CurrentOf, RateOfSet
  <2>2. PICK d \in Nat \ {0} : d = v + l /\ IsRate(c, v, d)
    BY <1>1, <1>7, <2>1, CurrentOf, RateOfSet
  <2>3. /\ AtMost(c, Blend(c, a, w)) \/ AtMost(a, Blend(c, a, w))
        /\ AtMost(Blend(c, a, w), c) \/ AtMost(Blend(c, a, w), a)
    BY <1>3, <1>5, <1>7, <2>2, BlendBetween
  <2> QED
    BY <1>1, <1>2, <1>3, <1>7, <2>3
<1> QED
  BY <1>6, <1>7

LEMMA CappedIsPlayed ==
  ASSUME ScoresAssumption, ScoresFacts
  PROVE  Capped \in SUBSET All
BY Places DEF Capped, CappedOf

LEMMA RatesHold ==
  ASSUME ScoresAssumption, ScoresFacts
  PROVE  RateIsOfTheBattles
<1>1. PICK S \in SUBSET All : S = Capped
  BY CappedIsPlayed
<1>2. BlendedWinRate(S) = None <=> \A i \in S : played[i].result = "draw" \/ DaysAgo(i) >= 180
  BY NoneOfSet, BlendOfSet
<1>3. ASSUME NEW T \in SUBSET All PROVE Between0And1(WeightedWinRate(T))
  <2> SUFFICES ASSUME WeightedWinRate(T) # None
               PROVE  AtMost(<<0, 1>>, WeightedWinRate(T)) /\ AtMost(WeightedWinRate(T), <<1, 1>>)
    BY DEF Between0And1
  <2>1. PICK w \in Nat, l \in Nat : w = Wins(T) /\ l = Losses(T)
    BY RateOfSet
  <2>2. PICK d \in Nat \ {0} : d = w + l /\ IsRate(WeightedWinRate(T), w, d)
    BY <2>1, RateOfSet
  <2>3. IsRate(<<0, 1>>, 0, 1) /\ IsRate(<<1, 1>>, 1, 1)
    BY DEF IsRate
  <2>4. AtMost(<<0, 1>>, WeightedWinRate(T)) <=> 0 * d <= w * 1
    BY <2>2, <2>3, RatesCompare
  <2>5. AtMost(WeightedWinRate(T), <<1, 1>>) <=> w * 1 <= 1 * d
    BY <2>2, <2>3, RatesCompare
  <2> QED
    BY <2>2, <2>4, <2>5
<1>4. Between0And1(HighRankWinRate(S))
  <2>1. \E b : HighRankWinRate(S) = None \/ HighRankWinRate(S) = WeightedWinRate(InBracket(b, S))
    BY DEF HighRankWinRate
  <2>2. \A b : InBracket(b, S) \in SUBSET All
    BY DEF InBracket
  <2>3. Between0And1(None)
    BY DEF Between0And1
  <2> QED
    BY <1>3, <2>1, <2>2, <2>3
<1> QED
  BY <1>1, <1>2, <1>4, BlendIsBetweenSides DEF RateIsOfTheBattles

-----------------------------------------------------------------------------
\* The greatest few of a set of numbers are all of them or so many: how many are
\* above counts them.
LEMMA GreatestFew ==
  ASSUME NEW S \in SUBSET Nat, IsFiniteSet(S), NEW k \in Nat
  PROVE  Cardinality({i \in S : k > Cardinality({j \in S : j > i})})
           = IF Cardinality(S) <= k THEN Cardinality(S) ELSE k
<1> DEFINE above(i) == {j \in S : j > i}
           few == {i \in S : k > Cardinality({j \in S : j > i})}
<1>1. PICK n \in Nat : n = Cardinality(S)
  BY FS_CardinalityType
<1>2. \A i : IsFiniteSet(above(i)) /\ Cardinality(above(i)) \in Nat
  BY FS_Subset, FS_CardinalityType
<1>3. ASSUME NEW x \in S, NEW y \in S, x < y
      PROVE  Cardinality(above(y)) < Cardinality(above(x))
  <2>1. y \in above(x) /\ y \notin above(y)
    BY <1>3
  <2>2. above(y) \in SUBSET above(x) /\ above(y) # above(x)
    <3>1. \A z \in S : z > y => z > x
      BY <1>3
    <3> QED
      BY <2>1, <3>1
  <2> HIDE DEF above
  <2>3. /\ Cardinality(above(y)) <= Cardinality(above(x))
        /\ Cardinality(above(y)) = Cardinality(above(x)) => above(y) = above(x)
    BY <1>2, <2>2, FS_Subset
  <2> QED
    BY <1>2, <2>2, <2>3
<1>4. ASSUME NEW x \in S PROVE Cardinality(above(x)) < n
  <2>1. above(x) \in SUBSET S /\ x \notin above(x)
    OBVIOUS
  <2>2. above(x) # S
    BY <2>1
  <2> HIDE DEF above
  <2>3. /\ Cardinality(above(x)) <= Cardinality(S)
        /\ Cardinality(above(x)) = Cardinality(S) => above(x) = S
    BY <2>1, FS_Subset
  <2> QED
    BY <1>1, <1>2, <2>2, <2>3
<1> DEFINE place == [i \in S |-> Cardinality(above(i))]
<1>5. place \in Injection(S, 0..(n - 1))
  <2> HIDE DEF above
  <2>1. \A i \in S : Cardinality(above(i)) \in 0..(n - 1)
    BY <1>2, <1>4
  <2>2. \A x, y \in S : place[x] = place[y] => x = y
    <3> SUFFICES ASSUME NEW x \in S, NEW y \in S, place[x] = place[y] PROVE x = y
      OBVIOUS
    <3>1. Cardinality(above(x)) = Cardinality(above(y))
      OBVIOUS
    <3>2. ~(x < y) /\ ~(y < x)
      BY <1>2, <1>3, <3>1
    <3> QED
      BY <3>2
  <2> QED
    BY <2>1, <2>2 DEF Injection, IsInjective
<1>6. \A m \in Nat : IsFiniteSet(0..(m - 1)) /\ Cardinality(0..(m - 1)) = m
  <2> SUFFICES ASSUME NEW m \in Nat PROVE IsFiniteSet(0..(m - 1)) /\ Cardinality(0..(m - 1)) = m
    OBVIOUS
  <2>1. m - 1 \in Int /\ 0 \in Int
    OBVIOUS
  <2>2. IsFiniteSet(0..(m - 1)) /\ Cardinality(0..(m - 1)) = IF 0 > m - 1 THEN 0 ELSE (m - 1) - 0 + 1
    BY <2>1, FS_Interval
  <2> QED
    BY <2>2
<1>7. place \in Surjection(S, 0..(n - 1))
  <2> HIDE DEF place
  <2> QED
    BY <1>1, <1>5, <1>6, FS_Injection
<1>8. PICK m \in Nat : m = IF n <= k THEN n ELSE k
  OBVIOUS
<1> DEFINE here == [i \in few |-> place[i]]
<1>9. \A i \in S : i \in few <=> place[i] < k
  BY <1>2
<1>10. \A i \in S : place[i] \in 0..(n - 1)
  <2> HIDE DEF place
  <2> QED
    BY <1>5 DEF Injection
<1>11. few \in SUBSET S
  OBVIOUS
<1> HIDE DEF place, few
<1>12. here \in Injection(few, 0..(m - 1))
  <2>1. \A i \in few : place[i] \in 0..(m - 1)
    BY <1>8, <1>9, <1>10, <1>11
  <2> QED
    BY <1>5, <1>11, <2>1 DEF Injection, IsInjective
<1>13. here \in Surjection(few, 0..(m - 1))
  <2>1. ASSUME NEW p \in 0..(m - 1) PROVE \E i \in few : here[i] = p
    <3>1. p \in 0..(n - 1) /\ p < k
      BY <1>8
    <3>2. PICK i \in S : place[i] = p
      BY <1>7, <3>1 DEF Surjection
    <3>3. i \in few
      BY <1>9, <3>1, <3>2
    <3> QED
      BY <3>2, <3>3
  <2> QED
    BY <1>12, <2>1 DEF Surjection, Injection
<1> HIDE DEF here
<1>14. Cardinality(few) = m
  BY <1>6, <1>12, <1>13, FS_Injection
<1> QED
  BY <1>1, <1>8, <1>14 DEF few

LEMMA NoneDominates ==
  ASSUME ScoresAssumption, ScoresFacts
  PROVE  NoPlayerDominates
<1> SUFFICES ASSUME NEW p \in Contributor, NEW S, S = {i \in DOMAIN played : played[i].player = p}
             PROVE  /\ Cardinality(S \cap Capped) = Min({Cardinality(S), PerPlayerCap})
                    /\ S # {} => Max(S) \in Capped
  BY DEF NoPlayerDominates
<1>1. S \in SUBSET All /\ IsFiniteSet(S) /\ S \in SUBSET Nat /\ DOMAIN played = All
  BY Places, FS_Subset
<1>2. PICK n \in Nat, k \in Nat \ {0} : n = Cardinality(S) /\ k = PerPlayerCap
  BY <1>1, FS_CardinalityType DEF ScoresAssumption
<1>3. \A i \in S : {j \in All : j > i /\ played[j].player = played[i].player} = {j \in S : j > i}
  BY <1>1
<1>4. \A i \in S : i \in Capped <=> k > Cardinality({j \in S : j > i})
  <2>1. Capped = {i \in All : k > Cardinality({j \in All : j > i /\ played[j].player = played[i].player})}
    BY <1>1, <1>2 DEF Capped, CappedOf
  <2> QED
    BY <1>1, <1>3, <2>1
<1>5. S \cap Capped = {i \in S : k > Cardinality({j \in S : j > i})}
  BY <1>4
<1>6. Cardinality(S \cap Capped) = IF n <= k THEN n ELSE k
  <2>1. PICK few : few = {i \in S : k > Cardinality({j \in S : j > i})}
    OBVIOUS
  <2>2. Cardinality(few) = IF n <= k THEN n ELSE k
    BY ZenonT(30), <1>1, <1>2, <2>1, GreatestFew
  <2>3. S \cap Capped = few
    BY <1>5, <2>1
  <2> QED
    BY <2>2, <2>3, Zenon
<1>7. Min({n, k}) = IF n <= k THEN n ELSE k
  <2>1. PICK m \in Nat : m = IF n <= k THEN n ELSE k
    OBVIOUS
  <2>2. m \in {n, k} /\ m <= n /\ m <= k
    BY <2>1
  <2>3. \A x \in {n, k} : (\A y \in {n, k} : x <= y) => x = m
    BY <2>1
  <2>4. Min({n, k}) = m
    <3>1. \A y \in {n, k} : m <= y
      BY <2>2
    <3>2. \E x \in {n, k} : \A y \in {n, k} : x <= y
      BY <2>2, <3>1
    <3> QED
      BY <2>3, <3>2 DEF Min
  <2> QED
    BY <2>1, <2>4
<1>8. ASSUME S # {} PROVE Max(S) \in Capped
  <2>1. PICK x \in S : \A y \in S : y <= x
    BY ZenonT(30), <1>1, <1>8, GreatestOfFinite
  <2>2. \A y \in S : x >= y
    BY <1>1, <2>1
  <2>3. Max(S) \in S /\ \A y \in S : Max(S) >= y
    BY <2>2, Zenon DEF Max
  <2>4. PICK g \in S : g = Max(S)
    BY <2>3
  <2>5. \A j \in S : ~(j > g)
    BY <1>1, <2>3, <2>4
  <2>6. {j \in S : j > g} = {}
    BY <2>5
  <2>7. Cardinality({j \in S : j > g}) = 0
    BY <2>6, FS_EmptySet, Zenon
  <2> QED
    BY <1>2, <1>4, <2>4, <2>7
<1> QED
  BY <1>2, <1>6, <1>7, <1>8

-----------------------------------------------------------------------------
(* The two sides of a matchup.                                                *)

\* A percentage compares as the numbers it was made of.
LEMMA PercentCompares ==
  ASSUME NEW r, NEW w \in Nat, NEW t \in Nat \ {0}, IsRate(r, w, t), NEW b \in Nat
  PROVE  /\ 100 * r[1] <= b * r[2] <=> 100 * w <= b * t
         /\ 100 * r[1] < b * r[2] <=> 100 * w < b * t
<1>1. PICK p \in Nat, q \in Nat \ {0} : p = r[1] /\ q = r[2] /\ p * t = w * q
  BY DEF IsRate
<1>2. (100 * p) * t = (100 * w) * q
  <2>1. (100 * p) * t = 100 * (p * t) /\ (100 * w) * q = 100 * (w * q)
    OBVIOUS
  <2> QED
    BY <1>1, <2>1
<1>3. (b * q) * t = (b * t) * q
  OBVIOUS
<1>4. \A i, j \in Nat, k \in Nat \ {0} : (i <= j <=> i * k <= j * k) /\ (i < j <=> i * k < j * k)
  OBVIOUS
<1>5. 100 * p \in Nat /\ 100 * w \in Nat /\ b * q \in Nat /\ b * t \in Nat
  OBVIOUS
<1>6. /\ 100 * p <= b * q <=> (100 * p) * t <= (b * q) * t
      /\ 100 * p < b * q <=> (100 * p) * t < (b * q) * t
      /\ 100 * w <= b * t <=> (100 * w) * q <= (b * t) * q
      /\ 100 * w < b * t <=> (100 * w) * q < (b * t) * q
  BY <1>4, <1>5
<1> QED
  BY <1>1, <1>2, <1>3, <1>6

\* What the classes are in those numbers.
ClassBy(w, b) ==
    IF w <= b[1] THEN 1 ELSE IF w < b[2] THEN 2 ELSE IF w <= b[3] THEN 3 ELSE IF w < b[4] THEN 4 ELSE 5

LEMMA ClassifyBy ==
  ASSUME ScoresAssumption, NEW w \in Nat, NEW l \in Nat, NEW n \in Nat,
         NEW t \in Nat \ {0}, t = w + l, ~(n < MatchupFloors[1]),
         NEW b, b = [k \in 1..4 |-> MatchupBounds[k] * t]
  PROVE  Classify(w, l, n) = ClassBy(100 * w, b)
<1>1. PICK r : r = Fraction(w, t) /\ IsRate(r, w, t) /\ r # None
  BY FractionIsRate
<1>2. WinRate(w, l) = r
  BY <1>1 DEF WinRate
<1>3. \A k \in 1..4 : /\ MatchupBounds[k] \in Nat
                      /\ b[k] = MatchupBounds[k] * t
  <2> SUFFICES ASSUME NEW k \in 1..4 PROVE MatchupBounds[k] \in Nat /\ b[k] = MatchupBounds[k] * t
    OBVIOUS
  <2>1. MatchupBounds[k] \in 0..100
    BY DEF ScoresAssumption
  <2>2. MatchupBounds[k] \in Nat
    BY <2>1
  <2> QED
    BY <2>2
<1>4. ASSUME NEW k \in 1..4
      PROVE  /\ 100 * r[1] <= MatchupBounds[k] * r[2] <=> 100 * w <= b[k]
             /\ 100 * r[1] < MatchupBounds[k] * r[2] <=> 100 * w < b[k]
  <2>1. PICK c \in Nat : c = MatchupBounds[k] /\ b[k] = c * t
    BY <1>3
  <2>2. /\ 100 * r[1] <= c * r[2] <=> 100 * w <= c * t
        /\ 100 * r[1] < c * r[2] <=> 100 * w < c * t
    BY <1>1, PercentCompares
  <2> QED
    BY <2>1, <2>2
<1>5. 1 \in 1..4 /\ 2 \in 1..4 /\ 3 \in 1..4 /\ 4 \in 1..4
  OBVIOUS
<1> QED
  BY <1>1, <1>2, <1>4, <1>5 DEF Classify, ClassBy

LEMMA ClassesMirror ==
  ASSUME ScoresAssumption, NEW w \in Nat, NEW l \in Nat, NEW n \in Nat
  PROVE  /\ Classify(w, l, n) = 0 <=> Classify(l, w, n) = 0
         /\ Classify(w, l, n) # 0 => Classify(w, l, n) + Classify(l, w, n) = 6
<1>1. CASE n < MatchupFloors[1] \/ w + l = 0
  <2>1. l + w = w + l
    OBVIOUS
  <2>2. Classify(w, l, n) = 0 /\ Classify(l, w, n) = 0
    BY <1>1, <2>1 DEF Classify, WinRate
  <2> QED
    BY <2>2
<1>2. CASE ~(n < MatchupFloors[1]) /\ w + l # 0
  <2>1. PICK t \in Nat \ {0} : t = w + l /\ t = l + w
    BY <1>2
  <2>2. PICK b : b = [k \in 1..4 |-> MatchupBounds[k] * t]
    OBVIOUS
  <2>31. MatchupBounds[1] \in Nat /\ MatchupBounds[2] \in Nat /\ MatchupBounds[3] \in Nat /\ MatchupBounds[4] \in Nat
    BY DEF ScoresAssumption
  <2>32. PICK c1 \in Nat : c1 = MatchupBounds[1]
    BY <2>31, Zenon
  <2>33. PICK c2 \in Nat : c2 = MatchupBounds[2]
    BY <2>31, Zenon
  <2>34. PICK c3 \in Nat : c3 = MatchupBounds[3]
    BY <2>31, Zenon
  <2>35. PICK c4 \in Nat : c4 = MatchupBounds[4]
    BY <2>31, Zenon
  <2>3. c1 = MatchupBounds[1] /\ c2 = MatchupBounds[2] /\ c3 = MatchupBounds[3] /\ c4 = MatchupBounds[4]
    BY <2>32, <2>33, <2>34, <2>35, Zenon
  <2>4. c1 < c2 /\ c2 <= c3 /\ c1 + c4 = 100 /\ c2 + c3 = 100
    BY <2>3 DEF ScoresAssumption
  <2>51. c1 * t \in Nat /\ c2 * t \in Nat /\ c3 * t \in Nat /\ c4 * t \in Nat
    OBVIOUS
  <2>52. PICK b1 \in Nat : b1 = c1 * t
    BY <2>51, Zenon
  <2>53. PICK b2 \in Nat : b2 = c2 * t
    BY <2>51, Zenon
  <2>54. PICK b3 \in Nat : b3 = c3 * t
    BY <2>51, Zenon
  <2>55. PICK b4 \in Nat : b4 = c4 * t
    BY <2>51, Zenon
  <2>5. b1 = c1 * t /\ b2 = c2 * t /\ b3 = c3 * t /\ b4 = c4 * t
    BY <2>52, <2>53, <2>54, <2>55, Zenon
  <2>6. b[1] = b1 /\ b[2] = b2 /\ b[3] = b3 /\ b[4] = b4
    BY <2>2, <2>3, <2>5
  <2>7. b1 < b2 /\ b2 <= b3 /\ b1 + b4 = 100 * t /\ b2 + b3 = 100 * t
    <3>1. \A i, j \in Nat : (i < j => i * t < j * t) /\ (i <= j => i * t <= j * t) /\ (i + j) * t = i * t + j * t
      OBVIOUS
    <3>2. b1 < b2 /\ b2 <= b3
      BY <2>4, <2>5, <3>1
    <3>3. (c1 + c4) * t = b1 + b4 /\ (c2 + c3) * t = b2 + b3
      BY <2>5, <3>1
    <3> QED
      BY <2>4, <3>2, <3>3
  <2>8. 100 * w + 100 * l = 100 * t
    BY <2>1
  <2>9. /\ Classify(w, l, n) = ClassBy(100 * w, b)
        /\ Classify(l, w, n) = ClassBy(100 * l, b)
    BY <1>2, <2>1, <2>2, ClassifyBy
  <2>10. PICK x \in Nat, y \in Nat, z \in Nat : x = 100 * w /\ y = 100 * l /\ z = 100 * t /\ x + y = z
    BY <2>8
  <2>11. ClassBy(x, b) + ClassBy(y, b) = 6 /\ ClassBy(x, b) # 0 /\ ClassBy(y, b) # 0
    <3>1. ClassBy(x, b) = IF x <= b1 THEN 1 ELSE IF x < b2 THEN 2 ELSE IF x <= b3 THEN 3 ELSE IF x < b4 THEN 4 ELSE 5
      BY <2>6 DEF ClassBy
    <3>2. ClassBy(y, b) = IF y <= b1 THEN 1 ELSE IF y < b2 THEN 2 ELSE IF y <= b3 THEN 3 ELSE IF y < b4 THEN 4 ELSE 5
      BY <2>6 DEF ClassBy
    <3>3. b1 < b2 /\ b2 <= b3 /\ b1 + b4 = z /\ b2 + b3 = z /\ x + y = z
      BY <2>7, <2>10
    <3> QED
      BY ONLY <3>1, <3>2, <3>3, b1 \in Nat, b2 \in Nat, b3 \in Nat, b4 \in Nat, x \in Nat, y \in Nat, z \in Nat
  <2> QED
    BY <2>9, <2>10, <2>11
<1> QED
  BY <1>1, <1>2

LEMMA MatchupsHold ==
  ASSUME ScoresAssumption, ScoresFacts
  PROVE  MatchupsMirror
<1>1. \A r : With(r, DOMAIN played) \in SUBSET All
  BY Places DEF With
<1>2. \A r : Count(r) \in Nat
  BY <1>1, Places, FS_Subset, FS_CardinalityType DEF Count
<1>3. PICK w \in Nat : w = Count("victory")
  BY <1>2
<1>4. PICK l \in Nat : l = Count("defeat")
  BY <1>2
<1>5. PICK n \in Nat : n = Len(played)
  BY Places
<1>6. /\ Classify(w, l, n) = 0 <=> Classify(l, w, n) = 0
      /\ Classify(w, l, n) # 0 => Classify(w, l, n) + Classify(l, w, n) = 6
  BY ClassesMirror
<1>7. Qualifying(w, l, n) <=> Qualifying(l, w, n)
  BY <1>6 DEF Qualifying
<1>8. IF Classify(w, l, n) = 0 THEN Classify(l, w, n) = 0 ELSE Classify(w, l, n) + Classify(l, w, n) = 6
  BY <1>6
<1> QED
  BY <1>3, <1>4, <1>5, <1>7, <1>8 DEF MatchupsMirror

-----------------------------------------------------------------------------
(* The newest battle of a player and the one it pushes out, if any.           *)

OneAtMost(X) == X = {} \/ \E m \in All : X = {m}

LEMMA WithoutWeighs ==
  ASSUME ScoresAssumption, ScoresFacts, NEW S \in SUBSET All, NEW X, OneAtMost(X)
  PROVE  Weighted(S \ X) <= Weighted(S) /\ (X \cap S = {} => S \ X = S)
<1>1. CASE X \cap S = {}
  <2>1. S \ X = S
    BY <1>1
  <2>2. Weighted(S) \in Nat
    BY WeightedIsNat
  <2> QED
    BY <2>1, <2>2
<1>2. CASE X \cap S # {}
  <2>1. PICK m \in S : X = {m}
    BY <1>2 DEF OneAtMost
  <2>2. Weighted(S) = Weighted(S \ {m}) + WeightOf(m)
    BY OneLessWeighs
  <2>3. Weighted(S \ {m}) \in Nat /\ WeightOf(m) \in Nat
    BY WeightedIsNat, Weights
  <2>4. Weighted(S \ {m}) <= Weighted(S)
    BY <2>2, <2>3
  <2> QED
    BY <1>2, <2>1, <2>4
<1> QED
  BY <1>1, <1>2

\* What it does to the two results that decide: the weight of its own grows, that of
\* the other does not, and nothing else changes when nothing is pushed out.
Exchange(S, X, n) == (S \ X) \cup {n}

Grows(v, l, v1, l1) == v <= v1 /\ 360 <= v1 /\ l1 <= l
Adds(v, l, v1, l1) == v1 = v + 360 /\ l1 = l

LEMMA ExchangeWeighs ==
  ASSUME ScoresAssumption, ScoresFacts, NEW S \in SUBSET All, NEW X, OneAtMost(X),
         NEW n \in All, n \notin S, DaysAgo(n) = 0,
         NEW r, played[n].result = r, NEW q, q # r
  PROVE  /\ Grows(Weighted(With(r, S)), Weighted(With(q, S)),
                  Weighted(With(r, Exchange(S, X, n))), Weighted(With(q, Exchange(S, X, n))))
         /\ X \cap S = {} =>
              Adds(Weighted(With(r, S)), Weighted(With(q, S)),
                   Weighted(With(r, Exchange(S, X, n))), Weighted(With(q, Exchange(S, X, n))))
<1>1. PICK R \in SUBSET All : R = With(r, S)
  BY DEF With
<1>2. PICK Q \in SUBSET All : Q = With(q, S)
  BY DEF With
<1>3. With(r, Exchange(S, X, n)) = (R \ X) \cup {n}
  BY <1>1 DEF With, Exchange
<1>4. With(q, Exchange(S, X, n)) = Q \ X
  BY <1>2 DEF With, Exchange
<1>5. n \notin R \ X /\ R \in SUBSET S /\ Q \in SUBSET S
  BY <1>1, <1>2 DEF With
<1>6. Weighted((R \ X) \cup {n}) = Weighted(R \ X) + 360
  <2>1. WeightOf(n) = 360
    BY Weights
  <2>2. PICK T \in SUBSET All : T = R \ X
    OBVIOUS
  <2>3. n \notin T
    BY <1>5, <2>2
  <2>4. Weighted(T \cup {n}) = Weighted(T) + 360
    BY <2>1, <2>3, OneMoreWeighs
  <2> QED
    BY <2>2, <2>4, Zenon
<1>7. /\ Weighted(R \ X) <= Weighted(R) /\ (X \cap R = {} => R \ X = R)
      /\ Weighted(Q \ X) <= Weighted(Q) /\ (X \cap Q = {} => Q \ X = Q)
  BY WithoutWeighs
<1>8. Weighted(R) <= Weighted(R \ X) + 360
  <2>1. CASE X \cap R = {}
    <3>1. PICK v \in Nat : v = Weighted(R)
      BY WeightedIsNat
    <3>2. v <= v + 360
      BY <3>1
    <3> QED
      BY <1>7, <2>1, <3>1, <3>2
  <2>2. CASE X \cap R # {}
    <3>1. PICK m \in R : X = {m}
      BY <2>2 DEF OneAtMost
    <3>2. Weighted(R) = Weighted(R \ {m}) + WeightOf(m) /\ WeightOf(m) <= 360
      BY OneLessWeighs, Weights
    <3>3. Weighted(R \ {m}) \in Nat /\ WeightOf(m) \in Nat
      BY WeightedIsNat, Weights
    <3>4. Weighted(R) <= Weighted(R \ {m}) + 360
      BY <3>2, <3>3
    <3> QED
      BY <3>1, <3>4, Zenon
  <2> QED
    BY <2>1, <2>2
<1>9. /\ Weighted(R) \in Nat /\ Weighted(R \ X) \in Nat
      /\ Weighted(Q) \in Nat /\ Weighted(Q \ X) \in Nat
  BY WeightedIsNat
<1>10. Grows(Weighted(R), Weighted(Q), Weighted((R \ X) \cup {n}), Weighted(Q \ X))
  BY <1>6, <1>7, <1>8, <1>9 DEF Grows
<1>11. X \cap S = {} => R \ X = R /\ Q \ X = Q
  BY <1>5, <1>7
<1> QED
  BY ZenonT(30), <1>1, <1>2, <1>3, <1>4, <1>6, <1>10, <1>11 DEF Adds

\* How many there are.
LEMMA ExchangeCounts ==
  ASSUME ScoresAssumption, ScoresFacts, NEW S \in SUBSET All, NEW X, OneAtMost(X),
         NEW n \in All, n \notin S
  PROVE  /\ Exchange(S, X, n) \in SUBSET All
         /\ IF X \cap S = {} THEN Cardinality(Exchange(S, X, n)) = Cardinality(S) + 1
            ELSE Cardinality(Exchange(S, X, n)) = Cardinality(S)
<1>1. IsFiniteSet(S) /\ Cardinality(S) \in Nat
  BY Places, FS_Subset, FS_CardinalityType
<1>2. Exchange(S, X, n) \in SUBSET All
  BY DEF Exchange
<1>3. CASE X \cap S = {}
  <2>1. Exchange(S, X, n) = S \cup {n}
    BY <1>3 DEF Exchange
  <2>2. Cardinality(S \cup {n}) = Cardinality(S) + 1
    BY <1>1, FS_AddElement
  <2> QED
    BY <1>2, <1>3, <2>1, <2>2
<1>4. CASE X \cap S # {}
  <2>1. PICK m \in S : X = {m}
    BY <1>4 DEF OneAtMost
  <2>2. IsFiniteSet(S \ {m}) /\ Cardinality(S \ {m}) = Cardinality(S) - 1
    BY <1>1, FS_RemoveElement
  <2>3. Cardinality((S \ {m}) \cup {n}) = Cardinality(S \ {m}) + 1
    BY <2>2, FS_AddElement
  <2>4. Exchange(S, X, n) = (S \ {m}) \cup {n}
    BY <2>1 DEF Exchange
  <2> QED
    BY <1>1, <1>2, <1>4, <2>2, <2>3, <2>4
<1> QED
  BY <1>3, <1>4

LEMMA ExchangeInPatch ==
  ASSUME ScoresAssumption, ScoresFacts, NEW S \in SUBSET All, NEW X,
         NEW n \in All, n \notin S, played[n].patch = patch
  PROVE  /\ Current(Exchange(S, X, n)) = Exchange(Current(S), X, n)
         /\ n \notin Current(S)
BY DEF Current, Exchange

\* What is decided weighs 360 for each battle at most.
LEMMA DecidedWeighsAtMost ==
  ASSUME ScoresAssumption, ScoresFacts, NEW S \in SUBSET All
  PROVE  Wins(S) + Losses(S) <= 360 * Cardinality(S)
<1>1. PICK V \in SUBSET S, L \in SUBSET S : V = With("victory", S) /\ L = With("defeat", S) /\ V \cap L = {}
  <2>1. With("victory", S) \in SUBSET S /\ With("defeat", S) \in SUBSET S
    BY DEF With
  <2>2. \A i \in With("victory", S) : i \notin With("defeat", S)
    BY DEF With
  <2>3. With("victory", S) \cap With("defeat", S) = {}
    BY <2>2
  <2> QED
    BY <2>1, <2>3, Zenon
<1>2. IsFiniteSet(S) /\ IsFiniteSet(V) /\ IsFiniteSet(L)
  BY Places, FS_Subset
<1>3. Cardinality(V \cup L) = Cardinality(V) + Cardinality(L)
  <2>1. Cardinality(V \cup L) = Cardinality(V) + Cardinality(L) - Cardinality(V \cap L)
    BY <1>2, FS_Union
  <2>2. Cardinality(V \cap L) = 0
    BY <1>1, FS_EmptySet, Zenon
  <2>3. Cardinality(V) \in Nat /\ Cardinality(L) \in Nat
    BY <1>2, FS_CardinalityType
  <2> QED
    BY <2>1, <2>2, <2>3
<1>4. Cardinality(V \cup L) <= Cardinality(S)
  BY <1>2, FS_Subset
<1>5. Weighted(V) <= 360 * Cardinality(V) /\ Weighted(L) <= 360 * Cardinality(L)
  BY WeighsAtMost
<1>6. /\ Weighted(V) \in Nat /\ Weighted(L) \in Nat
      /\ Cardinality(V) \in Nat /\ Cardinality(L) \in Nat /\ Cardinality(S) \in Nat
  BY <1>2, WeightedIsNat, FS_CardinalityType
<1> QED
  BY <1>1, <1>3, <1>4, <1>5, <1>6 DEF Wins, Losses

-----------------------------------------------------------------------------
(* What that does to the blend, in numbers.  w is the weight of the patch, v and l   *)
(* what is for and against in it, x and y what is for and against in all.           *)

\* The share of the patch gains with its weight: (d - v) (360 w - d) is not negative.
LEMMA ShareGains ==
  ASSUME NEW w \in Nat, NEW v \in Nat, NEW l \in Nat, v + l <= 360 * w
  PROVE  GainsAPart(w, v, v + l, v + 360, v + 360 + l)
<1>1. PICK k \in Nat : 360 * w = v + l + k
  <2>1. 360 * w - (v + l) \in Nat /\ 360 * w = v + l + (360 * w - (v + l))
    OBVIOUS
  <2> QED
    BY <2>1, Zenon
<1>2. (w + 1) * ((v + 360) * (v + l)) = (w * v + (v + l)) * (v + 360 + l) + l * (360 * w) - l * (v + l)
  OBVIOUS
<1>3. l * (360 * w) - l * (v + l) = l * k
  <2>1. l * (v + l + k) = l * (v + l) + l * k
    OBVIOUS
  <2>2. PICK p \in Nat, q \in Nat, t \in Nat : p = l * (v + l) /\ q = l * k /\ t = l * (360 * w)
    <3>1. l * (v + l) \in Nat /\ l * k \in Nat /\ l * (360 * w) \in Nat
      OBVIOUS
    <3> QED
      BY <3>1, Zenon
  <2>3. t = p + q
    BY <1>1, <2>1, <2>2
  <2> QED
    BY <2>2, <2>3
<1>4. PICK m \in Int : m = (w * v + (v + l)) * (v + 360 + l)
  OBVIOUS
<1>5. l * k \in Nat
  OBVIOUS
<1>6. PICK j \in Nat : j = l * k
  BY <1>5
<1>7. PICK p \in Int, q \in Int : p = l * (360 * w) /\ q = l * (v + l)
  <2>1. l * (360 * w) \in Int /\ l * (v + l) \in Int
    OBVIOUS
  <2> QED
    BY <2>1, Zenon
<1>8. p - q = j
  BY <1>3, <1>6, <1>7
<1>9. (w + 1) * ((v + 360) * (v + l)) = m + p - q
  BY <1>2, <1>4, <1>7
<1>10. m <= m + p - q
  BY <1>8
<1> QED
  BY <1>4, <1>9, <1>10 DEF GainsAPart

IsSum(n, v, l) == n = v + l

OneMore(w, v, l, w1, v1, l1) ==
    w1 = w + 1 /\ Adds(v, l, v1, l1) /\ v + l <= 360 * w

\* The side that gains when the weight does gains a part of it.
LEMMA OneMoreGains ==
  ASSUME NEW w \in Nat, NEW v \in Nat, NEW l \in Nat, NEW d, IsSum(d, v, l),
         NEW w1, NEW v1, NEW l1, NEW d1, IsSum(d1, v1, l1), OneMore(w, v, l, w1, v1, l1)
  PROVE  GainsAPart(w, v, d, v1, d1)
<1>1. v + l <= 360 * w
  BY DEF OneMore
<1>2. GainsAPart(w, v, v + l, v + 360, v + 360 + l)
  BY ZenonT(30), <1>1, ShareGains
<1>3. v1 = v + 360 /\ l1 = l
  BY DEF OneMore, Adds
<1>4. d = v + l /\ d1 = v + 360 + l
  BY <1>3 DEF IsSum
<1> QED
  BY <1>2, <1>3, <1>4, Zenon

\* More for and less against is a larger share.
LEMMA LargerShare ==
  ASSUME NEW v \in Nat, NEW l \in Nat, NEW d, IsSum(d, v, l),
         NEW v1 \in Nat, NEW l1 \in Nat, NEW d1, IsSum(d1, v1, l1), v <= v1, l1 <= l
  PROVE  ShareAtMost(v, d, v1, d1)
<1>1. v * l1 <= v * l
  BY Scaled
<1>2. l * v <= l * v1
  BY Scaled
<1>3. v * (v1 + l1) = v * v1 + v * l1 /\ v1 * (v + l) = v * v1 + l * v1 /\ l * v = v * l
  OBVIOUS
<1>4. v * v1 \in Nat /\ v * l1 \in Nat /\ v * l \in Nat /\ l * v1 \in Nat
  OBVIOUS
<1>5. v * (v1 + l1) <= v1 * (v + l)
  BY ONLY <1>1, <1>2, <1>3, <1>4
<1>6. d = v + l /\ d1 = v1 + l1
  BY DEF IsSum
<1> QED
  BY ONLY <1>5, <1>6 DEF ShareAtMost

WeightFollows(w, v, l, w1, v1, l1) == w1 = w \/ OneMore(w, v, l, w1, v1, l1)

BlendAtMost(w, v, d, x, e, w1, v1, d1, x1, e1) ==
    ShareAtMost(BlendNum(w, v, d, x, e), d * e, BlendNum(w1, v1, d1, x1, e1), d1 * e1)

MovesToSide(w, v, l, d, x, y, e, w1, v1, l1, d1, x1, y1, e1) ==
    /\ Grows(v, l, v1, l1) /\ Grows(x, y, x1, y1) /\ WeightFollows(w, v, l, w1, v1, l1)
    /\ w <= FullBlend /\ w1 <= FullBlend
    /\ IsSum(d, v, l) /\ IsSum(e, x, y) /\ IsSum(d1, v1, l1) /\ IsSum(e1, x1, y1)

\* So the side that gains has a larger share of the blend; with no rate in the patch
\* before, than of all battles.
LEMMA SideGains ==
  ASSUME ScoresAssumption,
         NEW w \in Nat, NEW v \in Nat, NEW l \in Nat, NEW d \in Nat,
         NEW x \in Nat, NEW y \in Nat, NEW e \in Nat,
         NEW w1 \in Nat, NEW v1 \in Nat, NEW l1 \in Nat, NEW d1 \in Nat,
         NEW x1 \in Nat, NEW y1 \in Nat, NEW e1 \in Nat,
         MovesToSide(w, v, l, d, x, y, e, w1, v1, l1, d1, x1, y1, e1)
  PROVE  /\ d1 # 0 /\ e1 # 0
         /\ BlendAtMost(w, v, d, x, e, w1, v1, d1, x1, e1)
         /\ d = 0 => BlendAtMost(w1, x, e, x, e, w1, v1, d1, x1, e1)
<1>0. d = v + l /\ e = x + y /\ d1 = v1 + l1 /\ e1 = x1 + y1
  BY DEF IsSum, MovesToSide
<1>1. /\ v <= v1 /\ l1 <= l /\ x <= x1 /\ y1 <= y /\ 360 <= v1 /\ 360 <= x1
      /\ w <= FullBlend /\ w1 <= FullBlend
  BY DEF Grows, MovesToSide
<1>7. IsSum(d, v, l) /\ IsSum(e, x, y) /\ IsSum(d1, v1, l1) /\ IsSum(e1, x1, y1)
  BY DEF MovesToSide
<1>2. ShareAtMost(x, e, x1, e1)
  BY <1>1, <1>7, LargerShare
<1>3. ShareAtMost(v, d, v1, d1)
  BY <1>1, <1>7, LargerShare
<1>4. ShareAtMost(BlendNum(w, v, d, x, e), d * e, BlendNum(w1, v1, d1, x1, e1), d1 * e1)
  <2>1. CASE w1 = w
    <3>1. ShareAtMost(BlendNum(w, v, d, x, e), d * e, BlendNum(w, v1, d1, x1, e1), d1 * e1)
      BY <1>1, <1>2, <1>3, BlendGrows
    <3> QED
      BY <2>1, <3>1
  <2>2. CASE OneMore(w, v, l, w1, v1, l1)
    <3>1. GainsAPart(w, v, d, v1, d1)
      BY <1>7, <2>2, OneMoreGains
    <3>2. w + 1 <= FullBlend
      BY <1>1, <2>2 DEF OneMore, Adds
    <3>3. ShareAtMost(BlendNum(w, v, d, x, e), d * e, BlendNum(w + 1, v1, d1, x1, e1), d1 * e1)
      <4>1. x <= e
        BY <1>0
      <4> QED
        BY <1>2, <3>1, <3>2, <4>1, BlendGains
    <3> QED
      BY <2>2, <3>3 DEF OneMore, Adds
  <2> QED
    BY <2>1, <2>2 DEF WeightFollows, MovesToSide
<1>5. d1 # 0 /\ e1 # 0
  BY <1>0, <1>1
<1>6. ASSUME d = 0
      PROVE  ShareAtMost(BlendNum(w1, x, e, x, e), e * e, BlendNum(w1, v1, d1, x1, e1), d1 * e1)
  <2>1. d1 = v1
    BY <1>0, <1>1, <1>6
  <2>2. ShareAtMost(x, e, v1, v1)
    <3>1. x <= e
      BY <1>0
    <3>2. v1 * x <= v1 * e
      BY <3>1, Scaled
    <3>3. v1 * x = x * v1
      OBVIOUS
    <3> QED
      BY <3>2, <3>3 DEF ShareAtMost
  <2>3. ShareAtMost(BlendNum(w1, x, e, x, e), e * e, BlendNum(w1, v1, v1, x1, e1), v1 * e1)
    BY <1>1, <1>2, <2>2, BlendGrows
  <2> QED
    BY <2>1, <2>3
<1> QED
  BY <1>4, <1>5, <1>6 DEF BlendAtMost

\* For and against make up the whole.
LEMMA ForAndAgainst ==
  ASSUME ScoresAssumption, NEW w \in Nat, w <= FullBlend,
         NEW v \in Nat, NEW l \in Nat, NEW x \in Nat, NEW y \in Nat,
         NEW d \in Nat, IsSum(d, v, l), NEW e \in Nat, IsSum(e, x, y)
  PROVE  IsSum(FullBlend * (d * e), BlendNum(w, v, d, x, e), BlendNum(w, l, d, y, e))
<1>1. PICK u \in Nat : u = FullBlend - w /\ FullBlend = w + u
  BY DEF ScoresAssumption
<1>2. w * (v * (x + y)) + u * (x * (v + l)) + (w * (l * (x + y)) + u * (y * (v + l)))
        = (w + u) * ((v + l) * (x + y))
  OBVIOUS
<1> QED
  BY <1>1, <1>2 DEF BlendNum, IsSum

\* A comparison of rates by what is for, or by what is against.
LEMMA BlendsCompare ==
  ASSUME ScoresAssumption, NEW n \in Nat, NEW h \in Nat \ {0}, NEW n1 \in Nat, NEW h1 \in Nat \ {0},
         NEW b, IsRate(b, n, FullBlend * h), NEW b1, IsRate(b1, n1, FullBlend * h1),
         ShareAtMost(n, h, n1, h1)
  PROVE  AtMost(b, b1)
<1>1. PICK F \in Nat \ {0} : F = FullBlend
  BY DEF ScoresAssumption
<1>2. F * h \in Nat \ {0} /\ F * h1 \in Nat \ {0}
  OBVIOUS
<1>3. AtMost(b, b1) <=> n * (F * h1) <= n1 * (F * h)
  BY <1>1, <1>2, RatesCompare
<1>4. n * (F * h1) = F * (n * h1) /\ n1 * (F * h) = F * (n1 * h)
  OBVIOUS
<1>5. n * h1 \in Int /\ n1 * h \in Int
  OBVIOUS
<1>6. n * h1 <= n1 * h
  BY DEF ShareAtMost
<1> QED
  BY <1>3, <1>4, <1>5, <1>6, Scaled

LEMMA BlendsCompareAgainst ==
  ASSUME ScoresAssumption, NEW n \in Nat, NEW h \in Nat \ {0}, NEW n1 \in Nat, NEW h1 \in Nat \ {0},
         NEW b, IsRate(b, n, FullBlend * h), NEW b1, IsRate(b1, n1, FullBlend * h1),
         NEW m \in Nat, NEW m1 \in Nat, IsSum(FullBlend * h, n, m), IsSum(FullBlend * h1, n1, m1),
         ShareAtMost(m, h, m1, h1)
  PROVE  AtMost(b1, b)
<1>1. PICK F \in Nat \ {0} : F = FullBlend /\ F * h = n + m /\ F * h1 = n1 + m1
  BY DEF ScoresAssumption, IsSum
<1>2. (n + m) * h1 = n * h1 + m * h1 /\ (n1 + m1) * h = n1 * h + m1 * h
  OBVIOUS
<1>3. (F * h) * h1 = (F * h1) * h
  OBVIOUS
<1>4. n * h1 + m * h1 = n1 * h + m1 * h
  BY <1>1, <1>2, <1>3
<1>5. m * h1 \in Nat /\ m1 * h \in Nat /\ n * h1 \in Nat /\ n1 * h \in Nat
  OBVIOUS
<1>6. m * h1 <= m1 * h
  BY DEF ShareAtMost
<1>7. n1 * h <= n * h1
  BY ONLY <1>4, <1>5, <1>6
<1>8. ShareAtMost(n1, h1, n, h)
  BY <1>7 DEF ShareAtMost
<1> QED
  BY <1>8, BlendsCompare

-----------------------------------------------------------------------------
(* A battle won today does not lower the rate, one lost does not raise it.           *)

\* The numbers of a rate.  Without a rate of the patch, that of all battles counts as
\* one, with any weight.
LEMMA BlendedNumbers ==
  ASSUME ScoresAssumption, ScoresFacts, NEW S \in SUBSET All, BlendedWinRate(S) # None,
         NEW v \in Nat, v = Wins(Current(S)), NEW l \in Nat, l = Losses(Current(S)),
         NEW x \in Nat, x = Wins(S), NEW y \in Nat, y = Losses(S),
         NEW w \in Nat, w = BlendWeight(Cardinality(Current(S))),
         NEW d \in Nat, IsSum(d, v, l), NEW e \in Nat, IsSum(e, x, y)
  PROVE  /\ e # 0 /\ w <= FullBlend
         /\ d # 0 => IsRate(BlendedWinRate(S), BlendNum(w, v, d, x, e), FullBlend * (d * e))
         /\ d = 0 => \A k \in Nat : k <= FullBlend =>
              IsRate(BlendedWinRate(S), BlendNum(k, x, e, x, e), FullBlend * (e * e))
<1>0. d = v + l /\ e = x + y
  BY DEF IsSum
<1>1. PICK c, a : c = WeightedWinRate(Current(S)) /\ a = WeightedWinRate(S)
  OBVIOUS
<1>2. BlendedWinRate(S) = Blend(c, a, w)
  BY <1>1 DEF BlendedWinRate
<1>3. a # None
  BY <1>1, BlendOfSet
<1>4. e \in Nat \ {0} /\ IsRate(a, x, e)
  BY <1>0, <1>1, <1>3, RateOfSet
<1>5. w <= FullBlend
  BY CurrentOf
<1>6. c = None <=> d = 0
  BY <1>0, <1>1, CurrentOf, RateOfSet
<1>7. ASSUME d # 0
      PROVE  IsRate(BlendedWinRate(S), BlendNum(w, v, d, x, e), FullBlend * (d * e))
  <2>1. d \in Nat \ {0} /\ IsRate(c, v, d)
    BY <1>0, <1>1, <1>6, <1>7, CurrentOf, RateOfSet
  <2>2. IsRate(Blend(c, a, w), BlendNum(w, v, d, x, e), FullBlend * (d * e))
    BY <1>3, <1>4, <1>5, <1>6, <1>7, <2>1, BlendIsRate
  <2> QED
    BY <1>2, <1>4, <2>1, <2>2
<1>8. ASSUME d = 0, NEW k \in Nat, k <= FullBlend
      PROVE  IsRate(BlendedWinRate(S), BlendNum(k, x, e, x, e), FullBlend * (e * e))
  <2>1. Blend(c, a, w) = a
    BY <1>6, <1>8 DEF Blend
  <2>2. PICK F \in Nat \ {0}, u \in Nat : F = FullBlend /\ u = F - k /\ F = k + u
    BY <1>8 DEF ScoresAssumption
  <2>3. BlendNum(k, x, e, x, e) = F * (x * e)
    <3>1. k * (x * e) + u * (x * e) = (k + u) * (x * e)
      OBVIOUS
    <3> QED
      BY <2>2, <3>1 DEF BlendNum
  <2>4. PICK p \in Nat, q \in Nat \ {0} : p = a[1] /\ q = a[2] /\ p * e = x * q
    BY <1>4 DEF IsRate
  <2>5. p * (F * (e * e)) = (F * (x * e)) * q
    <3>1. p * (F * (e * e)) = (p * e) * (F * e)
      OBVIOUS
    <3>2. (x * q) * (F * e) = (F * (x * e)) * q
      OBVIOUS
    <3> QED
      BY <2>4, <3>1, <3>2
  <2> QED
    BY <1>2, <1>4, <2>1, <2>2, <2>3, <2>4, <2>5 DEF IsRate
<1> QED
  BY <1>4, <1>5, <1>7, <1>8

\* The weight of the patch stays or grows by one with a battle that pushes out none of it.
LEMMA WeightOfPatch ==
  ASSUME ScoresAssumption, ScoresFacts, NEW C \in SUBSET All, NEW X, OneAtMost(X),
         NEW n \in All, n \notin C, DaysAgo(n) = 0,
         NEW r \in {"victory", "defeat"}, played[n].result = r,
         NEW q \in {"victory", "defeat"}, q # r,
         NEW w \in Nat, w = BlendWeight(Cardinality(C)),
         NEW w1 \in Nat, w1 = BlendWeight(Cardinality(Exchange(C, X, n)))
  PROVE  WeightFollows(w, Weighted(With(r, C)), Weighted(With(q, C)),
                       w1, Weighted(With(r, Exchange(C, X, n))), Weighted(With(q, Exchange(C, X, n))))
<1>1. PICK k \in Nat, F \in Nat : k = Cardinality(C) /\ F = FullBlend
  <2>1. Cardinality(C) \in Nat /\ FullBlend \in Nat
    BY Places, FS_Subset, FS_CardinalityType DEF ScoresAssumption
  <2> QED
    BY <2>1, Zenon
<1>2. PICK m \in Nat : m = Cardinality(Exchange(C, X, n)) /\ m = IF X \cap C = {} THEN k + 1 ELSE k
  BY <1>1, ExchangeCounts
<1>3. w = (IF k < F THEN k ELSE F) /\ w1 = (IF m < F THEN m ELSE F)
  BY <1>1, <1>2 DEF BlendWeight
<1>4. CASE w1 = w
  BY <1>4 DEF WeightFollows
<1>5. CASE w1 # w
  <2>1. X \cap C = {} /\ w1 = w + 1 /\ w = k
    BY <1>2, <1>3, <1>5
  <2>2. Adds(Weighted(With(r, C)), Weighted(With(q, C)),
             Weighted(With(r, Exchange(C, X, n))), Weighted(With(q, Exchange(C, X, n))))
    <3>1. X \cap C = {}
      BY <2>1
    <3> QED
      BY ZenonT(30), <3>1, ExchangeWeighs
  <2>3. Weighted(With(r, C)) + Weighted(With(q, C)) <= 360 * k
    <3>1. Wins(C) + Losses(C) <= 360 * k
      BY <1>1, DecidedWeighsAtMost
    <3>2. Losses(C) + Wins(C) = Wins(C) + Losses(C)
      BY RateOfSet
    <3> QED
      BY <3>1, <3>2 DEF Wins, Losses
  <2> QED
    BY <2>1, <2>2, <2>3 DEF OneMore, WeightFollows
<1> QED
  BY <1>4, <1>5

-----------------------------------------------------------------------------
LEMMA BattleGains ==
  ASSUME ScoresAssumption, ScoresFacts, NEW S \in SUBSET All, NEW C \in SUBSET All,
         NEW X, OneAtMost(X), NEW n \in All, n \notin S, n \notin C, DaysAgo(n) = 0,
         NEW r \in {"victory", "defeat"}, played[n].result = r,
         NEW q \in {"victory", "defeat"}, q # r,
         NEW T, T = Exchange(S, X, n), NEW D, D = Exchange(C, X, n),
         NEW w \in Nat, w = BlendWeight(Cardinality(C)),
         NEW w1 \in Nat, w1 = BlendWeight(Cardinality(D))
  PROVE  /\ Grows(Weighted(With(r, S)), Weighted(With(q, S)), Weighted(With(r, T)), Weighted(With(q, T)))
         /\ Grows(Weighted(With(r, C)), Weighted(With(q, C)), Weighted(With(r, D)), Weighted(With(q, D)))
         /\ WeightFollows(w, Weighted(With(r, C)), Weighted(With(q, C)),
                          w1, Weighted(With(r, D)), Weighted(With(q, D)))
<1>1. Grows(Weighted(With(r, S)), Weighted(With(q, S)),
            Weighted(With(r, Exchange(S, X, n))), Weighted(With(q, Exchange(S, X, n))))
  BY ZenonT(30), ExchangeWeighs
<1>2. Grows(Weighted(With(r, C)), Weighted(With(q, C)),
            Weighted(With(r, Exchange(C, X, n))), Weighted(With(q, Exchange(C, X, n))))
  BY ZenonT(30), ExchangeWeighs
<1>3. w1 = BlendWeight(Cardinality(Exchange(C, X, n)))
  OBVIOUS
<1>4. WeightFollows(w, Weighted(With(r, C)), Weighted(With(q, C)),
                    w1, Weighted(With(r, Exchange(C, X, n))), Weighted(With(q, Exchange(C, X, n))))
  BY <1>3, WeightOfPatch
<1> QED
  BY <1>1, <1>2, <1>4

\* A battle of today in the active patch moves the rate to its side.
LEMMA BattleMovesRate ==
  ASSUME ScoresAssumption, ScoresFacts, NEW S \in SUBSET All, NEW X, OneAtMost(X),
         NEW n \in All, n \notin S, DaysAgo(n) = 0, played[n].patch = patch,
         NEW T \in SUBSET All, T = Exchange(S, X, n), BlendedWinRate(S) # None
  PROVE  /\ played[n].result = "victory" =>
              BlendedWinRate(T) # None /\ AtMost(BlendedWinRate(S), BlendedWinRate(T))
         /\ played[n].result = "defeat" => AtMost(BlendedWinRate(T), BlendedWinRate(S))
<1>1. PICK C \in SUBSET All : C = Current(S)
  BY CurrentOf
<1>2. n \notin C /\ Current(T) = Exchange(C, X, n)
  BY <1>1, ExchangeInPatch
<1>3. PICK D \in SUBSET All : D = Exchange(C, X, n) /\ D = Current(T)
  BY <1>2, CurrentOf
<1>4. PICK v \in Nat, l \in Nat : v = Wins(C) /\ l = Losses(C)
  BY RateOfSet
<1>5. PICK x \in Nat, y \in Nat : x = Wins(S) /\ y = Losses(S)
  BY RateOfSet
<1>6. PICK v1 \in Nat, l1 \in Nat : v1 = Wins(D) /\ l1 = Losses(D)
  BY RateOfSet
<1>7. PICK x1 \in Nat, y1 \in Nat : x1 = Wins(T) /\ y1 = Losses(T)
  BY RateOfSet
<1>8. PICK w \in Nat : w = BlendWeight(Cardinality(C)) /\ w <= FullBlend
  BY <1>1, CurrentOf
<1>9. PICK w1 \in Nat : w1 = BlendWeight(Cardinality(D)) /\ w1 <= FullBlend
  BY <1>3, CurrentOf
<1>10. PICK d \in Nat, e \in Nat, d1 \in Nat, e1 \in Nat :
         IsSum(d, v, l) /\ IsSum(e, x, y) /\ IsSum(d1, v1, l1) /\ IsSum(e1, x1, y1)
  <2>1. v + l \in Nat /\ x + y \in Nat /\ v1 + l1 \in Nat /\ x1 + y1 \in Nat
    OBVIOUS
  <2> QED
    BY <2>1, Zenon DEF IsSum
<1>11. PICK b, b1 : b = BlendedWinRate(S) /\ b1 = BlendedWinRate(T)
  OBVIOUS
<1>12. /\ e # 0
       /\ d # 0 => IsRate(b, BlendNum(w, v, d, x, e), FullBlend * (d * e))
       /\ d = 0 => IsRate(b, BlendNum(w1, x, e, x, e), FullBlend * (e * e))
  <2>1. /\ e # 0
        /\ d # 0 => IsRate(BlendedWinRate(S), BlendNum(w, v, d, x, e), FullBlend * (d * e))
        /\ d = 0 => \A k \in Nat : k <= FullBlend =>
             IsRate(BlendedWinRate(S), BlendNum(k, x, e, x, e), FullBlend * (e * e))
    BY <1>1, <1>4, <1>5, <1>8, <1>10, BlendedNumbers
  <2> QED
    BY <1>9, <1>11, <2>1
<1>13. ASSUME d1 # 0, e1 # 0
       PROVE  b1 # None /\ IsRate(b1, BlendNum(w1, v1, d1, x1, e1), FullBlend * (d1 * e1))
  <2>1. BlendedWinRate(T) # None
    BY <1>7, <1>10, <1>13, RateOfSet, BlendOfSet DEF IsSum
  <2> QED
    BY <1>3, <1>6, <1>7, <1>9, <1>10, <1>11, <1>13, <2>1, BlendedNumbers
<1>14. /\ BlendNum(w, v, d, x, e) \in Nat /\ BlendNum(w, l, d, y, e) \in Nat
       /\ BlendNum(w1, x, e, x, e) \in Nat /\ BlendNum(w1, y, e, y, e) \in Nat
       /\ BlendNum(w1, v1, d1, x1, e1) \in Nat /\ BlendNum(w1, l1, d1, y1, e1) \in Nat
  BY <1>8, <1>9, BlendNumIsNat
<1>15. \A i, j \in Nat : i # 0 /\ j # 0 => i * j \in Nat \ {0}
  OBVIOUS
<1>16. ASSUME played[n].result = "victory"
       PROVE  b1 # None /\ AtMost(b, b1)
  <2>1. MovesToSide(w, v, l, d, x, y, e, w1, v1, l1, d1, x1, y1, e1)
    BY <1>2, <1>3, <1>4, <1>5, <1>6, <1>7, <1>8, <1>9, <1>10, <1>16, BattleGains DEF Wins, Losses, MovesToSide
  <2>2. /\ d1 # 0 /\ e1 # 0
        /\ BlendAtMost(w, v, d, x, e, w1, v1, d1, x1, e1)
        /\ d = 0 => BlendAtMost(w1, x, e, x, e, w1, v1, d1, x1, e1)
    BY ZenonT(30), <2>1, SideGains
  <2>3. b1 # None /\ IsRate(b1, BlendNum(w1, v1, d1, x1, e1), FullBlend * (d1 * e1)) /\ d1 * e1 \in Nat \ {0}
    BY <1>13, <1>15, <2>2
  <2>4. CASE d # 0
    <3>1. IsRate(b, BlendNum(w, v, d, x, e), FullBlend * (d * e)) /\ d * e \in Nat \ {0}
      BY <1>12, <1>15, <2>4
    <3> QED
      BY <1>14, <2>2, <2>3, <3>1, BlendsCompare DEF BlendAtMost
  <2>5. CASE d = 0
    <3>1. IsRate(b, BlendNum(w1, x, e, x, e), FullBlend * (e * e)) /\ e * e \in Nat \ {0}
      BY <1>12, <1>15, <2>5
    <3> QED
      BY <1>14, <2>2, <2>3, <2>5, <3>1, BlendsCompare DEF BlendAtMost
  <2> QED
    BY <2>4, <2>5
<1>17. ASSUME played[n].result = "defeat"
       PROVE  AtMost(b1, b)
  <2>1. IsSum(d, l, v) /\ IsSum(e, y, x) /\ IsSum(d1, l1, v1) /\ IsSum(e1, y1, x1)
    BY <1>10 DEF IsSum
  <2>2. MovesToSide(w, l, v, d, y, x, e, w1, l1, v1, d1, y1, x1, e1)
    BY <1>2, <1>3, <1>4, <1>5, <1>6, <1>7, <1>8, <1>9, <1>17, <2>1, BattleGains DEF Wins, Losses, MovesToSide
  <2>3. /\ d1 # 0 /\ e1 # 0
        /\ BlendAtMost(w, l, d, y, e, w1, l1, d1, y1, e1)
        /\ d = 0 => BlendAtMost(w1, y, e, y, e, w1, l1, d1, y1, e1)
    BY ZenonT(30), <2>2, SideGains
  <2>4. b1 # None /\ IsRate(b1, BlendNum(w1, v1, d1, x1, e1), FullBlend * (d1 * e1)) /\ d1 * e1 \in Nat \ {0}
    BY <1>13, <1>15, <2>3
  <2>5. IsSum(FullBlend * (d1 * e1), BlendNum(w1, v1, d1, x1, e1), BlendNum(w1, l1, d1, y1, e1))
    BY <1>9, <1>10, ForAndAgainst
  <2>6. CASE d # 0
    <3>1. IsRate(b, BlendNum(w, v, d, x, e), FullBlend * (d * e)) /\ d * e \in Nat \ {0}
      BY <1>12, <1>15, <2>6
    <3>2. IsSum(FullBlend * (d * e), BlendNum(w, v, d, x, e), BlendNum(w, l, d, y, e))
      BY <1>8, <1>10, ForAndAgainst
    <3> QED
      BY <1>14, <2>3, <2>4, <2>5, <3>1, <3>2, BlendsCompareAgainst DEF BlendAtMost
  <2>7. CASE d = 0
    <3>1. IsRate(b, BlendNum(w1, x, e, x, e), FullBlend * (e * e)) /\ e * e \in Nat \ {0}
      BY <1>12, <1>15, <2>7
    <3>2. IsSum(FullBlend * (e * e), BlendNum(w1, x, e, x, e), BlendNum(w1, y, e, y, e))
      BY <1>9, <1>10, ForAndAgainst
    <3> QED
      BY <1>14, <2>3, <2>4, <2>5, <2>7, <3>1, <3>2, BlendsCompareAgainst DEF BlendAtMost
  <2> QED
    BY <2>6, <2>7
<1> QED
  BY <1>11, <1>16, <1>17

-----------------------------------------------------------------------------
\* The newest battle is added to what counts, and pushes out one battle of its player
\* when that has as many as the cap.
Newer(i, known) == {j \in known : j > i /\ played[j].player = played[i].player}

LEMMA FewerAreNewer ==
  ASSUME ScoresAssumption, ScoresFacts, NEW S \in SUBSET All, NEW a \in S, NEW b \in S, a < b,
         played[a].player = played[b].player
  PROVE  Cardinality(Newer(b, S)) # Cardinality(Newer(a, S))
<1>1. b \in Newer(a, S) /\ b \notin Newer(b, S)
  <2>1. ~(b > b) /\ b > a
    BY Places
  <2> QED
    BY <2>1 DEF Newer
<1>2. Newer(b, S) \in SUBSET Newer(a, S)
  <2>1. \A j \in S : j > b => j > a
    BY SMTT(30), Places
  <2> QED
    BY <2>1 DEF Newer
<1>3. IsFiniteSet(Newer(a, S))
  <2>1. Newer(a, S) \in SUBSET All
    BY DEF Newer
  <2> QED
    BY <2>1, Places, FS_Subset
<1>4. Cardinality(Newer(b, S)) = Cardinality(Newer(a, S)) => Newer(b, S) = Newer(a, S)
  BY <1>2, <1>3, FS_Subset
<1> QED
  BY <1>1, <1>4

LEMMA CappedExchange ==
  ASSUME ScoresAssumption, ScoresFacts, played # <<>>
  PROVE  \E n \in All, S \in SUBSET All, X \in SUBSET All :
           /\ n = Len(played) /\ S = CappedOf(1..n - 1) /\ n \notin S
           /\ OneAtMost(X) /\ Capped = Exchange(S, X, n)
           /\ \A m \in X : played[m].player = played[n].player
<1>0. PICK n, S : n = Len(played) /\ S = CappedOf(1..n - 1)
  OBVIOUS
<1>1. PICK old : old = 1..n - 1
  OBVIOUS
<1>2. n \in Nat \ {0}
  BY <1>0, Places, EmptySeq DEF ScoresFacts
<1>3. All = old \cup {n} /\ n \notin old /\ old \in SUBSET All /\ n \in All /\ old \in SUBSET Nat
  BY <1>0, <1>1, <1>2 DEF All
<1>4. PICK K \in Nat \ {0} : K = PerPlayerCap
  BY DEF ScoresAssumption
<1>5. S = {i \in old : K > Cardinality(Newer(i, old))}
  BY <1>0, <1>1, <1>4 DEF CappedOf, Newer
<1>6. Capped = {i \in All : K > Cardinality(Newer(i, All))}
  BY <1>4, Places DEF Capped, CappedOf, Newer
<1>7. ASSUME NEW i \in old
      PROVE  /\ IsFiniteSet(Newer(i, old)) /\ Cardinality(Newer(i, old)) \in Nat
             /\ Cardinality(Newer(i, All)) =
                  IF played[n].player = played[i].player THEN Cardinality(Newer(i, old)) + 1
                  ELSE Cardinality(Newer(i, old))
  <2>1. Newer(i, old) \in SUBSET All
    BY <1>3 DEF Newer
  <2>2. IsFiniteSet(Newer(i, old)) /\ Cardinality(Newer(i, old)) \in Nat
    <3>1. IsFiniteSet(All)
      BY Places
    <3>2. IsFiniteSet(Newer(i, old))
      BY <2>1, <3>1, FS_Subset
    <3> QED
      BY <3>2, FS_CardinalityType
  <2>3. n > i
    BY <1>1, <1>2
  <2>4. Newer(i, All) = IF played[n].player = played[i].player THEN Newer(i, old) \cup {n} ELSE Newer(i, old)
    BY <1>3, <2>3 DEF Newer
  <2>5. n \notin Newer(i, old)
    BY <1>3 DEF Newer
  <2>6. Cardinality(Newer(i, old) \cup {n}) = Cardinality(Newer(i, old)) + 1
    BY <2>2, <2>5, FS_AddElement
  <2> QED
    BY <2>2, <2>4, <2>6
<1>8. PICK X : X = {i \in old : played[n].player = played[i].player /\ Cardinality(Newer(i, old)) = K - 1}
  OBVIOUS
<1>9. ASSUME NEW i \in old PROVE i \in Capped <=> i \in S \ X
  <2>1. PICK c \in Nat : c = Cardinality(Newer(i, old))
    BY <1>7
  <2>2. CASE played[n].player = played[i].player
    <3>1. Cardinality(Newer(i, All)) = c + 1
      BY <1>7, <2>1, <2>2
    <3>2. K > c + 1 <=> K > c /\ c # K - 1
      OBVIOUS
    <3> QED
      BY <1>3, <1>5, <1>6, <1>8, <2>1, <2>2, <3>1, <3>2
  <2>3. CASE played[n].player # played[i].player
    <3>1. Cardinality(Newer(i, All)) = c
      BY <1>7, <2>1, <2>3
    <3> QED
      BY <1>3, <1>5, <1>6, <1>8, <2>1, <2>3, <3>1
  <2> QED
    BY <2>2, <2>3
<1>10. n \in Capped
  <2>1. \A j \in All : ~(j > n)
    BY <1>0, <1>2 DEF All
  <2>2. Newer(n, All) = {}
    BY <2>1 DEF Newer
  <2>3. Cardinality(Newer(n, All)) = 0
    BY <2>2, FS_EmptySet, Zenon
  <2> QED
    BY <1>3, <1>4, <1>6, <2>3
<1>11. Capped = Exchange(S, X, n)
  <2>1. Capped \in SUBSET (old \cup {n}) /\ S \in SUBSET old
    BY <1>3, <1>5, <1>6
  <2> QED
    BY <1>9, <1>10, <2>1 DEF Exchange
<1>12. OneAtMost(X)
  <2>1. ASSUME NEW a \in X, NEW b \in X PROVE a = b
    <3>1. a \in Nat /\ b \in Nat /\ a \in old /\ b \in old
      BY <1>3, <1>8
    <3>2. played[a].player = played[b].player /\ Cardinality(Newer(a, old)) = Cardinality(Newer(b, old))
      BY <1>8
    <3>3. ~(a < b) /\ ~(b < a)
      BY <1>3, <3>1, <3>2, FewerAreNewer
    <3> QED
      BY <3>1, <3>3
  <2>2. X \in SUBSET All
    BY <1>3, <1>8
  <2>3. ASSUME NEW a \in X PROVE \E m \in All : X = {m}
    <3>1. X = {a} /\ a \in All
      BY <2>1, <2>2
    <3> QED
      BY <3>1
  <2>4. X = {} \/ \E a : a \in X
    OBVIOUS
  <2> QED
    BY <2>3, <2>4 DEF OneAtMost
<1>13. \A m \in X : played[m].player = played[n].player
  BY <1>8
<1>14. S \in SUBSET All /\ n \notin S /\ X \in SUBSET All
  BY <1>3, <1>5, <1>8
<1> n \in All /\ S \in SUBSET All /\ X \in SUBSET All
  BY <1>3, <1>14
<1> WITNESS n \in All, S \in SUBSET All, X \in SUBSET All
<1>15. n = Len(played) /\ S = CappedOf(1..n - 1) /\ n \notin S
  BY <1>0, <1>14
<1>16. Capped = Exchange(S, X, n)
  BY <1>11
<1>17. \A m \in X : played[m].player = played[n].player
  BY <1>13
<1> QED
  BY <1>12, <1>15, <1>16, <1>17

-----------------------------------------------------------------------------
\* Confidence.

LEMMA MoreIsReached ==
  ASSUME NEW floors \in [1..3 -> Nat], NEW k \in Nat, NEW m \in Nat, k <= m
  PROVE  /\ Reached(k, floors) \in 0..3 /\ Reached(m, floors) \in 0..3
         /\ Reached(k, floors) <= Reached(m, floors)
<1>1. PICK A, B : A = {i \in 1..3 : k >= floors[i]} /\ B = {i \in 1..3 : m >= floors[i]}
  OBVIOUS
<1>2. A \in SUBSET B /\ B \in SUBSET 1..3
  BY <1>1
<1>3. IsFiniteSet(1..3) /\ Cardinality(1..3) = 3
  <2>1. \A i, j \in Int : IsFiniteSet(i..j) /\ Cardinality(i..j) = IF i > j THEN 0 ELSE j - i + 1
    BY FS_Interval
  <2>2. 1 \in Int /\ 3 \in Int
    OBVIOUS
  <2>3. IsFiniteSet(1..3) /\ Cardinality(1..3) = IF 1 > 3 THEN 0 ELSE 3 - 1 + 1
    BY <2>1, <2>2, Zenon
  <2> QED
    BY <2>3
<1>4. IsFiniteSet(B) /\ Cardinality(B) <= Cardinality(1..3)
  BY <1>2, <1>3, FS_Subset
<1>5. IsFiniteSet(A) /\ Cardinality(A) <= Cardinality(B)
  BY <1>2, <1>4, FS_Subset
<1>6. Cardinality(A) \in Nat /\ Cardinality(B) \in Nat
  BY <1>4, <1>5, FS_CardinalityType
<1>7. Reached(k, floors) = Cardinality(A) /\ Reached(m, floors) = Cardinality(B)
  BY <1>1 DEF Reached
<1> QED
  BY <1>3, <1>4, <1>5, <1>6, <1>7

LEMMA ConfidenceGrows ==
  ASSUME ScoresAssumption, ScoresFacts, NEW S \in SUBSET All, NEW X, OneAtMost(X),
         NEW n \in All, n \notin S, DaysAgo(n) = 0, \A m \in X : played[m].player = played[n].player,
         NEW T \in SUBSET All, T = Exchange(S, X, n), BlendedWinRate(T) # None
  PROVE  Confidence(T) >= Confidence(S)
<1>1. PICK k \in Nat : k = Cardinality(S)
  BY Places, FS_Subset, FS_CardinalityType
<1>2. PICK m \in Nat : m = Cardinality(T) /\ k <= m
  <2>1. Cardinality(T) = k + 1 \/ Cardinality(T) = k
    BY <1>1, ExchangeCounts
  <2> QED
    BY <2>1
<1>3. PICK i \in Nat, j \in Nat : i = Reached(k, Floors) /\ j = Reached(m, Floors) /\ i <= j
  <2>1. Floors \in [1..3 -> Nat]
    BY DEF ScoresAssumption
  <2>2. /\ Reached(k, Floors) \in 0..3 /\ Reached(m, Floors) \in 0..3
        /\ Reached(k, Floors) <= Reached(m, Floors)
    BY <1>2, <2>1, MoreIsReached
  <2> QED
    BY <2>2
<1>3a. j <= 3
  <2>1. Floors \in [1..3 -> Nat]
    BY DEF ScoresAssumption
  <2> QED
    BY <1>2, <1>3, <2>1, MoreIsReached
<1>4. HighConfidenceGate(S) => HighConfidenceGate(T)
  <2> SUFFICES ASSUME HighConfidenceGate(S) PROVE HighConfidenceGate(T)
    OBVIOUS
  <2>1. n \in T /\ DaysAgo(n) <= 30
    BY DEF Exchange
  <2> DEFINE bracket(o) == BracketOf[played[o].player]
             P == {BracketOf[played[o].player] : o \in S}
             Q == {BracketOf[played[o].player] : o \in T}
  <2>2. P \in SUBSET Q
    <3>1. ASSUME NEW o \in S PROVE \E p \in T : played[p].player = played[o].player
      <4>1. CASE o \in X
        BY <2>1, <4>1
      <4>2. CASE o \notin X
        BY <4>2 DEF Exchange
      <4> QED
        BY <4>1, <4>2
    <3> QED
      BY <3>1
  <2>3. IsFiniteSet(T)
    BY Places, FS_Subset
  <2>4. IsFiniteSet(Q)
    <3>1. PICK f : f = [o \in T |-> bracket(o)]
      OBVIOUS
    <3>2. f \in Surjection(T, Q)
      BY <3>1 DEF Surjection
    <3> HIDE DEF Q
    <3> QED
      BY <2>3, <3>2, FS_Surjection
  <2>5. Cardinality(P) <= Cardinality(Q) /\ IsFiniteSet(P)
    BY <2>2, <2>4, FS_Subset
  <2>6. Cardinality(P) \in Nat /\ Cardinality(Q) \in Nat
    BY <2>4, <2>5, FS_CardinalityType
  <2>7. Cardinality(P) >= 2
    BY DEF HighConfidenceGate
  <2>8. Cardinality(Q) >= 2
    <3> HIDE DEF P, Q
    <3> QED
      BY <2>5, <2>6, <2>7
  <2> QED
    BY <2>1, <2>8 DEF HighConfidenceGate
<1>5. MeetsFloor(S) => MeetsFloor(T)
  <2>1. Floors[1] \in Nat
    BY DEF ScoresAssumption
  <2> QED
    BY <1>1, <1>2, <2>1 DEF MeetsFloor
<1>6. Confidence(T) \in Nat
  BY <1>2, <1>3 DEF Confidence, ConfidenceOf
<1>7. CASE ~MeetsFloor(S)
  BY <1>6, <1>7 DEF Confidence
<1>8. CASE MeetsFloor(S)
  <2>1. /\ Confidence(S) = IF i = 3 /\ ~HighConfidenceGate(S) THEN 2 ELSE i
        /\ Confidence(T) = IF j = 3 /\ ~HighConfidenceGate(T) THEN 2 ELSE j
    BY <1>1, <1>2, <1>3, <1>5, <1>8 DEF Confidence, ConfidenceOf
  <2> QED
    BY <1>3, <1>3a, <1>4, <2>1
<1> QED
  BY <1>7, <1>8

\* The property for the battle n that makes T of the battles S.
CountsForWhatItIs(n, S, T) ==
    /\ played[n].result = "victory" => NotBelow(BlendedWinRate(S), BlendedWinRate(T))
    /\ played[n].result = "defeat" /\ BlendedWinRate(S) # None =>
         AtMost(BlendedWinRate(T), BlendedWinRate(S))
    /\ BlendedWinRate(T) # None => Confidence(T) >= Confidence(S)

LEMMA BattleCounts ==
  ASSUME ScoresAssumption, ScoresFacts, NEW S \in SUBSET All, NEW X, OneAtMost(X),
         NEW n \in All, n \notin S, DaysAgo(n) = 0, played[n].patch = patch,
         \A m \in X : played[m].player = played[n].player,
         NEW T \in SUBSET All, T = Exchange(S, X, n)
  PROVE  CountsForWhatItIs(n, S, T)
<1>1. ASSUME BlendedWinRate(S) # None
      PROVE  /\ played[n].result = "victory" =>
                  BlendedWinRate(T) # None /\ AtMost(BlendedWinRate(S), BlendedWinRate(T))
             /\ played[n].result = "defeat" => AtMost(BlendedWinRate(T), BlendedWinRate(S))
  BY <1>1, BattleMovesRate
<1>2. BlendedWinRate(T) # None => Confidence(T) >= Confidence(S)
  BY ConfidenceGrows
<1> QED
  BY <1>1, <1>2 DEF CountsForWhatItIs, NotBelow

LEMMA BattlesCount ==
  ASSUME ScoresAssumption, ScoresFacts
  PROVE  BattlesCountForWhatTheyAre
<1> SUFFICES ASSUME played # <<>>, DaysAgo(Len(played)) = 0, played[Len(played)].patch = patch
             PROVE  CountsForWhatItIs(Len(played), CappedOf(1..Len(played) - 1), Capped)
  BY DEF BattlesCountForWhatTheyAre, CountsForWhatItIs
<1>1. PICK n \in All, S \in SUBSET All, X \in SUBSET All :
        /\ n = Len(played) /\ S = CappedOf(1..n - 1) /\ n \notin S
        /\ OneAtMost(X) /\ Capped = Exchange(S, X, n)
        /\ \A m \in X : played[m].player = played[n].player
  BY CappedExchange
<1>2. PICK T \in SUBSET All : T = Capped
  BY CappedIsPlayed
<1>3. DaysAgo(n) = 0 /\ played[n].patch = patch /\ T = Exchange(S, X, n)
  BY <1>1, <1>2
<1>4. CountsForWhatItIs(n, S, T)
  BY <1>1, <1>3, BattleCounts
<1> QED
  BY <1>1, <1>2, <1>4

-----------------------------------------------------------------------------
LEMMA ScoresInitFacts ==
  ASSUME ScoresAssumption, ScoresInit PROVE ScoresFacts
BY DEF ScoresInit, ScoresFacts, ScoresAssumption

LEMMA ScoresNextFacts ==
  ASSUME ScoresAssumption, ScoresFacts, [ScoresNext]_scoresVars
  PROVE  ScoresFacts'
<1>1. PICK N \in Nat, t \in Nat : N = Len(played) /\ t = today /\ t <= MaxDay /\ MaxDay \in Nat
  <2>1. Len(played) \in Nat /\ today \in Nat /\ today <= MaxDay /\ MaxDay \in Nat
    BY Places DEF ScoresFacts, ScoresAssumption
  <2> QED
    BY <2>1
<1>2. CASE UNCHANGED scoresVars
  BY <1>2 DEF ScoresFacts, scoresVars
<1>3. ASSUME NEW p \in Contributor, NEW result \in Result, Play(p, result) PROVE ScoresFacts'
  <2>1. PICK row : row = [player |-> p, result |-> result, day |-> today, patch |-> patch]
    OBVIOUS
  <2>2. row \in PlayedRow /\ row.day = today
    <3>1. patch \in Nat /\ today \in Nat
      BY <1>1 DEF ScoresFacts
    <3> QED
      BY <2>1, <3>1 DEF PlayedRow
  <2>3. played' = Append(played, row) /\ today' = today /\ patch' = patch
    BY <1>3, <2>1 DEF Play
  <2>4. /\ played' \in Seq(PlayedRow) /\ Len(played') = N + 1
        /\ \A i \in 1..N + 1 : played'[i] = IF i = N + 1 THEN row ELSE played[i]
    <3>1. played \in Seq(PlayedRow)
      BY DEF ScoresFacts
    <3>2. /\ Append(played, row) \in Seq(PlayedRow) /\ Len(Append(played, row)) = Len(played) + 1
          /\ \A i \in 1..Len(played) : Append(played, row)[i] = played[i]
          /\ Append(played, row)[Len(played) + 1] = row
      BY <2>2, <3>1, AppendProperties
    <3>3. \A i \in 1..N + 1 : i = N + 1 \/ i \in 1..N
      OBVIOUS
    <3> QED
      BY <1>1, <2>3, <3>2, <3>3
  <2>5. \A i \in 1..Len(played') : played'[i].day <= today'
    <3> SUFFICES ASSUME NEW i \in 1..N + 1 PROVE played'[i].day <= today
      BY <2>3, <2>4
    <3>1. CASE i = N + 1
      BY SMTT(30), <1>1, <2>2, <2>4, <3>1
    <3>2. CASE i # N + 1
      <4>1. i \in 1..N
        BY <3>2
      <4> QED
        BY <1>1, <2>4, <3>2, <4>1 DEF ScoresFacts
    <3> QED
      BY <3>1, <3>2
  <2> QED
    BY <2>3, <2>4, <2>5 DEF ScoresFacts
<1>4. ASSUME NEW days \in Pause, DaysPass(days) PROVE ScoresFacts'
  <2>1. PICK d \in Nat : d = days
    BY DEF ScoresAssumption
  <2>2. today' = t + d /\ t + d <= MaxDay /\ played' = played /\ patch' = patch
    BY <1>1, <1>4, <2>1 DEF DaysPass
  <2>3. \A i \in 1..N : played[i].day \in Nat /\ played[i].day <= t
    <3>1. \A i \in All : played[i] \in PlayedRow
      BY Places
    <3> QED
      BY <1>1, <3>1 DEF ScoresFacts, PlayedRow, All
  <2>4. \A i \in 1..N : played[i].day <= t + d
    BY <2>3
  <2>5. today' \in 0..MaxDay
    BY <1>1, <2>2
  <2> QED
    BY <1>1, <2>2, <2>4, <2>5 DEF ScoresFacts
<1>5. ASSUME NewPatch PROVE ScoresFacts'
  BY <1>5 DEF NewPatch, ScoresFacts
<1> QED
  BY <1>2, <1>3, <1>4, <1>5 DEF ScoresNext

LEMMA ScoresFactsSuffice ==
  ASSUME ScoresAssumption, ScoresFacts PROVE ScoresInv
<1>1. ScoresTypeOK
  BY Places DEF ScoresTypeOK, ScoresFacts
<1> QED
  BY <1>1, RatesHold, NoneDominates, BattlesCount, MatchupsHold DEF ScoresInv

\* For any players, results, days and limits: a rate is of the battles that count, no
\* player decides it alone, both sides of a matchup are told the same, and a battle of
\* today moves the rate to its side and never lowers confidence.
THEOREM ScoresHold == ScoresSpec => []ScoresInv
<1>1. ScoresInit => ScoresFacts
  BY ScoresAssumption, ScoresInitFacts
<1>2. ScoresFacts /\ [ScoresNext]_scoresVars => ScoresFacts'
  BY ScoresAssumption, ScoresNextFacts
<1>3. ScoresFacts => ScoresInv
  BY ScoresAssumption, ScoresFactsSuffice
<1> QED
  BY <1>1, <1>2, <1>3, PTL DEF ScoresSpec

-----------------------------------------------------------------------------
\* And so in the run, where each of the three has behaviours of its own.
THEOREM FormulasHold == FormulasSpec => []FormulasInv
<1>1. FormulasInit => ScoresFacts /\ TiersFacts /\ CapacityFacts
  BY ScoresAssumption, ScoresInitFacts, TiersAssumption, TiersInitFacts,
     CapacityAssumption, CapacityInitFacts DEF FormulasInit
<1>2. ASSUME ScoresFacts, TiersFacts, CapacityFacts,
             [FormulasNext]_<<part, vars, scoresVars, tiersVars, capacityVars>>
      PROVE  ScoresFacts' /\ TiersFacts' /\ CapacityFacts'
  <2>1. [ScoresNext]_scoresVars /\ [TiersNext]_tiersVars /\ [CapacityNext]_capacityVars
    BY <1>2 DEF FormulasNext, Only
  <2>2. ScoresFacts'
    BY <1>2, <2>1, ScoresAssumption, ScoresNextFacts
  <2>3. TiersFacts'
    BY <1>2, <2>1, TiersAssumption, TiersNextFacts
  <2>4. CapacityFacts'
    BY <1>2, <2>1, CapacityAssumption, CapacityNextFacts
  <2> QED
    BY <2>2, <2>3, <2>4
<1>3. ScoresFacts /\ TiersFacts /\ CapacityFacts => FormulasInv
  BY ScoresAssumption, ScoresFactsSuffice, TiersAssumption, TiersFactsSuffice,
     CapacityAssumption, CapacityFactsSuffice DEF FormulasInv
<1> QED
  BY <1>1, <1>2, <1>3, PTL DEF FormulasSpec
=============================================================================
