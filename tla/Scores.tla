------------------------------- MODULE Scores -------------------------------
(***************************************************************************)
(* What the ranking job makes of the battles of one brawler (the formulas   *)
(* of lib/ranking and lib/aggregation, and computeForBrawler): the share of  *)
(* battles it wins, the confidence in that share, and how it fares against   *)
(* one other brawler.                                                        *)
(*                                                                         *)
(* Battles are played one after the other as days pass and patches come.     *)
(* Every figure is an operator of the battles there are; rates are           *)
(* fractions, where the code has floating point numbers.                     *)
(***************************************************************************)
EXTENDS Integers, Sequences, FiniteSets, FiniteSetsExt

CONSTANTS
    Contributor,        \* players whose battles are known
    BracketOf,          \* the trophy bracket of each, higher is better
    PerPlayerCap,       \* battles of one player that count (20)
    FullBlend,          \* battles of a patch that count in full (100)
    MinSampleSize,      \* battles of a bracket that make a rate (30)
    Floors,             \* battles for each step of confidence (100, 200, 500)
    MatchupFloors,      \* and in a matchup (20, 40, 100)
    MatchupBounds,      \* win rates between its classes, in percent (35, 45, 55, 65)
    Pause,              \* bound: days that may pass between battles
    MaxDay, MaxBattles  \* bounds

ASSUME ScoresAssumption ==
    /\ BracketOf \in [Contributor -> Nat]
    /\ PerPlayerCap \in Nat \ {0} /\ FullBlend \in Nat \ {0} /\ MinSampleSize \in Nat \ {0}
    /\ Floors \in [1..3 -> Nat] /\ MatchupFloors \in [1..3 -> Nat]
    /\ MatchupBounds \in [1..4 -> 0..100]
    /\ MatchupBounds[1] < MatchupBounds[2] /\ MatchupBounds[2] <= MatchupBounds[3]
    /\ MatchupBounds[1] + MatchupBounds[4] = 100 /\ MatchupBounds[2] + MatchupBounds[3] = 100
    /\ Pause \subseteq Nat \ {0} /\ MaxDay \in Nat /\ MaxBattles \in Nat

VARIABLES
    played,     \* participations of the brawler, oldest first
    today,
    patch       \* the active patch

scoresVars == <<played, today, patch>>

Result == {"victory", "defeat", "draw"}

ScoresInit == played = <<>> /\ today = 0 /\ patch = 1

-----------------------------------------------------------------------------
(* Fractions *)

\* The greatest common divisor of a and the number it is applied to.
GCD[a \in Nat] == [b \in Nat |-> IF a = 0 THEN b ELSE GCD[b % a][a]]
Fraction(n, d) == LET g == GCD[d][n] IN <<n \div g, d \div g>>
AtMost(p, q) == p[1] * q[2] <= q[1] * p[2]

\* No figure: there is no battle to take it from.
None == <<>>

-----------------------------------------------------------------------------
(* What counts *)

\* MUTANT: the oldest battles of a player are kept.
OldestOfEach(known) ==
    {i \in known : PerPlayerCap > Cardinality(
        {j \in known : j < i /\ played[j].player = played[i].player})}

\* applyPerPlayerCap: the newest battles of each player, of those known.
CappedOf(known) ==
    {i \in known : PerPlayerCap > Cardinality(
        {j \in known : j > i /\ played[j].player = played[i].player})}

Capped == CappedOf(DOMAIN played)

DaysAgo(i) == today - played[i].day

\* computeRecencyWeight, in 360ths.
RecencyWeight(days) ==
    CASE days <= 30  -> 360
      [] days \in 31..90  -> 360 - 3 * (days - 30)
      [] days \in 91..180 -> 180 - 2 * (days - 90)
      [] OTHER -> 0

With(result, S) == {i \in S : played[i].result = result}

\* accumulateWeighted.
Weighted(S) ==
    LET sum[i \in 0..Len(played)] ==
            IF i = 0 THEN 0
            ELSE sum[i - 1] + IF i \in S THEN RecencyWeight(DaysAgo(i)) ELSE 0
    IN  sum[Len(played)]

\* computeWinRate: draws are left out, and nothing is not 0 %.
WinRate(wins, losses) ==
    IF wins + losses = 0 THEN None ELSE Fraction(wins, wins + losses)

WeightedWinRate(S) == WinRate(Weighted(With("victory", S)), Weighted(With("defeat", S)))

\* computePatchBlendWeight, as parts of FullBlend.
BlendWeight(n) == IF n < FullBlend THEN n ELSE FullBlend

\* blendWinRate: a side without a figure leaves the other at full weight.
Blend(current, all, w) ==
    IF current = None THEN all
    ELSE IF all = None THEN current
    ELSE Fraction(w * current[1] * all[2] + (FullBlend - w) * all[1] * current[2],
                  FullBlend * current[2] * all[2])

Current(S) == {i \in S : played[i].patch = patch}

\* computeBlendedWinRate, of all battles or of those in one mode.
BlendedWinRate(S) ==
    Blend(WeightedWinRate(Current(S)), WeightedWinRate(S), BlendWeight(Cardinality(Current(S))))

InBracket(b, S) == {i \in S : BracketOf[played[i].player] = b}

\* computeHighRankWinRate: of the highest bracket with enough battles.
HighRankWinRate(S) ==
    LET enough == {b \in {BracketOf[p] : p \in Contributor} :
                      Cardinality(InBracket(b, S)) >= MinSampleSize}
    IN  IF enough = {} THEN None ELSE WeightedWinRate(InBracket(Max(enough), S))

-----------------------------------------------------------------------------
(* Confidence: 0 is insufficient, 3 is high *)

\* highConfidenceGateMet; regions are like brackets.
HighConfidenceGate(S) ==
    /\ \E i \in S : DaysAgo(i) <= 30
    /\ Cardinality({BracketOf[played[i].player] : i \in S}) >= 2

Reached(n, floors) == Cardinality({k \in DOMAIN floors : n >= floors[k]})

\* computeOverallConfidence and computeModeConfidence.
ConfidenceOf(n, gate) == IF Reached(n, Floors) = 3 /\ ~gate THEN 2 ELSE Reached(n, Floors)

MeetsFloor(S) == Cardinality(S) >= Floors[1] /\ BlendedWinRate(S) # None

\* A candidate row: insertRankingResult after computeForBrawler.
Confidence(S) == IF MeetsFloor(S) THEN ConfidenceOf(Cardinality(S), HighConfidenceGate(S)) ELSE 0

-----------------------------------------------------------------------------
(* The matchup with the brawler on the other side, from both sides *)

Count(result) == Cardinality(With(result, DOMAIN played))

\* classifyMatchup: 1 is hard_counter, 5 hard_advantage, 0 not classified.  The
\* inner boundaries belong to neutral, the outer ones to the hard classes.
Classify(wins, losses, matches) ==
    LET r == WinRate(wins, losses)
        percent == 100 * r[1]
        bound(k) == MatchupBounds[k] * r[2]
    IN  IF matches < MatchupFloors[1] \/ r = None THEN 0
        ELSE IF percent <= bound(1) THEN 1
        ELSE IF percent < bound(2) THEN 2
        ELSE IF percent <= bound(3) THEN 3
        ELSE IF percent < bound(4) THEN 4 ELSE 5

\* computeMatchupConfidence; the job passes FALSE for consistentAcrossStrata.
MatchupConfidence(matches, consistent) ==
    IF Reached(matches, MatchupFloors) = 3 /\ ~consistent THEN 2 ELSE Reached(matches, MatchupFloors)

\* getQualifyingMatchupResults: what a publication takes.
Qualifying(wins, losses, matches) ==
    Classify(wins, losses, matches) # 0 /\ MatchupConfidence(matches, FALSE) >= 2

-----------------------------------------------------------------------------
Play(p, result) ==
    /\ Len(played) < MaxBattles
    /\ played' = Append(played, [player |-> p, result |-> result, day |-> today, patch |-> patch])
    /\ UNCHANGED <<today, patch>>

DaysPass(days) ==
    /\ today + days <= MaxDay
    /\ today' = today + days
    /\ UNCHANGED <<played, patch>>

NewPatch ==
    /\ patch = 1 /\ played # <<>>
    /\ patch' = 2
    /\ UNCHANGED <<played, today>>

ScoresNext ==
    \/ \E p \in Contributor, result \in Result : Play(p, result)
    \/ \E days \in Pause : DaysPass(days)
    \/ NewPatch

ScoresSpec == ScoresInit /\ [][ScoresNext]_scoresVars

-----------------------------------------------------------------------------
ScoresTypeOK ==
    /\ \A i \in DOMAIN played : played[i].player \in Contributor /\ played[i].result \in Result
    /\ today \in 0..MaxDay /\ patch \in 1..2

Between0And1(r) == r # None => AtMost(<<0, 1>>, r) /\ AtMost(r, <<1, 1>>)

\* There is a rate exactly when a battle that still counts was decided, and it
\* lies between that of the patch and that of all battles: "a null side
\* contributes nothing [...], never treated as a 0" (formulas.ts).
RateIsOfTheBattles ==
    LET capped == Capped
        rate == BlendedWinRate(capped)
        sides == {WeightedWinRate(Current(capped)), WeightedWinRate(capped)} \ {None}
    IN  /\ rate = None <=> \A i \in capped : played[i].result = "draw" \/ DaysAgo(i) >= 180
        /\ rate # None => /\ \E s \in sides : AtMost(s, rate)
                          /\ \E s \in sides : AtMost(rate, s)
        /\ Between0And1(HighRankWinRate(capped))

\* No player decides alone, and none is judged by the past: of whoever has
\* battles the newest counts, and none beyond the cap.
NoPlayerDominates ==
    \A p \in Contributor :
        LET all == {i \in DOMAIN played : played[i].player = p}
        IN  /\ Cardinality(all \cap Capped) = Min({Cardinality(all), PerPlayerCap})
            /\ all # {} => Max(all) \in Capped

\* Both sides of a matchup are told the same: one's counter is the other's
\* advantage, and both are published or none.
MatchupsMirror ==
    LET w == Count("victory")  l == Count("defeat")  n == Len(played)
        mine == Classify(w, l, n)
        theirs == Classify(l, w, n)
    IN  /\ IF mine = 0 THEN theirs = 0 ELSE mine + theirs = 6
        /\ Qualifying(w, l, n) <=> Qualifying(l, w, n)

NotBelow(r, s) == r # None => s # None /\ AtMost(r, s)

\* A battle won today never lowers the rate, and one lost never raises it,
\* whatever older battle of the player it pushes out and however it shifts the
\* weight between the patch and all battles; and no battle that leaves a rate
\* lowers confidence.  A win that is late, with a weight below 1, may lower it.
BattlesCountForWhatTheyAre ==
    LET newest == Len(played)
        before == CappedOf(1..newest - 1)
        after == Capped
        rate == BlendedWinRate(after)
    IN  played # <<>> /\ DaysAgo(newest) = 0 /\ played[newest].patch = patch =>
          /\ played[newest].result = "victory" => NotBelow(BlendedWinRate(before), rate)
          /\ played[newest].result = "defeat" /\ BlendedWinRate(before) # None =>
                AtMost(rate, BlendedWinRate(before))
          /\ rate # None => Confidence(after) >= Confidence(before)

ScoresInv ==
    /\ ScoresTypeOK /\ RateIsOfTheBattles /\ NoPlayerDominates
    /\ BattlesCountForWhatTheyAre /\ MatchupsMirror
=============================================================================
