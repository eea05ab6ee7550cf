-------------------------------- MODULE Tiers --------------------------------
(***************************************************************************)
(* What finalizePhase and publishPhase of the ranking job compute: scores,   *)
(* tiers by percentile, and the comparison with the snapshot that is shown.  *)
(* Ranking has the transactions these happen in and abstracts what they       *)
(* compute to a value; this module has the numbers and no interleaving.       *)
(*                                                                         *)
(* Battles change the data of one brawler at a time, and now and then a       *)
(* ranking run goes from the data to a decision.                             *)
(***************************************************************************)
EXTENDS Integers, FiniteSets, FiniteSetsExt, Functions

CONSTANTS
    Ranked,     \* brawlers of the catalog
    Figures,    \* bound: what can be known of a brawler, a set of records
    Cutoff,     \* percentiles at which the tiers D, C, B, A and S begin
    WinFloor    \* battles below which a brawler is not ranked

ASSUME TiersAssumption ==
    /\ IsFiniteSet(Ranked) /\ Ranked # {}
    /\ \A f \in Figures : f.matches \in Nat /\ f.winRate \in 0..100 /\ f.coverage \in 0..100
    /\ Cutoff \in [1..5 -> 0..100] /\ Cutoff[1] = 0
    /\ \A t \in 1..4 : Cutoff[t] <= Cutoff[t + 1]
    /\ WinFloor \in Nat \ {0}

VARIABLES
    data,           \* figures of each brawler: what its candidate row would say
    shown,          \* item of each brawler in the current snapshot
    anyPublished    \* whether there is a snapshot

tiersVars == <<data, shown, anyPublished>>

Tier == 1..5
NotShown == [tier |-> 0, score |-> 0]

TiersInit ==
    /\ data \in [Ranked -> {f \in Figures : f.matches = 0}]
    /\ shown = [b \in Ranked |-> NotShown]
    /\ anyPublished = FALSE

-----------------------------------------------------------------------------
(* finalizePhase *)

\* All overall rows count, those below the floor too.
SlotTotal == MapThenSumSet(LAMBDA b : data[b].matches, Ranked)

Eligible == {b \in Ranked : data[b].matches >= WinFloor}

\* computeOverallScore, in hundredths of a point times SlotTotal, with the
\* pick rate a share of SlotTotal and no rate of high ranks.
ScoreOf ==
    LET total == SlotTotal
    IN  [b \in Ranked |->
            (50 * data[b].winRate + 20 * data[b].winRate + 10 * data[b].coverage) * total
                + 2000 * data[b].matches]

\* The row's meta_score has two decimals.
StoredScore(b) == (2 * ScoreOf[b] + SlotTotal) \div (2 * SlotTotal)

AtOrBelow(b) == LET score == ScoreOf IN {c \in Eligible : score[c] <= score[b]}

\* tierForPercentile: the best tier whose percentile is reached.
TierFor(count, total) == Max({t \in Tier : 100 * count >= Cutoff[t] * total})

\* assignPercentileTiers.
TierOf == [b \in Eligible |-> TierFor(Cardinality(AtOrBelow(b)), Cardinality(Eligible))]

-----------------------------------------------------------------------------
(* publishPhase *)

Distance(u, v) == IF u > v THEN u - v ELSE v - u

Moved == {b \in Eligible : shown[b].tier # 0 /\ shown[b].tier # TierOf[b]}

\* computeTierMoveRatio and exceedsMassMovementGuard: more than a quarter.
TooManyMoves == anyPublished /\ 4 * Cardinality(Moved) > Cardinality(Eligible)

\* MUTANT: scores are compared when tiers have moved.
ChangedInTier == \/ ~anyPublished
                 \/ \E b \in Eligible : shown[b].tier # TierOf[b]

\* hasSignificantChange.
Changed ==
    \/ ~anyPublished
    \/ \E b \in Eligible :
          \/ shown[b].tier # TierOf[b]
          \/ Distance(shown[b].score, StoredScore(b)) > 100

Decision == IF TooManyMoves THEN "hold" ELSE IF Changed THEN "publish" ELSE "no_change"

Show ==
    /\ shown' = [b \in Ranked |-> IF b \in Eligible
                                  THEN [tier |-> TierOf[b], score |-> StoredScore(b)] ELSE NotShown]
    /\ anyPublished' = TRUE
    /\ UNCHANGED data

PublishTiers == Decision = "publish" /\ Show
\* An operator approves the run that is held, while its data are the newest.
ApproveTiers == Decision = "hold" /\ Show

MoreBattles(b, f) ==
    /\ f # data[b]
    /\ data' = [data EXCEPT ![b] = f]
    /\ UNCHANGED <<shown, anyPublished>>

TiersNext ==
    \/ \E b \in Ranked, f \in Figures : MoreBattles(b, f)
    \/ PublishTiers
    \/ ApproveTiers

TiersSpec == TiersInit /\ [][TiersNext]_tiersVars

-----------------------------------------------------------------------------
TiersTypeOK ==
    /\ data \in [Ranked -> Figures]
    /\ \A b \in Ranked : shown[b].tier \in Tier \cup {0}
    /\ anyPublished \in BOOLEAN

\* Tiers follow scores, brawlers with one score share a tier, "ties [...] remain
\* together in the higher tier" (formulas.ts), and whoever leads is in the best:
\* a brawler has a tier exactly when few enough are strictly above it.
TiersFollowScores ==
    \A b \in Eligible, t \in Tier :
        LET score == ScoreOf
            above == {c \in Eligible : score[c] > score[b]}
        IN  TierOf[b] >= t <=>
              100 * Cardinality(above) <= (100 - Cutoff[t]) * Cardinality(Eligible)

\* A run is only passed over when what is shown of every brawler it ranks is
\* right to a point, however many runs were passed over before: small changes
\* do not add up.  And a run that is held has something to approve.
NoDrift ==
    /\ Decision = "no_change" =>
         \A b \in Eligible : /\ shown[b].tier = TierOf[b]
                             /\ Distance(shown[b].score, StoredScore(b)) <= 100
    /\ Decision = "hold" => Changed /\ \E b \in Eligible : shown[b].tier # 0

\* A single brawler that moves never holds a run of four or more, and one that
\* is new never does.
NewcomersDoNotHold ==
    Decision = "hold" =>
        /\ Cardinality({b \in Eligible : shown[b].tier # 0}) * 4 > Cardinality(Eligible)
        /\ Cardinality(Eligible) >= 4 => Cardinality(Moved) > 1

TiersInv == TiersTypeOK /\ TiersFollowScores /\ NoDrift /\ NewcomersDoNotHold
=============================================================================
