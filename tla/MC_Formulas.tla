----------------------------- MODULE MC_Formulas -----------------------------
(***************************************************************************)
(* Two crawlers that overlap, one with a slice that outlives its lock, and   *)
(* the figures: win rates (Scores), tiers (Tiers) and the forecast of the     *)
(* database's size (Capacity).  A behaviour is one of one of them.            *)
(***************************************************************************)
EXTENDS MC_Crawl, Scores, Tiers, Capacity

VARIABLE part       \* the component whose behaviour this is

Only(name, next, others) == part = name /\ next /\ UNCHANGED <<part, others>>

FormulasInit ==
    /\ part \in {"crawl", "scores", "tiers", "capacity"}
    /\ CrawlInit /\ ScoresInit /\ TiersInit /\ CapacityInit
    /\ part # "capacity" => limit = 0 /\ \A size \in FirstSize : Latest.size <= size

\* No further battle, day or patch.
BoundReached == Len(played) = MaxBattles /\ today = MaxDay /\ patch = 2

FormulasNext ==
    \/ Only("crawl", CrawlNext, <<scoresVars, tiersVars, capacityVars>>)
    \/ Only("scores", ScoresNext, <<vars, tiersVars, capacityVars>>)
    \/ Only("tiers", TiersNext, <<vars, scoresVars, capacityVars>>)
    \/ Only("capacity", CapacityNext, <<vars, scoresVars, tiersVars>>)
    \/ part = "scores" /\ BoundReached /\ UNCHANGED <<part, vars, scoresVars, tiersVars, capacityVars>>

FormulasSpec ==
    FormulasInit /\ [][FormulasNext]_<<part, vars, scoresVars, tiersVars, capacityVars>>

\* What is computed means what it says.
FormulasInv ==
    /\ part = "scores" => ScoresInv
    /\ part = "tiers" => TiersInv
    /\ part = "capacity" => CapacityInv

-----------------------------------------------------------------------------
\* The first of the players is of a bracket of its own.
FirstIsHigher ==
    LET first == CHOOSE p \in Contributor : TRUE
    IN  [p \in Contributor |-> IF p = first THEN 2 ELSE 1]

ConfidenceFloors == <<2, 3, 4>>
DuelFloors == <<1, 2, 3>>
DuelBounds == <<25, 33, 67, 75>>

\* Nothing known, two win rates that are close, and one far above.
FewFigures ==
    {[matches |-> f[1], winRate |-> f[2], coverage |-> 50] :
        f \in {<<0, 0>>, <<100, 50>>, <<100, 51>>, <<300, 60>>}}

\* Each of four brawlers can be alone in its tier.
FourTiers == <<0, 30, 45, 70, 90>>

UpAndDown == {-1, 0, 2}
=============================================================================
