----------------------------- MODULE MC_Leases -----------------------------
(***************************************************************************)
(* Three components whose lock or lease ends while its owner is at work:    *)
(* the aggregation job, the ranking job and the raw archive.  A behaviour   *)
(* is one of one of them.  The two jobs use the tables of Workflow and the  *)
(* catalog, so they share the variables of those.                           *)
(***************************************************************************)
EXTENDS MC_Aggregation, RawArchive

VARIABLES
    part,           \* the component whose behaviour this is
    ready, job, rr, snap, rankingSlice, approving       \* of Ranking

R == INSTANCE Ranking WITH
        Operator <- {}, BelowFloor <- {}, Modeless <- {1}, Value <- {1},
        slice <- rankingSlice

rankingVars == <<ready, job, rr, snap, rankingSlice, approving>>

Only(p, next, others) == part = p /\ next /\ UNCHANGED <<part, others>>

LeasesInit ==
    /\ part \in {"aggregation", "ranking", "archive"}
    /\ AggInit /\ R!RankInit /\ RawInit
    /\ part # "ranking" => ready

LeasesNext ==
    \/ Only("aggregation", AggNext, <<rankingVars, rawVars>>)
    \/ Only("ranking", R!RankNext, <<agg, rows, slice, rawVars>>)
    \/ Only("archive", RawNext, <<vars, rankingVars>>)

LeasesSpec ==
    /\ LeasesInit /\ [][LeasesNext]_<<part, vars, rankingVars, rawVars>>
    /\ \/ part = "aggregation" /\ AggFairness
       \/ part = "ranking" /\ R!RankFairness
       \/ part = "archive" /\ RawFairness

\* NoBrawlerTwice of Ranking.
NoBrawlerTwice == R!NoBrawlerTwice
=============================================================================
