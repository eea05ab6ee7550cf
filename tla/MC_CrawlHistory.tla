-------------------------- MODULE MC_CrawlHistory --------------------------
(***************************************************************************)
(* The instances of MC_Crawl with a history of each player's failed         *)
(* fetches, to compare the deactivation of players with the policy          *)
(* PHASE3.md states for it.                                                 *)
(***************************************************************************)
EXTENDS MC_Crawl

VARIABLE failed   \* per player: failed fetches since the last success, up to
                  \* MaxFailures, which a permanent failure counts as

HistoryVars == <<vars, failed>>

HistoryInit == CrawlInit /\ failed = [p \in Player |-> 0]

\* The fetch of a player fails ...
FetchCounted(w, answer, backoff) ==
  /\ FetchFails(w, answer, backoff)
  /\ failed' = [failed EXCEPT ![Now(w)] =
       IF answer = "permanent" \/ @ = MaxFailures THEN MaxFailures ELSE @ + 1]

\* ... or is a success recorded, which starts the count again.
SuccessCounted(w) ==
  /\ RecordSuccess(w)
  /\ failed' = [failed EXCEPT ![Now(w)] = 0]

Fetched(w) == At(w, "fetch") /\ slice'[w].at = "budget"
Recorded(w) == At(w, "ingested") /\ slice'[w].at = "budget"

HistoryNext ==
  \/ \E w \in Worker :
       \/ SuccessCounted(w)
       \/ \E answer \in Answer, backoff \in BOOLEAN :
            FetchCounted(w, answer, backoff)
  \/ /\ CrawlNext
     /\ \A w \in Worker : ~Fetched(w) /\ ~Recorded(w)
     /\ UNCHANGED failed

HistorySpec == HistoryInit /\ [][HistoryNext]_HistoryVars

-----------------------------------------------------------------------------
\* "A player is marked dead after MAX_CONSECUTIVE_CRAWL_FAILURES = 5
\* consecutive retryable failures, or immediately on a confirmed 404"
\* (PHASE3.md): never because of fewer failed fetches.
DeadAfterLimit == \A p \in Player : ~sched[p].active => failed[p] >= MaxFailures
=============================================================================
