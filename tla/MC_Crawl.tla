------------------------------ MODULE MC_Crawl ------------------------------
(***************************************************************************)
(* Small instances of Crawl for TLC.                                       *)
(***************************************************************************)
EXTENDS Crawl

\* All players are of one stratum; or all but one.
OneStratum == [p \in Player |-> 1]
TwoStrata == LET other == CHOOSE p \in Player : TRUE
             IN  [p \in Player |-> IF p = other THEN 2 ELSE 1]

\* All of them played every battle.
SharedLog == [p \in Player |-> Battle]

\* Players of one stratum with one log are interchangeable.
Symmetry == Permutations(Worker) \cup Permutations(Player)
=============================================================================
