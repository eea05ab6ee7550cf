----------------------------- MODULE MC_Ranking -----------------------------
(***************************************************************************)
(* Small instances of Ranking for TLC.                                     *)
(***************************************************************************)
EXTENDS Ranking, TLC

Symmetry == Permutations(Worker) \cup Permutations(Operator)

Nobody == {}
FirstOnly == {1}
SecondOnly == {2}
=============================================================================
