--------------------------- MODULE MC_Aggregation ---------------------------
(***************************************************************************)
(* Small instances of Aggregation for TLC.                                 *)
(***************************************************************************)
EXTENDS Aggregation, TLC

Symmetry == Permutations(Worker)

\* Only brawler 2's battles were played before any patch was known, or nobody's.
SecondUnpatched == {2}
NoneUnpatched == {}

\* The catalog sync (de)activates brawler 1, or none.
FirstVolatile == {1}
NoneVolatile == {}
=============================================================================
