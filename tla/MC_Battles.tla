----------------------------- MODULE MC_Battles -----------------------------
(***************************************************************************)
(* Three matches for TLC: a duel of teams, one more with a new brawler in    *)
(* another mode, and a third in the first mode with an entry missing in one  *)
(* of the logs.                                                            *)
(***************************************************************************)
EXTENDS Battles

CONSTANTS a, b, c, old, new

Teams == <<{{a, c}, {b}}, {{a}, {b}}, {{a}, {b, c}}>>
Winners == <<{a, c}, {b}, {}>>
Modes == <<"gem", "solo", "gem">>
Picks == <<[f \in {a, b, c} |-> old],
             [f \in {a, b, c} |-> IF f = b THEN new ELSE old],
             [f \in {a, b, c} |-> old]>>
Gaps == {<<b, 3, c>>}
=============================================================================
