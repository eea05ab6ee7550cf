----------------------------- MODULE MC_Catalog -----------------------------
(***************************************************************************)
(* Small instances of Catalog for TLC.                                     *)
(***************************************************************************)
EXTENDS Catalog

OwnSlug == [n \in {"a", "b", "c", "d"} |-> n]

\* SourceBrawler 1 is renamed and brawler 3 appears under its former name, or not;
\* a patch changes all kits.
NameOf(b, renamed) ==
    CASE b = 1 -> IF renamed THEN "c" ELSE "a"
      [] b = 2 -> "b"
      [] b = 3 -> IF renamed THEN "a" ELSE "d"
ListOf(S, renamed, kit) == [b \in S |-> [name |-> NameOf(b, renamed), kit |-> kit]]

AnyLists == UNION {{ListOf(S, FALSE, {}), ListOf(S, TRUE, {}), ListOf(S, FALSE, {"g"})} :
                     S \in SUBSET SourceBrawler}
PlainLists == {ListOf(S, FALSE, {}) : S \in SUBSET SourceBrawler}
=============================================================================
