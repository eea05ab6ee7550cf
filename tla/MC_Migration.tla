---------------------------- MODULE MC_Migration ----------------------------
(***************************************************************************)
(* Small instances of Migration for TLC.                                   *)
(***************************************************************************)
EXTENDS Migration

\* The children of the oldest run.
OfTheFirst == [c \in Child |-> 1]

WholePasses == {Table}
\* A pass over all tables, or over the children alone, as an operator selects.
WithChildren == {Table, {"children"}}
=============================================================================
