------------------------------- MODULE Shelf --------------------------------
(***************************************************************************)
(* What retention promises of the rows it was given: a row is in the        *)
(* database or it is in an archive from which it can be restored.           *)
(***************************************************************************)
CONSTANT Item

VARIABLES
    live,       \* rows in the database
    safe        \* rows that a verified archive has

Init == live = Item /\ safe = {}

\* Archives come and go as long as they are all that is left of no row.
Secure ==
    /\ safe' \in SUBSET Item
    /\ Item \ live \subseteq safe'
    /\ live' = live

\* Only rows that are safe are deleted.
Remove ==
    /\ live' \in SUBSET live
    /\ live \ live' \subseteq safe
    /\ safe' = safe

Spec == Init /\ [][Secure \/ Remove]_<<live, safe>>
=============================================================================
