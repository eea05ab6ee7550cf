---------------------------- MODULE MC_Retention ----------------------------
(***************************************************************************)
(* A small instance of Retention for TLC.                                  *)
(***************************************************************************)
EXTENDS Retention

\* Row 2 is a child of anchor 2, the others are children of anchor 1.
Parents == [r \in Row |-> IF r = 2 THEN 2 ELSE 1]
=============================================================================
