-------------------------------- MODULE Copy --------------------------------
(***************************************************************************)
(* The copy to another database as a whole: the tables that are copied page *)
(* by page (Migration), and the locks, the current snapshot and the          *)
(* comparison of the keys, which read both sides while the source goes on    *)
(* (Reconcile).  The two share no variable: they work on different tables.   *)
(***************************************************************************)
EXTENDS Migration, Reconcile

\* A pass that ends has copied what it had to, and what it removes, shows and
\* reports besides is right.
CopyIsChecked == PassIsWhole /\ ReconcileInv
=============================================================================
