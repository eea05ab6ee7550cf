------------------------------ MODULE MC_Moves ------------------------------
(***************************************************************************)
(* What decides which rows the site shows and which rows stay: the ranking   *)
(* job with its approvals, the catalog sync, the deletion of old runs and    *)
(* graphs, and the copy to another database with its checks.  A behaviour is *)
(* one of them; what the others do to its tables are actions of its own      *)
(* (CatalogChange of Ranking, World of Retention, the source of Migration).  *)
(***************************************************************************)
EXTENDS MC_Ranking, MC_Catalog, MC_Retention, MC_Migration, Copy

VARIABLE part       \* the component whose behaviour this is

Only(p, next, others) == part = p /\ next /\ UNCHANGED <<part, others>>

MovesInit ==
    /\ part \in {"ranking", "catalog", "retention", "migration", "reconcile"}
    /\ RankInit /\ CatalogInit /\ RetentionInit /\ MigrationInit /\ ReconcileInit
    /\ part # "ranking" => ready /\ active = Brawler
    /\ part # "retention" => kind = "run"

MovesNext ==
    \/ Only("ranking", RankNext, <<catalogVars, retentionVars, migrationVars, reconcileVars>>)
    \/ Only("catalog", CatalogNext, <<vars, retentionVars, migrationVars, reconcileVars>>)
    \/ Only("retention", RetentionNext, <<vars, catalogVars, migrationVars, reconcileVars>>)
    \/ Only("migration", MigrationNext, <<vars, catalogVars, retentionVars, reconcileVars>>)
    \/ Only("reconcile", ReconcileNext, <<vars, catalogVars, retentionVars, migrationVars>>)

MovesSpec ==
    /\ MovesInit
    /\ [][MovesNext]_<<part, vars, catalogVars, retentionVars, migrationVars, reconcileVars>>

AllSymmetry == Symmetry \cup Permutations(Syncer)
=============================================================================
