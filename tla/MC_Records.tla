----------------------------- MODULE MC_Records -----------------------------
(***************************************************************************)
(* Rows that are made once: what becomes of battle logs (Battles), and        *)
(* monitoring (Monitoring).  A behaviour is one of one of them.               *)
(***************************************************************************)
EXTENDS MC_Battles, Monitoring

VARIABLE part       \* the component whose behaviour this is

Only(name, next, others) == part = name /\ next /\ UNCHANGED <<part, others>>

RecordsInit ==
    /\ part \in {"battles", "monitoring"}
    /\ BattlesInit /\ MonitoringInit

RecordsNext ==
    \/ Only("battles", BattlesNext, monitoringVars)
    \/ Only("monitoring", MonitoringNext, battleVars)

RecordsSpec ==
    /\ RecordsInit /\ [][RecordsNext]_<<part, battleVars, monitoringVars>>
    /\ \/ part = "battles" /\ BattlesFairness
       \/ part = "monitoring" /\ MonitoringFairness
=============================================================================
