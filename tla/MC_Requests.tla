---------------------------- MODULE MC_Requests ----------------------------
(***************************************************************************)
(* The components whose requests go statement by statement and keep no      *)
(* cursor of a workflow run: player profiles and clubs (Profiles), and the   *)
(* players to crawl (Discovery).  A behaviour is one of one of them; what    *)
(* the other does to its tables are actions of its own (EnsurePlayerStub,     *)
(* RecordObserved).                                                        *)
(***************************************************************************)
EXTENDS Profiles, Discovery, MC_Families

VARIABLE part       \* the component whose behaviour this is

Only(p, next, others) == part = p /\ next /\ UNCHANGED <<part, others>>

RequestsInit ==
    /\ part \in {"profiles", "discovery", "families"}
    /\ ProfilesInit /\ DiscoveryInit /\ FamiliesInit
    /\ part # "families" => coming = CatalogScenario

RequestsNext ==
    \/ Only("profiles", ProfilesNext, <<discoveryVars, familyVars>>)
    \/ Only("discovery", DiscoveryNext, <<profileVars, familyVars>>)
    \/ Only("families", FamiliesNext, <<profileVars, discoveryVars>>)

RequestsSpec ==
    /\ RequestsInit /\ [][RequestsNext]_<<part, profileVars, discoveryVars, familyVars>>
    /\ \/ part = "profiles" /\ ProfilesFairness
       \/ part = "discovery" /\ DiscoveryFairness
       \/ part = "families" /\ FamiliesFairness
=============================================================================
