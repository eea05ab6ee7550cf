---------------------------- MODULE MC_Families ----------------------------
(***************************************************************************)
(* What comes: a crawl of a player and a second one, which repeats its fetch    *)
(* and sees the same battle again; a catalog sync with what it leaves behind;   *)
(* and an observed player, with a failed run.                                     *)
(***************************************************************************)
EXTENDS Families

Tables == <<"workflow_run", "workflow_step", "crawl_batch",
            "fetch_run", "battle", "participant", "observation",
            "fetch_run", "observation", "player", "name",
            "snapshot", "detected_change", "incident", "observed_player", "workflow_run", "team">>
Links == {<<2, 1>>, <<3, 1>>, <<4, 1>>, <<5, 4>>, <<6, 5>>, <<6, 17>>, <<17, 5>>, <<7, 5>>, <<7, 4>>,
          <<8, 1>>, <<8, 4>>, <<9, 5>>, <<9, 8>>, <<10, 8>>, <<11, 10>>,
          <<12, 4>>, <<13, 4>>, <<14, 4>>}
CatalogScenario == <<{1, 4, 12, 13, 14}>>
Scenarios == {<<{1, 2, 3, 4, 5, 6, 7, 17}, {8, 9, 10}>>,
              CatalogScenario,
              <<{1, 4, 8, 10, 11}, {15, 16}>>}
=============================================================================
