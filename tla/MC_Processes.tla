---------------------------- MODULE MC_Processes ----------------------------
(***************************************************************************)
(* What one process does: the slices of the crawl job (Crawl), the connections *)
(* that its requests share (Pools), and the run of the schema migrations that    *)
(* precedes it (SchemaMigrations).  A behaviour is one of one of them.         *)
(***************************************************************************)
EXTENDS MC_Crawl, Pools, SchemaMigrations

\* Migrations of two and of one statement, and one text of the second that is accepted.
StatementCounts == <<2, 1>>
CONSTANTS text1, text2
AcceptedTexts == {<<2, text1>>}

VARIABLE part       \* the component whose behaviour this is

Only(name, next, others) == part = name /\ next /\ UNCHANGED <<part, others>>

ProcessesInit ==
    /\ part \in {"crawl", "pools", "migrations"}
    /\ CrawlInit /\ PoolsInit /\ MigrationsInit
    /\ part # "pools" => reporting = {} /\ env = [role \in Roles |-> "none"]

ProcessesNext ==
    \/ Only("crawl", CrawlNext, <<poolVars, migrationVars>>)
    \/ Only("pools", PoolsNext, <<vars, migrationVars>>)
    \/ Only("migrations", MigrationsNext, <<vars, poolVars>>)

\* The fairness of each component, while the behaviour is one of it.
ProcessesFairness ==
    /\ \A w \in Worker : WF_vars(part = "crawl" /\ JobStep(w))
    /\ WF_vars(part = "crawl" /\ Time) /\ WF_vars(part = "crawl" /\ WindowElapses)
    /\ <>[][~\E w \in Worker : Fail(w)]_vars
    /\ PoolsFairness
    /\ \A x \in Runner : WF_migrationVars(RunStep(x))
    /\ WF_migrationVars(part = "migrations" /\ StartAny)
    /\ <>[][~\E x \in Runner : RunIsCut(x)]_migrationVars

ProcessesSpec ==
    /\ ProcessesInit /\ [][ProcessesNext]_<<part, vars, poolVars, migrationVars>>
    /\ ProcessesFairness
=============================================================================
