---------------------------- MODULE MCOwnerTools ----------------------------
(***************************************************************************)
(* Small instances, for TLC, of the owner's tools beside the API: paid     *)
(* evaluation runs, evaluation reviews, publication of the guest demo and  *)
(* the migration runner.  The tools share no state, so a behaviour is one  *)
(* of a single tool, chosen by the initial state, while the others rest.   *)
(***************************************************************************)
EXTENDS EvaluationRuns, EvaluationReviews, GuestDemoPublish, MigrationRunner, TLC

CONSTANTS r1, r2, r3

VARIABLE tool

\* Case 2 is too long for a call of the informed models and not for one of C1.
MCCharacters == [c \in Cases |-> IF c = 2 THEN 150 ELSE 100]
MCUsages == {<<1, 1>>, <<2, 2>>, <<3, 2>>}

\* r1 may only be a primary reviewer or an adjudicator.
MCAttesting == {[reviewer |-> r, version |-> v, eligible |-> TRUE,
                 independent |-> r # r1] : r \in Reviewers, v \in Versions}

\* The two contents differ on path 1, which is not material (a rationale, say),
\* and on path 2, which is material and which the first lacks.
MCMaterial == {2}
MCContents == {(1 :> "x"), (1 :> "y" @@ 2 :> "x")}
MCMaxRevision == [primary |-> 2, independent |-> 1, adjudicated |-> 2]

\* The second release adds a table the application only appends to and one it
\* updates.
MCReleases == <<{"jobs"}, {"jobs", "facts", "plans"}>>
MCParserGrants == [t \in {"facts"} |-> {"select"}]

-----------------------------------------------------------------------------
ToolsInit ==
    /\ tool \in {"evaluate", "review", "publish", "migrate"}
    /\ Init /\ ReviewInit /\ PublishInit /\ MigrateInit
    /\ tool # "evaluate" => fixture = CHOOSE f \in Fixtures : TRUE
    /\ tool # "publish" => source = CHOOSE s \in Sources : s.clean

ToolsNext ==
    /\ UNCHANGED tool
    /\ \/ /\ tool = "evaluate" /\ Next
          /\ UNCHANGED <<reviewVars, publishVars, migrateVars>>
       \/ /\ tool = "review" /\ ReviewNext
          /\ UNCHANGED <<vars, publishVars, migrateVars>>
       \/ /\ tool = "publish" /\ PublishNext
          /\ UNCHANGED <<vars, reviewVars, migrateVars>>
       \/ /\ tool = "migrate" /\ MigrateNext
          /\ UNCHANGED <<vars, reviewVars, publishVars>>

ToolsSpec ==
    ToolsInit /\ [][ToolsNext]_<<tool, vars, reviewVars, publishVars, migrateVars>>

Symmetric == Permutations({r2, r3}) \cup Permutations(Clients)
=============================================================================
