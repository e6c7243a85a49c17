------------------------- MODULE MCEvaluationReviews -------------------------
(* Small instances of EvaluationReviews for TLC.                            *)
EXTENDS EvaluationReviews, TLC

CONSTANTS r1, r2, r3

\* The two contents differ on path 1, which is not material (a rationale, say),
\* and on path 2, which is material and which the first lacks.
MCMaterial == {2}
MCContents == {(1 :> "x"), (1 :> "y" @@ 2 :> "x")}

\* r1 may only be a primary reviewer or an adjudicator.
MCAttesting == {[reviewer |-> r, version |-> v, eligible |-> TRUE,
                 independent |-> r # r1] : r \in Reviewers, v \in Versions}

MCMaxRevision == [primary |-> 2, independent |-> 1, adjudicated |-> 2]

Symmetric == Permutations({r2, r3}) \cup Permutations(Clients)
=============================================================================
