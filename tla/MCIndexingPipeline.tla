------------------------- MODULE MCIndexingPipeline -------------------------
(* Small instances of IndexingPipeline for TLC. *)
EXTENDS IndexingPipeline

CONSTANTS v1, h1, h2

\* One document repeats a text and shares it with every other one.
SharedTexts == [v \in Versions |-> IF v = v1 THEN <<h1, h2, h1>> ELSE <<h1>>]

=============================================================================
