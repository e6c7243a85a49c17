------------------------ MODULE MCExecutionPipeline ------------------------
(* Instances of ExecutionPipeline for TLC: model values for identifiers,   *)
(* interchangeable where the code compares them only for equality.         *)
EXTENDS ExecutionPipeline, PlanChecks

Symmetry == Permutations(Plans) \cup Permutations(ApprovalIds)
            \cup Permutations(JobIds) \cup Permutations(Workers)

=============================================================================
