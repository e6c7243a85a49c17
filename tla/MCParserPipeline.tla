-------------------------- MODULE MCParserPipeline --------------------------
(* Small instances of ParserPipeline for TLC, and the checks of what is read *)
(* from an OpenAPI document.                                                 *)
EXTENDS ParserPipeline, ContractChecks, TLC

CONSTANT w1

\* The lease of w1 outlives the function, as the deployment's does; that of any
\* other function is as short as the function's life and can end under it.
Leases == [w \in Workers |-> IF w = w1 THEN Timeout + 1 ELSE Timeout]

=============================================================================
