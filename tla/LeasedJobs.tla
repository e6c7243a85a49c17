----------------------------- MODULE LeasedJobs -----------------------------
(***************************************************************************)
(* What leased job claims promise, whatever functions, wake-ups and lost   *)
(* acknowledgements lie underneath: a job is claimed once, its lease is    *)
(* never renewed or handed on, its holder decides it only while the lease  *)
(* runs, a sweep ends every claim whose lease is over, and the outcome is  *)
(* final.  ParserPipeline and IndexingPipeline implement this              *)
(* specification with the same conditional UPDATEs (parser_job_claims.py,  *)
(* indexing_job_claims.py).                                                *)
(***************************************************************************)
CONSTANTS
    Jobs,
    Holders,    \* who can claim a job
    Decisions,  \* the outcomes a holder can give
    Lost,       \* the outcome of a claim that was swept
    None        \* no holder, no outcome

VARIABLES
    stage,      \* Jobs -> "absent", "queued", "claimed" or "ended"
    holder,     \* Jobs -> who claimed the job
    leased,     \* the claimed jobs whose lease runs
    outcome     \* Jobs -> how the job ended

vars == <<stage, holder, leased, outcome>>

Init ==
    /\ stage = [j \in Jobs |-> "absent"]
    /\ holder = [j \in Jobs |-> None]
    /\ leased = {}
    /\ outcome = [j \in Jobs |-> None]

Enqueue(j) ==
    /\ stage[j] = "absent"
    /\ stage' = [stage EXCEPT ![j] = "queued"]
    /\ UNCHANGED <<holder, leased, outcome>>

\* The lease counts from before the claim is stored: it may be over already.
Claim(j, h) ==
    /\ stage[j] = "queued"
    /\ stage' = [stage EXCEPT ![j] = "claimed"]
    /\ holder' = [holder EXCEPT ![j] = h]
    /\ leased' \in {leased, leased \cup {j}}
    /\ UNCHANGED outcome

\* Leases run out.
Lapse(S) ==
    /\ leased' = leased \ S
    /\ UNCHANGED <<stage, holder, outcome>>

Decide(j, o) ==
    /\ j \in leased
    /\ stage' = [stage EXCEPT ![j] = "ended"]
    /\ outcome' = [outcome EXCEPT ![j] = o]
    /\ leased' = leased \ {j}
    /\ UNCHANGED holder

\* Every claim whose lease is over ends at once.
Sweep ==
    LET over == {j \in Jobs : stage[j] = "claimed" /\ j \notin leased} IN
    /\ stage' = [j \in Jobs |-> IF j \in over THEN "ended" ELSE stage[j]]
    /\ outcome' = [j \in Jobs |-> IF j \in over THEN Lost ELSE outcome[j]]
    /\ UNCHANGED <<holder, leased>>

Next ==
    \/ \E j \in Jobs :
        \/ Enqueue(j)
        \/ \E h \in Holders : Claim(j, h)
        \/ \E o \in Decisions : Decide(j, o)
    \/ \E S \in SUBSET Jobs : Lapse(S)
    \/ Sweep

Spec == Init /\ [][Next]_vars

=============================================================================
