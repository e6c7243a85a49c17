-------------------------- MODULE OneShotExecution --------------------------
(***************************************************************************)
(* What the execution subsystem promises about one plan, whatever workers, *)
(* queues and failures lie underneath: a plan is approved at most once,    *)
(* its authority is spent at most once, at most one HTTP request leaves    *)
(* for it, only between the spending and the verdict, and the verdict is   *)
(* final.  ExecutionPipeline implements this specification.                *)
(***************************************************************************)
EXTENDS Naturals

CONSTANT Plans

VARIABLES
    authority,  \* Plans -> whether the owner's authority exists or is spent
    requests,   \* Plans -> HTTP requests that reached the target
    answer      \* Plans -> the final state of the plan's job

vars == <<authority, requests, answer>>

Authority == {"none", "granted", "spent"}
Answer == {"open", "succeeded", "failed", "cancelled"}

Init ==
    /\ authority = [p \in Plans |-> "none"]
    /\ requests = [p \in Plans |-> 0]
    /\ answer = [p \in Plans |-> "open"]

\* The owner approves a plan that has never been approved.
Grant(p) ==
    /\ authority[p] = "none"
    /\ authority' = [authority EXCEPT ![p] = "granted"]
    /\ UNCHANGED <<requests, answer>>

\* A worker takes the authority; a withdrawn plan has none left to take.
Spend(p) ==
    /\ authority[p] = "granted"
    /\ answer[p] = "open"
    /\ authority' = [authority EXCEPT ![p] = "spent"]
    /\ UNCHANGED <<requests, answer>>

\* The one request.
Request(p) ==
    /\ authority[p] = "spent"
    /\ answer[p] = "open"
    /\ requests[p] = 0
    /\ requests' = [requests EXCEPT ![p] = 1]
    /\ UNCHANGED <<authority, answer>>

\* The verdict.  Success needs a request; a plan whose authority was never
\* spent can only be refused or withdrawn.
Settle(p, v) ==
    /\ authority[p] # "none"
    /\ answer[p] = "open"
    /\ v = "succeeded" => requests[p] = 1
    /\ answer' = [answer EXCEPT ![p] = v]
    /\ UNCHANGED <<authority, requests>>

Next ==
    \E p \in Plans :
        \/ Grant(p)
        \/ Spend(p)
        \/ Request(p)
        \/ \E v \in Answer \ {"open"} : Settle(p, v)

Spec == Init /\ [][Next]_vars

=============================================================================
