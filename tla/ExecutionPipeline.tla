------------------------- MODULE ExecutionPipeline -------------------------
(***************************************************************************)
(* Approved restricted execution: the owner's plan review and approval,    *)
(* the durable job queue, the one-shot worker with its fail-closed         *)
(* executor, and the terminal result (execution_approvals.py,              *)
(* execution_jobs.py, execution_worker.py, restricted_execution.py,        *)
(* restricted_execution_runtime.py, execution_results.py and the routes of *)
(* main.py that call them).                                                *)
(*                                                                         *)
(* A database transaction is one action, except claim_next: it samples the *)
(* clock, locks a row and commits, and time, crashes and cancellations     *)
(* happen in between.  A worker runs the executor step by step, one step   *)
(* for each point at which it reads shared state or talks to the outside.  *)
(* A plan stands for one (project, plan hash) pair; plan ids are derived   *)
(* from the hash.                                                          *)
(***************************************************************************)
EXTENDS Integers, FiniteSets

CONSTANTS
    Plans,        \* (project, canonical plan) pairs
    ApprovalIds,  \* identifiers id_factory can return for approvals
    JobIds,       \* identifiers id_factory can return for jobs
    Workers,      \* worker processes (Lambda invocations, CLI runs)
    Requests,     \* API requests being served
    None,         \* SQL NULL, and the absence of a local value
    TTL,          \* EXECUTION_APPROVAL_TTL in clock ticks
    MaxClock,     \* bound on the clock
    MaxFaults     \* bound on crashes and database failures

ASSUME ConstantsAssumption ==
    /\ TTL \in Nat \ {0}
    /\ MaxClock \in Nat
    /\ MaxFaults \in Nat
    /\ None \notin Plans \cup ApprovalIds \cup JobIds \cup Workers \cup Int

VARIABLES
    clock,       \* the wall clock every process reads
    reviewed,    \* plans whose hash the owner has been shown
    planOf,      \* execution_approvals: the plan an approval binds
    expiresAt,   \* execution_approvals.expires_at
    consumedAt,  \* execution_approvals.consumed_at
    approvalOf,  \* execution_jobs.execution_approval_id
    jobState,    \* execution_jobs.state, "absent" before the insert
    createdAt,   \* execution_jobs.created_at
    stamps,      \* which of the job's other timestamps are not NULL
    outcome,     \* execution_results.outcome, "none" before the insert
    sendCount,   \* execution_results.transport_send_count
    pending,     \* per request: the approval it read and will enqueue
    pc,          \* per worker: the next step of run_once
    held,        \* per worker: the job it selected
    sampledAt,   \* per worker: claim_next's reading of the clock
    verdict,     \* per worker: the executor's outcome so far
    sent,        \* per worker: the executor's transport_send_count
    wire,        \* per plan: requests that reached the network
    faults       \* crashes and database failures so far

apiVars == <<reviewed, pending>>
approvalVars == <<planOf, expiresAt, consumedAt>>
jobVars == <<approvalOf, jobState, createdAt, stamps>>
resultVars == <<outcome, sendCount>>
workerVars == <<pc, held, sampledAt, verdict, sent>>
dbVars == <<approvalVars, jobVars, resultVars>>
vars == <<clock, apiVars, dbVars, workerVars, wire, faults>>

JobStates == {"absent", "queued", "running", "cancelled", "succeeded", "failed"}
Terminal == {"cancelled", "succeeded", "failed"}
Outcomes == {"succeeded", "failed", "cancelled"}
Stamps == {"started", "finished", "cancel_requested", "cancelled"}

\* Steps at which the request has not left yet, and those after it has.
BeforeSend == {"validating", "probing", "resolving", "reprobing", "sending"}
AfterSend == {"awaiting", "confirming"}
Steps == {"idle", "claiming", "recording"} \cup BeforeSend \cup AfterSend

Init ==
    /\ clock = 0
    /\ reviewed = {}
    /\ planOf = [a \in ApprovalIds |-> None]
    /\ expiresAt = [a \in ApprovalIds |-> 0]
    /\ consumedAt = [a \in ApprovalIds |-> None]
    /\ approvalOf = [j \in JobIds |-> None]
    /\ jobState = [j \in JobIds |-> "absent"]
    /\ createdAt = [j \in JobIds |-> 0]
    /\ stamps = [j \in JobIds |-> {}]
    /\ outcome = [j \in JobIds |-> "none"]
    /\ sendCount = [j \in JobIds |-> 0]
    /\ pending = [r \in Requests |-> None]
    /\ pc = [w \in Workers |-> "idle"]
    /\ held = [w \in Workers |-> None]
    /\ sampledAt = [w \in Workers |-> 0]
    /\ verdict = [w \in Workers |-> "none"]
    /\ sent = [w \in Workers |-> 0]
    /\ wire = [p \in Plans |-> 0]
    /\ faults = 0

Tick ==
    /\ clock < MaxClock
    /\ clock' = clock + 1
    /\ UNCHANGED <<apiVars, dbVars, workerVars, wire, faults>>

Fault ==
    /\ faults < MaxFaults
    /\ faults' = faults + 1

-----------------------------------------------------------------------------
(* The API: review, approval, enqueue and cancellation.                    *)

\* POST execution-plan-reviews: build the canonical plan and show its hash.
\* Nothing is stored; the owner now knows the hash.
ReviewPlan(p) ==
    /\ reviewed' = reviewed \cup {p}
    /\ UNCHANGED <<clock, pending, dbVars, workerVars, wire, faults>>

PlanHasApproval_Unexpired(p) ==
    \E a \in ApprovalIds : planOf[a] = p /\ clock < expiresAt[a]

\* The unique constraints on (project_id, plan_id) and (project_id, plan_hash).
PlanHasApproval(p) == \E a \in ApprovalIds : planOf[a] = p

Approve_HashUnchecked(p, expected, a) ==
    /\ expected \in reviewed
    /\ planOf[a] = None
    /\ ~PlanHasApproval(p)
    /\ planOf' = [planOf EXCEPT ![a] = p]
    /\ expiresAt' = [expiresAt EXCEPT ![a] = clock + TTL]
    /\ UNCHANGED <<clock, apiVars, consumedAt, jobVars, resultVars, workerVars, wire, faults>>

\* POST execution-approvals: the submitted test case is rebuilt into plan p,
\* and the hash the owner saw must be that plan's hash.  A plan that already
\* has an approval conflicts, expired or not.
Approve(p, expected, a) ==
    /\ expected \in reviewed
    /\ expected = p
    /\ planOf[a] = None
    /\ ~PlanHasApproval(p)
    /\ planOf' = [planOf EXCEPT ![a] = p]
    /\ expiresAt' = [expiresAt EXCEPT ![a] = clock + TTL]
    /\ UNCHANGED <<clock, apiVars, consumedAt, jobVars, resultVars, workerVars, wire, faults>>

\* POST execution-jobs, first half: read the approval in a transaction of its
\* own.  A snapshot that is already consumed is refused by enqueue.
ReadApproval(r, a) ==
    /\ pending[r] = None
    /\ planOf[a] # None
    /\ consumedAt[a] = None
    /\ pending' = [pending EXCEPT ![r] = a]
    /\ UNCHANGED <<clock, reviewed, dbVars, workerVars, wire, faults>>

ApprovalHasJob_Open(a) ==
    \E j \in JobIds : approvalOf[j] = a /\ jobState[j] \notin Terminal

\* The unique constraint on execution_approval_id: any earlier job, cancelled
\* and finished ones included, is returned instead of a new one.
ApprovalHasJob(a) == \E j \in JobIds : approvalOf[j] = a

\* POST execution-jobs, second half: enqueue from the snapshot, whose expiry is
\* compared with the clock now.
EnqueueJob(r, j) ==
    LET a == pending[r] IN
    /\ a # None
    /\ approvalOf[j] = None
    /\ clock < expiresAt[a]
    /\ ~ApprovalHasJob(a)
    /\ approvalOf' = [approvalOf EXCEPT ![j] = a]
    /\ jobState' = [jobState EXCEPT ![j] = "queued"]
    /\ createdAt' = [createdAt EXCEPT ![j] = clock]
    /\ pending' = [pending EXCEPT ![r] = None]
    /\ UNCHANGED <<clock, reviewed, approvalVars, stamps, resultVars, workerVars, wire, faults>>

\* enqueue answers 409 for an expired snapshot, returns the existing job, or
\* cannot reach the database; nothing is stored.
EnqueueWithoutInsert(r) ==
    /\ pending[r] # None
    /\ pending' = [pending EXCEPT ![r] = None]
    /\ UNCHANGED <<clock, reviewed, dbVars, workerVars, wire, faults>>

\* A worker that has selected a job holds its row lock until it commits.
Locked(j) == \E w \in Workers : pc[w] = "claiming" /\ held[w] = j

\* DELETE execution-jobs: one conditional UPDATE, from queued only; it waits
\* for a claim that has locked the row.  A job that is no longer queued is
\* left alone and answers 409.
Cancel(j) ==
    /\ jobState[j] = "queued"
    /\ ~Locked(j)
    /\ jobState' = [jobState EXCEPT ![j] = "cancelled"]
    /\ stamps' = [stamps EXCEPT ![j] = @ \cup {"cancel_requested", "cancelled"}]
    /\ UNCHANGED <<clock, apiVars, approvalVars, approvalOf, createdAt, resultVars, workerVars,
                   wire, faults>>

-----------------------------------------------------------------------------
(* claim_next.                                                             *)

Goto(w, step) == pc' = [pc EXCEPT ![w] = step]

\* The turn ends: the process returns to waiting for a wake-up.
EndTurn(w) ==
    /\ pc' = [pc EXCEPT ![w] = "idle"]
    /\ held' = [held EXCEPT ![w] = None]
    /\ sampledAt' = [sampledAt EXCEPT ![w] = 0]
    /\ verdict' = [verdict EXCEPT ![w] = "none"]
    /\ sent' = [sent EXCEPT ![w] = 0]

OldestQueued_NoSkipLocked ==
    LET Queued == {j \in JobIds : jobState[j] = "queued"}
    IN  {j \in Queued : \A k \in Queued : createdAt[j] <= createdAt[k]}

\* The oldest queued job whose row is not locked; uuid order breaks ties.
OldestQueued ==
    LET Queued == {j \in JobIds : jobState[j] = "queued" /\ ~Locked(j)}
    IN  {j \in Queued : \A k \in Queued : createdAt[j] <= createdAt[k]}

\* Sample the clock, then SELECT ... FOR UPDATE SKIP LOCKED, which never waits for
\* a lock: the two are one step, and the sample grows old before the commit.
ClaimBegin(w) ==
    /\ pc[w] = "idle"
    /\ \E j \in OldestQueued : held' = [held EXCEPT ![w] = j]
    /\ sampledAt' = [sampledAt EXCEPT ![w] = clock]
    /\ Goto(w, "claiming")
    /\ UNCHANGED <<clock, apiVars, dbVars, verdict, sent, wire, faults>>

Usable(a, t) == consumedAt[a] = None /\ t < expiresAt[a]

\* _fail_job: a preflight failure, without a result row.
FailJob(j) ==
    /\ jobState' = [jobState EXCEPT ![j] = "failed"]
    /\ stamps' = [stamps EXCEPT ![j] = @ \cup {"started", "finished"}]
    /\ UNCHANGED <<approvalVars, approvalOf, createdAt>>

StartJob_Unconsumed(j, t) ==
    /\ jobState' = [jobState EXCEPT ![j] = "running"]
    /\ stamps' = [stamps EXCEPT ![j] = @ \cup {"started"}]
    /\ UNCHANGED <<approvalVars, approvalOf, createdAt>>

\* Consume the approval and start the job, in one transaction.
StartJob(j, t) ==
    /\ consumedAt' = [consumedAt EXCEPT ![approvalOf[j]] = t]
    /\ jobState' = [jobState EXCEPT ![j] = "running"]
    /\ stamps' = [stamps EXCEPT ![j] = @ \cup {"started"}]
    /\ UNCHANGED <<planOf, expiresAt, approvalOf, createdAt>>

ClaimCommit(w) ==
    /\ pc[w] = "claiming"
    /\ Usable(approvalOf[held[w]], sampledAt[w])
    /\ StartJob(held[w], sampledAt[w])
    /\ Goto(w, "validating")
    /\ UNCHANGED <<clock, apiVars, resultVars, held, sampledAt, verdict, sent, wire, faults>>

ClaimRefuse_LeavesQueued(w) ==
    /\ pc[w] = "claiming"
    /\ ~Usable(approvalOf[held[w]], sampledAt[w])
    /\ EndTurn(w)
    /\ UNCHANGED <<clock, apiVars, dbVars, wire, faults>>

\* The approval is consumed, has expired, or its stored snapshot no longer
\* passes validation: the job fails without a transport attempt.
ClaimRefuse(w) ==
    /\ pc[w] = "claiming"
    /\ \E snapshotValid \in BOOLEAN :
          ~(snapshotValid /\ Usable(approvalOf[held[w]], sampledAt[w]))
    /\ FailJob(held[w])
    /\ EndTurn(w)
    /\ UNCHANGED <<clock, apiVars, resultVars, wire, faults>>

\* The transaction fails and rolls back: the wake-up is reported for retry.
ClaimRollback(w) ==
    /\ pc[w] = "claiming"
    /\ Fault
    /\ EndTurn(w)
    /\ UNCHANGED <<clock, apiVars, dbVars, wire>>

\* The transaction commits and its acknowledgement is lost: claim_next raises
\* as if nothing had been stored.
ClaimAckLost(w) ==
    /\ pc[w] = "claiming"
    /\ Fault
    /\ Usable(approvalOf[held[w]], sampledAt[w])
    /\ StartJob(held[w], sampledAt[w])
    /\ EndTurn(w)
    /\ UNCHANGED <<clock, apiVars, resultVars, wire>>

-----------------------------------------------------------------------------
(* RestrictedExecutionExecutor.execute.                                    *)

HeldApproval(w) == approvalOf[held[w]]
HeldPlan(w) == planOf[HeldApproval(w)]

\* The executor returns: what is left is to record its result.
Conclude(w, result, sends) ==
    /\ verdict' = [verdict EXCEPT ![w] = result]
    /\ sent' = [sent EXCEPT ![w] = sends]
    /\ Goto(w, "recording")

executorUnchanged == <<clock, apiVars, dbVars, held, sampledAt>>

\* _validate_claim reads the clock again.  Its other conditions are on the
\* snapshot that claim_next has just committed.
ClaimStillValid(w) == clock < expiresAt[HeldApproval(w)]

\* After the claim, the plan, its limits, headers and body are revalidated.
Validate(w) ==
    /\ pc[w] = "validating"
    /\ \/ /\ ClaimStillValid(w)
          /\ Goto(w, "probing")
          /\ UNCHANGED <<verdict, sent>>
       \/ Conclude(w, "failed", 0)
    /\ UNCHANGED <<executorUnchanged, wire, faults>>

\* is_cancel_requested, when the database answers.
CancelRequested(j) ==
    \/ jobState[j] # "running"
    \/ "cancel_requested" \in stamps[j]

\* The two probes before the request leaves.
Probe(w, from, to) ==
    /\ pc[w] = from
    /\ IF CancelRequested(held[w])
       THEN Conclude(w, "cancelled", 0)
       ELSE Goto(w, to) /\ UNCHANGED <<verdict, sent>>
    /\ UNCHANGED <<executorUnchanged, wire, faults>>

\* A probe that cannot reach the database reports cancellation.
ProbeUnavailable(w) ==
    /\ pc[w] \in {"probing", "reprobing", "confirming"}
    /\ Fault
    /\ Conclude(w, "cancelled", IF pc[w] = "confirming" THEN 1 ELSE 0)
    /\ UNCHANGED <<executorUnchanged, wire>>

\* validate_registered_target: two resolutions that must agree and be public.
Resolve(w) ==
    /\ pc[w] = "resolving"
    /\ \/ Goto(w, "reprobing") /\ UNCHANGED <<verdict, sent>>
       \/ Conclude(w, "failed", 0)
    /\ UNCHANGED <<executorUnchanged, wire, faults>>

\* transport.send writes the request.
Send(w) ==
    /\ pc[w] = "sending"
    /\ wire' = [wire EXCEPT ![HeldPlan(w)] = @ + 1]
    /\ Goto(w, "awaiting")
    /\ UNCHANGED <<executorUnchanged, verdict, sent, faults>>

\* transport.send raises before anything is written: its own checks refuse the
\* request, or no connection can be made.  It is reported as one send.
SendRefused(w) ==
    /\ pc[w] = "sending"
    /\ Conclude(w, "failed", 1)
    /\ UNCHANGED <<executorUnchanged, wire, faults>>

Receive_TimeoutUncounted(w) ==
    /\ pc[w] = "awaiting"
    /\ \/ Conclude(w, "failed", 0)
       \/ \E assertions \in {"succeeded", "failed"} :
             /\ verdict' = [verdict EXCEPT ![w] = assertions]
             /\ Goto(w, "confirming")
             /\ UNCHANGED sent
    /\ UNCHANGED <<executorUnchanged, wire, faults>>

\* The answer: a timeout, an error, an oversized or a redirect response fails
\* the execution; otherwise the assertions are evaluated.
Receive(w) ==
    /\ pc[w] = "awaiting"
    /\ \/ Conclude(w, "failed", 1)
       \/ \E assertions \in {"succeeded", "failed"} :
             /\ verdict' = [verdict EXCEPT ![w] = assertions]
             /\ Goto(w, "confirming")
             /\ UNCHANGED sent
    /\ UNCHANGED <<executorUnchanged, wire, faults>>

\* The probe after the response, then the verdict of the assertions.
Confirm(w) ==
    /\ pc[w] = "confirming"
    /\ Conclude(w, IF CancelRequested(held[w]) THEN "cancelled" ELSE verdict[w], 1)
    /\ UNCHANGED <<executorUnchanged, wire, faults>>

-----------------------------------------------------------------------------
(* SqlAlchemyExecutionResultRepository.record.                             *)

\* _complete_job.
CompletedStamps(j, result) ==
    stamps[j] \cup (IF result = "cancelled" THEN {"cancel_requested", "cancelled"}
                                            ELSE {"finished"})

CompleteJob_NoResult(j, result, sends) ==
    /\ jobState' = [jobState EXCEPT ![j] = result]
    /\ stamps' = [stamps EXCEPT ![j] = CompletedStamps(j, result)]
    /\ UNCHANGED resultVars

CompleteJob_CountsCall(j, result, sends) ==
    /\ jobState' = [jobState EXCEPT ![j] = result]
    /\ stamps' = [stamps EXCEPT ![j] = CompletedStamps(j, result)]
    /\ outcome' = [outcome EXCEPT ![j] = result]
    /\ sendCount' = [sendCount EXCEPT ![j] = sends + 1]

\* Complete the job and insert its result.
CompleteJob(j, result, sends) ==
    /\ jobState' = [jobState EXCEPT ![j] = result]
    /\ stamps' = [stamps EXCEPT ![j] = CompletedStamps(j, result)]
    /\ outcome' = [outcome EXCEPT ![j] = result]
    /\ sendCount' = [sendCount EXCEPT ![j] = sends]

\* One transaction under the job's row lock.  A job that already has a result
\* or is not running is left as it is.
Record(w) ==
    LET j == held[w] IN
    /\ pc[w] = "recording"
    /\ IF outcome[j] = "none" /\ jobState[j] = "running"
       THEN CompleteJob(j, verdict[w], sent[w]) /\ UNCHANGED <<approvalOf, createdAt>>
       ELSE UNCHANGED <<jobVars, resultVars>>
    /\ EndTurn(w)
    /\ UNCHANGED <<clock, apiVars, approvalVars, wire, faults>>

\* The transaction fails: the exception ends the turn, nothing is retried.
RecordUnavailable(w) ==
    /\ pc[w] = "recording"
    /\ Fault
    /\ EndTurn(w)
    /\ UNCHANGED <<clock, apiVars, dbVars, wire>>

\* execution_result_payload or _validate_payload refuses the redacted evidence:
\* a list that pairs a sensitive name with a value, which the redaction leaves
\* as it is, or a number that is not finite.  It depends on what the request or
\* the target's answer holds, so it may happen to any evidence.
RecordRejected(w) ==
    /\ pc[w] = "recording"
    /\ EndTurn(w)
    /\ UNCHANGED <<clock, apiVars, dbVars, wire, faults>>

\* The process dies or times out: its transaction rolls back, its local state
\* is gone, and what it has put on the wire stays there.
Crash(w) ==
    /\ pc[w] # "idle"
    /\ Fault
    /\ EndTurn(w)
    /\ UNCHANGED <<clock, apiVars, dbVars, wire>>

-----------------------------------------------------------------------------

ApiStep ==
    \/ \E p \in Plans : ReviewPlan(p)
    \/ \E p, expected \in Plans, a \in ApprovalIds : Approve(p, expected, a)
    \/ \E r \in Requests, a \in ApprovalIds : ReadApproval(r, a)
    \/ \E r \in Requests, j \in JobIds : EnqueueJob(r, j)
    \/ \E r \in Requests : EnqueueWithoutInsert(r)
    \/ \E j \in JobIds : Cancel(j)

\* A worker's own steps, without failures.
WorkerStep(w) ==
    \/ ClaimBegin(w)
    \/ ClaimCommit(w)
    \/ ClaimRefuse(w)
    \/ Validate(w)
    \/ Probe(w, "probing", "resolving")
    \/ Resolve(w)
    \/ Probe(w, "reprobing", "sending")
    \/ Send(w)
    \/ SendRefused(w)
    \/ Receive(w)
    \/ Confirm(w)
    \/ Record(w)
    \/ RecordRejected(w)

Failure(w) ==
    \/ ClaimRollback(w)
    \/ ClaimAckLost(w)
    \/ ProbeUnavailable(w)
    \/ RecordUnavailable(w)
    \/ Crash(w)

Next ==
    \/ Tick
    \/ ApiStep
    \/ \E w \in Workers : WorkerStep(w) \/ Failure(w)

Spec == Init /\ [][Next]_vars

\* Wake-ups keep arriving and a running process keeps running: every worker
\* takes its enabled steps.  The API, the clock and the failures owe nothing.
Fairness == \A w \in Workers : WF_vars(WorkerStep(w))

FairSpec == Spec /\ Fairness

-----------------------------------------------------------------------------
(* Properties.                                                             *)

\* Every variable holds a value the tables and the worker's locals can hold.
TypeOK ==
    /\ clock \in Nat
    /\ reviewed \subseteq Plans
    /\ planOf \in [ApprovalIds -> Plans \cup {None}]
    /\ expiresAt \in [ApprovalIds -> Nat]
    /\ consumedAt \in [ApprovalIds -> Nat \cup {None}]
    /\ approvalOf \in [JobIds -> ApprovalIds \cup {None}]
    /\ jobState \in [JobIds -> JobStates]
    /\ createdAt \in [JobIds -> Nat]
    /\ stamps \in [JobIds -> SUBSET Stamps]
    /\ outcome \in [JobIds -> Outcomes \cup {"none"}]
    /\ sendCount \in [JobIds -> {0, 1}]
    /\ pending \in [Requests -> ApprovalIds \cup {None}]
    /\ pc \in [Workers -> Steps]
    /\ held \in [Workers -> JobIds \cup {None}]
    /\ sampledAt \in [Workers -> Nat]
    /\ verdict \in [Workers -> Outcomes \cup {"none"}]
    /\ sent \in [Workers -> {0, 1}]
    /\ wire \in [Plans -> Nat]
    /\ faults \in Nat

\* At most one request ever leaves for a plan, however many workers, wake-ups,
\* repeated approvals and enqueues, crashes and lost acknowledgements there are
\* ("execute at most one request from one atomically claimed durable job").
OneSendPerPlan == \A p \in Plans : wire[p] <= 1

\* Job j executes plan p.
JobOf(j, p) == approvalOf[j] # None /\ planOf[approvalOf[j]] = p

\* A request on the wire was for a plan whose hash the owner had seen, under an
\* approval that a job of that very plan consumed before its expiry.
SendsAuthorised ==
    \A p \in Plans : wire[p] > 0 =>
        /\ p \in reviewed
        /\ \E j \in JobIds :
              /\ JobOf(j, p)
              /\ jobState[j] \notin {"absent", "queued"}
              /\ consumedAt[approvalOf[j]] # None
              /\ consumedAt[approvalOf[j]] < expiresAt[approvalOf[j]]

\* A job cancelled while queued neither spends its approval nor sends, even when
\* the cancellation races a claim.
WithdrawnNeverRuns ==
    \A j \in JobIds : jobState[j] = "cancelled" /\ "started" \notin stamps[j] =>
        /\ consumedAt[approvalOf[j]] = None
        /\ wire[planOf[approvalOf[j]]] = 0

\* The stored evidence never understates what went out: zero recorded sends
\* means nothing left, and a success means a request did leave.
EvidenceNeverUnderstates ==
    \A j \in JobIds : outcome[j] # "none" =>
        /\ sendCount[j] = 0 => wire[planOf[approvalOf[j]]] = 0
        /\ outcome[j] = "succeeded" => wire[planOf[approvalOf[j]]] = 1

\* An approval is spent exactly by a job that is still running or has left its
\* evidence: no terminal state hides a spent approval, none is reported unspent.
SpentApprovalsAccounted ==
    \A a \in ApprovalIds :
        consumedAt[a] # None <=>
            \E j \in JobIds :
                approvalOf[j] = a /\ (jobState[j] = "running" \/ outcome[j] # "none")

\* Every row the code writes satisfies the lifecycle CHECK of execution_jobs, so
\* no transition is refused by the database.
LifecycleCheck ==
    \A j \in JobIds :
        LET started == "started" \in stamps[j]
            finished == "finished" \in stamps[j]
            cancelled == "cancelled" \in stamps[j]
        IN  \/ jobState[j] = "absent"
            \/ jobState[j] = "queued" /\ ~started /\ ~finished /\ ~cancelled
            \/ jobState[j] = "running" /\ started /\ ~finished /\ ~cancelled
            \/ jobState[j] \in {"succeeded", "failed"} /\ started /\ finished /\ ~cancelled
            \/ jobState[j] = "cancelled" /\ ~finished /\ cancelled

\* A running job that no process is working on any more.
Orphaned(j) == jobState[j] = "running" /\ \A w \in Workers : held[w] # j

\* What is decided stays decided: a terminal job, its evidence and a consumed
\* approval never change again.
DecisionsFinal ==
    [][/\ \A j \in JobIds : jobState[j] \in Terminal =>
             /\ jobState'[j] = jobState[j]
             /\ stamps'[j] = stamps[j]
             /\ outcome'[j] = outcome[j]
             /\ sendCount'[j] = sendCount[j]
       /\ \A a \in ApprovalIds : consumedAt[a] # None => consumedAt'[a] = consumedAt[a]]_vars

\* The abstract view of a plan.
AuthorityOf(p) ==
    IF \E a \in ApprovalIds : planOf[a] = p /\ consumedAt[a] # None THEN "spent"
    ELSE IF PlanHasApproval(p) THEN "granted" ELSE "none"

AnswersOf(p) == {jobState[j] : j \in {k \in JobIds : JobOf(k, p)}} \cap Terminal
AnswerOf(p) == IF AnswersOf(p) = {} THEN "open" ELSE CHOOSE s \in AnswersOf(p) : TRUE

Abstract == INSTANCE OneShotExecution WITH
    authority <- [p \in Plans |-> AuthorityOf(p)],
    requests <- wire,
    answer <- [p \in Plans |-> AnswerOf(p)]

\* The pipeline implements the one-shot promise: one grant, one spending, one
\* request inside it, one final verdict per plan.
ImplementsOneShot == Abstract!Spec

\* With wake-ups arriving, no job stays queued: it is settled, or its worker
\* failed while holding it or could not have its evidence recorded.
QueuedJobsSettle ==
    \A j \in JobIds :
        jobState[j] = "queued" ~> (jobState[j] \in Terminal \/ Orphaned(j))

-----------------------------------------------------------------------------
(* The inductive invariant behind the safety properties.                   *)

\* An approval id names at most one row and a plan at most one approval.
UniqueApprovals ==
    \A a, b \in ApprovalIds : planOf[a] # None /\ planOf[a] = planOf[b] => a = b

\* An approval has at most one job.
UniqueJobs ==
    \A j, k \in JobIds : approvalOf[j] # None /\ approvalOf[j] = approvalOf[k] => j = k

\* Foreign keys: a job's approval and a request's snapshot exist.
References ==
    /\ \A j \in JobIds : jobState[j] = "absent" <=> approvalOf[j] = None
    /\ \A j \in JobIds : approvalOf[j] # None => planOf[approvalOf[j]] # None
    /\ \A r \in Requests : pending[r] # None => planOf[pending[r]] # None
    /\ \A a \in ApprovalIds : planOf[a] # None => planOf[a] \in reviewed

\* A worker between claim and record has a job of its own, in the state its
\* step implies.
Ownership ==
    /\ \A w \in Workers : pc[w] = "idle" <=> held[w] = None
    /\ \A w \in Workers : pc[w] = "claiming" => jobState[held[w]] = "queued"
    /\ \A w \in Workers :
          pc[w] \in BeforeSend \cup AfterSend \cup {"recording"} =>
             jobState[held[w]] = "running"
    /\ \A v, w \in Workers : held[v] # None /\ held[v] = held[w] => v = w

\* The approval of a job is consumed exactly when the job was claimed, in time.
Consumption ==
    /\ \A a \in ApprovalIds : consumedAt[a] # None =>
          /\ planOf[a] # None
          /\ consumedAt[a] < expiresAt[a]
          /\ \E j \in JobIds : approvalOf[j] = a
    /\ \A j \in JobIds : jobState[j] # "absent" =>
          ((consumedAt[approvalOf[j]] # None) <=>
              (jobState[j] = "running" \/ outcome[j] # "none"))
    /\ \A j \in JobIds : outcome[j] # "none" => jobState[j] \in Terminal

\* What has left for a plan, by the step of the worker that executes it.
Transmission ==
    /\ \A p \in Plans : wire[p] \in {0, 1}
    /\ \A p \in Plans : wire[p] = 1 =>
          \E a \in ApprovalIds : planOf[a] = p /\ consumedAt[a] # None
    /\ \A w \in Workers : pc[w] \in BeforeSend => wire[HeldPlan(w)] = 0
    /\ \A w \in Workers : pc[w] \in AfterSend => wire[HeldPlan(w)] = 1
    /\ \A w \in Workers : pc[w] = "recording" =>
          /\ verdict[w] # "none"
          /\ sent[w] = 0 => wire[HeldPlan(w)] = 0
          /\ verdict[w] = "succeeded" => wire[HeldPlan(w)] = 1
    /\ \A w \in Workers : pc[w] = "confirming" => verdict[w] # "none"

\* The timestamps a job has in each state.
Timestamps ==
    \A j \in JobIds :
        /\ jobState[j] \in {"absent", "queued"} => stamps[j] = {}
        /\ jobState[j] = "running" => stamps[j] = {"started"}
        /\ jobState[j] \in {"succeeded", "failed"} => stamps[j] = {"started", "finished"}
        /\ jobState[j] = "cancelled" =>
              /\ stamps[j] \in {{"cancel_requested", "cancelled"},
                                {"started", "cancel_requested", "cancelled"}}
              /\ "started" \in stamps[j] <=> outcome[j] # "none"

\* Together they are inductive: every action preserves their conjunction.
IInv ==
    /\ TypeOK
    /\ UniqueApprovals
    /\ UniqueJobs
    /\ References
    /\ Ownership
    /\ Consumption
    /\ Transmission
    /\ EvidenceNeverUnderstates
    /\ Timestamps

=============================================================================
