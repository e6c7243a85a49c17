--------------------------- MODULE ParserPipeline ---------------------------
(***************************************************************************)
(* From an accepted upload to published evidence: the parser job queue     *)
(* (parser_queue.py), the identifier-free SQS wake-ups (parser_wakeup.py,  *)
(* general_wakeup.py), the Lambda handler that reaps and then runs one     *)
(* turn per wake-up (lambda_workers.py), the leased claims                 *)
(* (parser_job_claims.py), the worker turn (parser_promotion_worker.py)    *)
(* and the all-or-nothing promotion (parser_evidence_promotion.py).        *)
(*                                                                         *)
(* Each database transaction is one action, except claim_next, whose       *)
(* candidate subquery and conditional UPDATE see different states, and     *)
(* promote, which keeps its row locked while it writes.  Time is relative: *)
(* a lease, a visibility timeout, a throttle window and a function's       *)
(* lifetime are counters that Tick runs down, so that time never ends.     *)
(***************************************************************************)
EXTENDS Integers, FiniteSets

CONSTANTS
    Docs,         \* quarantined intakes; each has at most one parser job
    ParsedTypes,  \* those whose type is in MARKDOWN_TEXT_DOCUMENT_TYPES
    Workers,      \* concurrent parser functions
    Messages,     \* wake-ups that can be in the queue at once
    None,         \* SQL NULL, and the absence of a local value
    Lease,        \* per worker: the PARSER_CLAIM_DURATION_SECONDS it started with, in ticks
    Timeout,      \* the function's timeout
    Visibility,   \* the queue's visibility timeout
    Resend,       \* PARSER_WAKEUP_RESEND_INTERVAL_SECONDS
    MaxCrashes,   \* bound on functions killed
    MaxOutages    \* bound on failed calls to the database and to SQS

\* parser_jobs.failure_code, when it is not NULL.
Codes == {"PARSER_DOCUMENT_REJECTED", "PARSER_WORKER_FAILED", "PARSER_CLAIM_EXPIRED"}

\* The deployment's margins: a killed function's message comes back only after
\* the lease it may have left behind is over (15 s + 60 s <= 90 s).
ASSUME ConstantsAssumption ==
    /\ IsFiniteSet(Docs)
    /\ ParsedTypes \subseteq Docs
    /\ {Timeout, Visibility, Resend} \subseteq Nat \ {0}
    /\ Lease \in [Workers -> Nat \ {0}]
    /\ \A w \in Workers : Timeout + Lease[w] <= Visibility
    /\ MaxCrashes \in Nat
    /\ MaxOutages \in Nat
    /\ None \notin Docs \cup Workers \cup Messages \cup Codes

VARIABLES
    jobState,    \* parser_jobs.state, "absent" before the insert
    createdAt,   \* position of the job in created_at order
    token,       \* parser_jobs.claim_token, named by the worker that drew it
    lease,       \* ticks left until parser_jobs.claim_expires_at
    code,        \* parser_jobs.failure_code
    sections,    \* times the version's sections were inserted
    indexJobs,   \* indexing jobs inserted for the version
    logged,      \* the outcome line the worker logged for the job
    notifying,   \* uploads committed whose wake-up is still to be sent
    throttle,    \* ticks left in the sender's resend interval
    message,     \* per wake-up: "none", "ready" or "taken"
    hidden,      \* ticks until a taken wake-up becomes visible again
    pc,          \* per worker: the next step of the turn
    held,        \* per worker: the candidate, then the claimed job
    current,     \* per worker: the wake-up it serves
    deadline,    \* per worker: ticks left until the deadline of the claim it is making
    life,        \* per worker: ticks left until the function is killed
    crashes,
    outages

jobVars == <<jobState, createdAt, token, lease, code>>
evidenceVars == <<sections, indexJobs>>
queueVars == <<notifying, throttle, message, hidden>>
turnVars == <<pc, held, current, deadline, life>>
faultVars == <<crashes, outages>>
vars == <<jobVars, evidenceVars, logged, queueVars, turnVars, faultVars>>

JobStates == {"absent", "queued", "claimed", "accepted", "rejected", "failed"}
Terminal == {"accepted", "rejected", "failed"}
Working == {"reading", "fetching", "verifying", "promoting", "publishing", "rejecting", "failing"}
Steps == {"idle", "reaping", "selecting", "claiming"} \cup Working
Lines == {"accepted", "rejected", "failed", "not_published", "not_stored"}

Init ==
    /\ jobState = [d \in Docs |-> "absent"]
    /\ createdAt = [d \in Docs |-> 0]
    /\ token = [d \in Docs |-> None]
    /\ lease = [d \in Docs |-> 0]
    /\ code = [d \in Docs |-> None]
    /\ sections = [d \in Docs |-> 0]
    /\ indexJobs = [d \in Docs |-> 0]
    /\ logged = [d \in Docs |-> "none"]
    /\ notifying = {}
    /\ throttle = 0
    /\ message = [m \in Messages |-> "none"]
    /\ hidden = [m \in Messages |-> 0]
    /\ pc = [w \in Workers |-> "idle"]
    /\ held = [w \in Workers |-> None]
    /\ current = [w \in Workers |-> None]
    /\ deadline = [w \in Workers |-> 0]
    /\ life = [w \in Workers |-> 0]
    /\ crashes = 0
    /\ outages = 0

Down(n) == IF n = 0 THEN 0 ELSE n - 1

\* Time passes for everybody; a function at the end of its life is stopped or
\* done first.  A wake-up whose visibility timeout ends can be received again.
Tick ==
    /\ \A w \in Workers : pc[w] # "idle" => life[w] > 0
    /\ lease' = [d \in Docs |-> Down(lease[d])]
    /\ throttle' = Down(throttle)
    /\ hidden' = [m \in Messages |-> Down(hidden[m])]
    /\ message' = [m \in Messages |->
                      IF message[m] = "taken" /\ hidden[m] <= 1 THEN "ready" ELSE message[m]]
    /\ deadline' = [w \in Workers |-> Down(deadline[w])]
    /\ life' = [w \in Workers |-> Down(life[w])]
    /\ UNCHANGED <<jobState, createdAt, token, code, evidenceVars, logged, notifying, pc, held,
                   current, faultVars>>

Outage ==
    /\ outages < MaxOutages
    /\ outages' = outages + 1
    /\ UNCHANGED crashes

-----------------------------------------------------------------------------
(* The API: uploads, their wake-ups, and the recovery from status reads.   *)

\* receive() commits the parser job, idempotently; the route then notifies.  A
\* repeated upload of the same bytes finds the job, whatever its state.
Upload(d) ==
    /\ IF jobState[d] = "absent"
       THEN /\ jobState' = [jobState EXCEPT ![d] = "queued"]
            /\ createdAt' = [createdAt EXCEPT ![d] =
                                Cardinality({e \in Docs : jobState[e] # "absent"})]
       ELSE UNCHANGED <<jobState, createdAt>>
    /\ notifying' = notifying \cup {d}
    /\ UNCHANGED <<token, lease, code, evidenceVars, logged, throttle, message, hidden, turnVars,
                   faultVars>>

\* QueueWakeup.send: one message, and the throttle window restarts.
SendWakeup(m) ==
    /\ message[m] = "none"
    /\ message' = [message EXCEPT ![m] = "ready"]
    /\ throttle' = Resend
    /\ UNCHANGED hidden

\* notify_upload_accepted is not throttled.
NotifyUpload(d, m) ==
    /\ d \in notifying
    /\ notifying' = notifying \ {d}
    /\ SendWakeup(m)
    /\ UNCHANGED <<jobVars, evidenceVars, logged, turnVars, faultVars>>

\* The send fails, or the API process dies between the commit and the send.
NotifyLost(d) ==
    /\ d \in notifying
    /\ Outage
    /\ notifying' = notifying \ {d}
    /\ UNCHANGED <<jobVars, evidenceVars, logged, throttle, message, hidden, turnVars>>

\* derive_document_status, for a quarantined intake.
DocumentStatus(d) ==
    CASE jobState[d] = "absent" -> "quarantined"
      [] jobState[d] = "queued" -> "parser_queued"
      [] jobState[d] = "claimed" -> "parsing"
      [] jobState[d] = "accepted" -> "parsed"
      [] jobState[d] \in {"rejected", "failed"} -> "parse_failed"

StatusRead_Never(m) == FALSE /\ UNCHANGED vars

\* notify_if_parser_queued: a status read re-sends one wake-up per interval
\* while a listed document waits for the parser.
StatusRead(m) ==
    /\ \E d \in Docs : DocumentStatus(d) = "parser_queued"
    /\ throttle = 0
    /\ SendWakeup(m)
    /\ UNCHANGED <<jobVars, evidenceVars, logged, notifying, turnVars, faultVars>>

\* A wake-up is lost in transit: retention, or the dead-letter queue.
WakeupLost(m) ==
    /\ message[m] = "ready"
    /\ Outage
    /\ message' = [message EXCEPT ![m] = "none"]
    /\ UNCHANGED <<jobVars, evidenceVars, logged, notifying, throttle, hidden, turnVars>>

-----------------------------------------------------------------------------
(* SqsWorkerHandler: one turn per wake-up.                                 *)

Goto(w, step) == pc' = [pc EXCEPT ![w] = step]

\* The function is done with the wake-up; its local state goes with it.
Leave(w) ==
    /\ pc' = [pc EXCEPT ![w] = "idle"]
    /\ held' = [held EXCEPT ![w] = None]
    /\ current' = [current EXCEPT ![w] = None]
    /\ deadline' = [deadline EXCEPT ![w] = 0]
    /\ life' = [life EXCEPT ![w] = 0]

\* The turn succeeded, as far as SQS is told: the wake-up is deleted.
Acknowledge(w) ==
    /\ message' = [message EXCEPT ![current[w]] = "none"]
    /\ hidden' = [hidden EXCEPT ![current[w]] = 0]
    /\ Leave(w)
    /\ UNCHANGED <<notifying, throttle>>

Receive(w, m) ==
    /\ pc[w] = "idle"
    /\ message[m] = "ready"
    /\ message' = [message EXCEPT ![m] = "taken"]
    /\ hidden' = [hidden EXCEPT ![m] = Visibility]
    /\ current' = [current EXCEPT ![w] = m]
    /\ life' = [life EXCEPT ![w] = Timeout]
    /\ Goto(w, "reaping")
    /\ UNCHANGED <<jobVars, evidenceVars, logged, notifying, throttle, held, deadline, faultVars>>

\* A promotion keeps its job's row locked until it commits or rolls back.
Locked(d) == \E w \in Workers : pc[w] = "publishing" /\ held[w] = d

\* The rows expire_claims updates; it waits for one that is locked.
Expired == {d \in Docs : jobState[d] = "claimed" /\ lease[d] = 0}

Reap_Forgotten(w) ==
    /\ pc[w] = "reaping"
    /\ Goto(w, "selecting")
    /\ UNCHANGED <<jobVars, evidenceVars, logged, queueVars, held, current, deadline, life,
                   faultVars>>

\* expire_claims, before every turn.
Reap(w) ==
    /\ pc[w] = "reaping"
    /\ \A d \in Expired : ~Locked(d)
    /\ jobState' = [d \in Docs |-> IF d \in Expired THEN "failed" ELSE jobState[d]]
    /\ code' = [d \in Docs |-> IF d \in Expired THEN "PARSER_CLAIM_EXPIRED" ELSE code[d]]
    /\ Goto(w, "selecting")
    /\ UNCHANGED <<createdAt, token, lease, evidenceVars, logged, queueVars, held, current,
                   deadline, life, faultVars>>

\* The database is unavailable before a claim is stored: the wake-up is
\* reported as failed and comes back after its visibility timeout.
PreClaimUnavailable(w) ==
    /\ pc[w] \in {"reaping", "selecting", "claiming"}
    /\ Outage
    /\ Leave(w)
    /\ UNCHANGED <<jobVars, evidenceVars, logged, queueVars>>

\* claim_next's subquery: the queued jobs of a parsed type.
Candidates == {d \in ParsedTypes : jobState[d] = "queued"}

\* The subquery runs on the statement's snapshot; an idle turn succeeds.
Select(w) ==
    /\ pc[w] = "selecting"
    /\ IF Candidates = {}
       THEN Acknowledge(w)
       ELSE /\ \E d \in Candidates :
                  /\ \A e \in Candidates : createdAt[d] <= createdAt[e]
                  /\ held' = [held EXCEPT ![w] = d]
            /\ deadline' = [deadline EXCEPT ![w] = Lease[w]]
            /\ Goto(w, "claiming")
            /\ UNCHANGED <<queueVars, current, life>>
    /\ UNCHANGED <<jobVars, evidenceVars, logged, faultVars>>

\* The claim's columns; the deadline was computed when the turn began.
StoreClaim(w, d) ==
    /\ jobState' = [jobState EXCEPT ![d] = "claimed"]
    /\ token' = [token EXCEPT ![d] = w]
    /\ lease' = [lease EXCEPT ![d] = deadline[w]]
    /\ UNCHANGED <<createdAt, code>>

Claim_Unchecked(w) ==
    /\ pc[w] = "claiming"
    /\ StoreClaim(w, held[w])
    /\ deadline' = [deadline EXCEPT ![w] = 0]
    /\ Goto(w, "reading")
    /\ UNCHANGED <<evidenceVars, logged, queueVars, held, current, life, faultVars>>

\* The UPDATE rechecks the state.  A caller that lost the race gets no job and
\* its turn is idle, although other jobs may be queued.
Claim(w) ==
    /\ pc[w] = "claiming"
    /\ IF jobState[held[w]] = "queued"
       THEN /\ StoreClaim(w, held[w])
            /\ deadline' = [deadline EXCEPT ![w] = 0]
            /\ Goto(w, "reading")
            /\ UNCHANGED <<queueVars, held, current, life>>
       ELSE Acknowledge(w) /\ UNCHANGED jobVars
    /\ UNCHANGED <<evidenceVars, logged, faultVars>>

\* The claim commits and its acknowledgement is lost: the flag says no claim
\* was stored, so the wake-up is retried while the job stays claimed.
ClaimAckLost(w) ==
    /\ pc[w] = "claiming"
    /\ jobState[held[w]] = "queued"
    /\ Outage
    /\ StoreClaim(w, held[w])
    /\ Leave(w)
    /\ UNCHANGED <<evidenceVars, logged, queueVars>>

-----------------------------------------------------------------------------
(* ParserPromotionWorker.run_once, after the claim.                        *)

\* _claim_predicate: the job is still this worker's and the lease runs.
Active(w) ==
    /\ jobState[held[w]] = "claimed"
    /\ token[held[w]] = w
    /\ lease[held[w]] > 0

Log(w, line) == logged' = [logged EXCEPT ![held[w]] = line]

\* ParserJobClaimRejected: the worker lost its claim and publishes nothing.
NotPublished(w) ==
    /\ Log(w, "not_published")
    /\ Acknowledge(w)

\* The reader's two claim checks, before and after the storage read; the
\* second one is followed by the parser.
CheckClaim(w, from, next) ==
    /\ pc[w] = from
    /\ IF Active(w)
       THEN /\ \E step \in next : Goto(w, step)
            /\ UNCHANGED <<logged, queueVars, held, current, deadline, life>>
       ELSE NotPublished(w)
    /\ UNCHANGED <<jobVars, evidenceVars, faultVars>>

ReadSource(w) == CheckClaim(w, "reading", {"fetching"})

\* The object is read, or storage is unavailable.
FetchSource(w) ==
    /\ pc[w] = "fetching"
    /\ \E step \in {"verifying", "failing"} : Goto(w, step)
    /\ UNCHANGED <<jobVars, evidenceVars, logged, queueVars, held, current, deadline, life,
                   faultVars>>

\* The source is checked against its digest and parsed; both can reject it.
VerifyAndParse(w) == CheckClaim(w, "verifying", {"promoting", "rejecting"})

\* promote: the conditional UPDATE to accepted takes the row lock.  Evidence
\* that does not match the source is rejected before.
BeginPromotion(w) == CheckClaim(w, "promoting", {"publishing", "rejecting"})

\* The rows promote inserts, and the acceptance, become visible together.
Publish(d) ==
    /\ jobState' = [jobState EXCEPT ![d] = "accepted"]
    /\ sections' = [sections EXCEPT ![d] = @ + 1]
    /\ indexJobs' = [indexJobs EXCEPT ![d] = @ + 1]
    /\ UNCHANGED <<createdAt, token, lease, code>>

CommitPromotion_LeaseUnchecked(w) ==
    /\ pc[w] = "publishing"
    /\ Publish(held[w])
    /\ Log(w, "accepted")
    /\ Acknowledge(w)
    /\ UNCHANGED faultVars

\* The lease is checked once more at the end; if it has run out everything is
\* rolled back.
CommitPromotion(w) ==
    /\ pc[w] = "publishing"
    /\ IF lease[held[w]] > 0
       THEN /\ Publish(held[w])
            /\ Log(w, "accepted")
            /\ Acknowledge(w)
       ELSE NotPublished(w) /\ UNCHANGED <<jobVars, evidenceVars>>
    /\ UNCHANGED faultVars

\* The promotion commits and its acknowledgement is lost: the worker turns to
\* recording a failure.
PromotionAckLost(w) ==
    /\ pc[w] = "publishing"
    /\ lease[held[w]] > 0
    /\ Outage
    /\ Publish(held[w])
    /\ Goto(w, "failing")
    /\ UNCHANGED <<logged, queueVars, held, current, deadline, life>>

\* A database failure while reading or publishing rolls back; the worker turns
\* to recording a failure.
SourceUnavailable(w) ==
    /\ pc[w] \in {"reading", "verifying", "promoting", "publishing"}
    /\ Outage
    /\ Goto(w, "failing")
    /\ UNCHANGED <<jobVars, evidenceVars, logged, queueVars, held, current, deadline, life>>

Finish_Unconditional(w, from, state, failure) ==
    /\ pc[w] = from
    /\ jobState' = [jobState EXCEPT ![held[w]] = state]
    /\ code' = [code EXCEPT ![held[w]] = failure]
    /\ Log(w, state)
    /\ UNCHANGED <<createdAt, token, lease>>
    /\ Acknowledge(w)
    /\ UNCHANGED <<evidenceVars, faultVars>>

Finish_LogsAnyway(w, from, state, failure) ==
    /\ pc[w] = from
    /\ IF Active(w)
       THEN /\ jobState' = [jobState EXCEPT ![held[w]] = state]
            /\ code' = [code EXCEPT ![held[w]] = failure]
            /\ UNCHANGED <<createdAt, token, lease>>
       ELSE UNCHANGED jobVars
    /\ Log(w, state)
    /\ Acknowledge(w)
    /\ UNCHANGED <<evidenceVars, faultVars>>

\* _terminalize and _finish: one conditional UPDATE.
Finish(w, from, state, failure) ==
    /\ pc[w] = from
    /\ IF Active(w)
       THEN /\ jobState' = [jobState EXCEPT ![held[w]] = state]
            /\ code' = [code EXCEPT ![held[w]] = failure]
            /\ Log(w, state)
            /\ UNCHANGED <<createdAt, token, lease>>
       ELSE Log(w, "not_published") /\ UNCHANGED jobVars
    /\ Acknowledge(w)
    /\ UNCHANGED <<evidenceVars, faultVars>>

\* The terminal state cannot be stored.  The claim exists, so the wake-up
\* counts as served; only a later turn's reap can end the job.
FinishUnavailable(w) ==
    /\ pc[w] \in {"rejecting", "failing"}
    /\ Outage
    /\ Log(w, "not_stored")
    /\ Acknowledge(w)
    /\ UNCHANGED <<jobVars, evidenceVars>>

\* The function is killed: its transaction rolls back and its wake-up comes
\* back after the visibility timeout.
Crash(w) ==
    /\ pc[w] # "idle"
    /\ crashes < MaxCrashes
    /\ crashes' = crashes + 1
    /\ Leave(w)
    /\ UNCHANGED <<jobVars, evidenceVars, logged, queueVars, outages>>

-----------------------------------------------------------------------------

WorkerStep(w) ==
    \/ \E m \in Messages : Receive(w, m)
    \/ Reap(w)
    \/ Select(w)
    \/ Claim(w)
    \/ ReadSource(w)
    \/ FetchSource(w)
    \/ VerifyAndParse(w)
    \/ BeginPromotion(w)
    \/ CommitPromotion(w)
    \/ Finish(w, "rejecting", "rejected", "PARSER_DOCUMENT_REJECTED")
    \/ Finish(w, "failing", "failed", "PARSER_WORKER_FAILED")

Failure(w) ==
    \/ PreClaimUnavailable(w)
    \/ ClaimAckLost(w)
    \/ PromotionAckLost(w)
    \/ SourceUnavailable(w)
    \/ FinishUnavailable(w)
    \/ Crash(w)

ApiStep ==
    \/ \E d \in Docs : Upload(d)
    \/ \E d \in Docs, m \in Messages : NotifyUpload(d, m)
    \/ \E d \in Docs : NotifyLost(d)
    \/ \E m \in Messages : StatusRead(m)
    \/ \E m \in Messages : WakeupLost(m)

Next ==
    \/ Tick
    \/ ApiStep
    \/ \E w \in Workers : WorkerStep(w) \/ Failure(w)

Spec == Init /\ [][Next]_vars

\* Time passes, SQS delivers, functions and requests run on, and the owner keeps
\* looking at the document list; uploads and failures owe nothing.
Fairness ==
    /\ WF_vars(Tick)
    /\ \A w \in Workers : WF_vars(WorkerStep(w))
    /\ \A d \in Docs : WF_vars(\E m \in Messages : NotifyUpload(d, m))
    /\ WF_vars(\E m \in Messages : StatusRead(m))

FairSpec == Spec /\ Fairness

-----------------------------------------------------------------------------
(* Properties.                                                             *)

\* Every variable holds a value the tables, the queue and the locals can hold.
TypeOK ==
    /\ jobState \in [Docs -> JobStates]
    /\ createdAt \in [Docs -> Nat]
    /\ token \in [Docs -> Workers \cup {None}]
    /\ lease \in [Docs -> Nat]
    /\ code \in [Docs -> Codes \cup {None}]
    /\ sections \in [Docs -> Nat]
    /\ indexJobs \in [Docs -> Nat]
    /\ logged \in [Docs -> Lines \cup {"none"}]
    /\ notifying \subseteq Docs
    /\ throttle \in 0..Resend
    /\ message \in [Messages -> {"none", "ready", "taken"}]
    /\ hidden \in [Messages -> 0..Visibility]
    /\ pc \in [Workers -> Steps]
    /\ held \in [Workers -> Docs \cup {None}]
    /\ current \in [Workers -> Messages \cup {None}]
    /\ deadline \in [Workers -> Nat]
    /\ life \in [Workers -> 0..Timeout]
    /\ crashes \in Nat
    /\ outages \in Nat

\* Evidence and acceptance are one: a version has its sections and its one
\* indexing job exactly when its parser job is accepted, whichever of promote,
\* fail, reject and reap came first and whatever acknowledgement was lost.
EvidenceIffAccepted ==
    \A d \in Docs :
        LET rows == IF jobState[d] = "accepted" THEN 1 ELSE 0
        IN  sections[d] = rows /\ indexJobs[d] = rows

\* No two functions ever work on the same job: the wake-ups name no job and any
\* number of them may run, the conditional UPDATE alone decides.
ExclusiveClaims ==
    \A v, w \in Workers :
        pc[v] \in Working /\ pc[w] \in Working /\ held[v] = held[w] => v = w

\* The outcome line the worker logs is the state it stored; only the lines that
\* say nothing was published or stored leave the state open.
LoggedOutcomesTrue ==
    \A d \in Docs : logged[d] \in Terminal => jobState[d] = logged[d]

\* The lifecycle and failure-code CHECKs of parser_jobs hold of every row.
LifecycleCheck ==
    \A d \in Docs :
        /\ jobState[d] \in {"absent", "queued"} <=> token[d] = None
        /\ (jobState[d] \in {"rejected", "failed"}) <=> (code[d] # None)
        /\ jobState[d] = "rejected" <=> code[d] = "PARSER_DOCUMENT_REJECTED"

\* A job moves forward only: a claim is never handed on or requeued, and late
\* workers change nothing about a finished job.
ForwardOnly ==
    [][\A d \in Docs :
          /\ jobState'[d] = "queued" => jobState[d] \in {"absent", "queued"}
          /\ token[d] # None => token'[d] = token[d]
          /\ jobState[d] \in Terminal =>
                /\ jobState'[d] = jobState[d]
                /\ code'[d] = code[d]
                /\ sections'[d] = sections[d]]_vars

\* Documents of other types have no worker: their jobs wait and take nothing
\* from the others.
OtherTypesWait == \A d \in Docs \ ParsedTypes : jobState[d] \in {"absent", "queued"}

\* An upload's own wake-up may be spent on an idle turn, be lost, or its function
\* be killed; as long as the owner looks at the list, the job is still parsed.
QueuedJobsClaimed ==
    \A d \in ParsedTypes : jobState[d] = "queued" ~> jobState[d] # "queued"

\* A claim whose function was killed is ended by the wake-up that comes back: it
\* becomes visible when the lease is over, and its turn reaps before it claims.
\* This needs a lease longer than the function's timeout, which claim_durations.py
\* asks of operators and does not check; and an outage after the claim can strand
\* it (see below).
ClaimedJobsFinish ==
    \A d \in Docs, w \in {v \in Workers : Lease[v] > Timeout} :
        jobState[d] = "claimed" /\ token[d] = w ~> jobState[d] \in Terminal \/ outages > 0

-----------------------------------------------------------------------------
(* What the claims of parser_jobs promise: LeasedJobs.                     *)

StageOf(d) == IF jobState[d] \in Terminal THEN "ended" ELSE jobState[d]

OutcomeOf(d) == IF jobState[d] \in Terminal THEN <<jobState[d], code[d]>> ELSE None

\* The states and failure codes a function can store.
Verdicts == {<<"accepted", None>>, <<"rejected", "PARSER_DOCUMENT_REJECTED">>,
             <<"failed", "PARSER_WORKER_FAILED">>}

Claims == INSTANCE LeasedJobs WITH
    Jobs      <- Docs,
    Holders   <- Workers,
    Decisions <- Verdicts,
    Lost      <- <<"failed", "PARSER_CLAIM_EXPIRED">>,
    stage     <- [d \in Docs |-> StageOf(d)],
    holder    <- token,
    leased    <- {d \in Docs : jobState[d] = "claimed" /\ lease[d] > 0},
    outcome   <- [d \in Docs |-> OutcomeOf(d)]

\* Parser jobs are leased jobs: whatever is redelivered, killed or not
\* acknowledged, a job is claimed once, a function decides it only within its
\* lease although the lease is checked in earlier transactions too, the reaper
\* alone records PARSER_CLAIM_EXPIRED and only of leases that are over, and the
\* state and code it ended with stay (parser_job_claims.py, promote).
ImplementsLeasedJobs == Claims!Spec

-----------------------------------------------------------------------------
(* The inductive invariant.                                                *)

\* A function past its claim works under a token that only it holds; while it
\* publishes, its job is claimed, because the row is locked.
TokenOwnership ==
    /\ \A w \in Workers : pc[w] \in Working => held[w] \in Docs /\ token[held[w]] = w
    /\ \A w \in Workers : pc[w] = "claiming" => held[w] \in ParsedTypes
    /\ \A w \in Workers : pc[w] = "publishing" => jobState[held[w]] = "claimed"
    /\ \A w \in Workers :
          pc[w] \in {"reading", "fetching", "verifying", "promoting", "publishing"} =>
             jobState[held[w]] # "accepted"

\* Every running function serves a wake-up.
WakeupOwnership == \A w \in Workers : pc[w] # "idle" <=> current[w] # None

\* A line is logged once, at the end of the turn that claimed the job.
OneLinePerClaim ==
    /\ \A w \in Workers : pc[w] \in Working => logged[held[w]] = "none"
    /\ \A d \in Docs : logged[d] # "none" => token[d] # None

IInv ==
    /\ TypeOK
    /\ TokenOwnership
    /\ WakeupOwnership
    /\ OneLinePerClaim
    /\ EvidenceIffAccepted
    /\ LoggedOutcomesTrue
    /\ LifecycleCheck
    /\ OtherTypesWait

-----------------------------------------------------------------------------
(* What the documents say and the code does not do.                        *)

\* INFRASTRUCTURE.md on a lost claim, and the comment in _terminalize on one
\* whose outcome could not be stored: "the reaper later records
\* PARSER_CLAIM_EXPIRED".
ReaperRecordsExpiry ==
    \A d \in Docs :
        logged[d] \in {"not_published", "not_stored"} ~> code[d] = "PARSER_CLAIM_EXPIRED"

=============================================================================
