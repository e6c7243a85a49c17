# Verification of ai-qa-copilot

TLA+ models of this repository's program: approved restricted execution,
document intake, parsing and indexing, the owner's requests from retrieval to
the quality report, and the owner's tools beside the API (evaluation runs,
reviews, demo publication, migrations). TLC checks them on small instances, and
TLAPS proves, for every size, each safety property that they check, and that
execution, parsing and indexing implement the abstract specifications of what
they promise.
`PROJECT.json` maps each definition to its source lines.

Sources below are named relative to `apps/api/src/ai_qa_copilot_api/`.

## 1. The system

One FastAPI application (`main.py`) serves a single owner. It stores everything
in PostgreSQL (`documents.py` holds the tables and their constraints) and
uploaded bytes in an S3 quarantine bucket. Three kinds of Lambda functions
(`lambda_workers.py`) are woken by SQS messages that carry no identifiers; the
database alone decides which job a function works on. Nothing else is shared:
processes interact through rows, row locks, unique constraints, the bucket and
wake-ups. Beside the API the owner runs command-line tools that work on files
(evaluation runs and ledgers, the demo archive) or on the database (evaluation
reviews, the migration runner).

| Part | State | Operations | Correct when |
|---|---|---|---|
| Execution approvals (`execution_approvals.py`) | one row per plan: hash, expiry, consumption | review, approve | only the reviewed plan is authorised, once |
| Execution plans, target registry (`execution_plans.py`, `target_registry.py`) | none (a plan is rebuilt and revalidated) | build, validate | a plan binds test, target and limits; an approved plan can run |
| Execution jobs (`execution_jobs.py`) | one row per approval: state, timestamps | enqueue, claim, cancel | a job is claimed once; a withdrawn one never runs |
| Worker, executor, transport (`execution_worker.py`, `restricted_execution*.py`, `restricted_http_transport.py`) | local to one turn | validate, probe, resolve, send, judge, redact | at most one request; every early return fails closed; no secret is stored |
| Execution results (`execution_results.py`, `execution_evidence.py`, `failure_analysis.py`) | one row per finished job | record, view, analyse | evidence never understates, is final and redacted |
| Document intake (`ingestion.py`, `s3_quarantine.py`) | intakes, versions, objects | receive | quotas, dense versions, objects and rows agree |
| Parser jobs (`parser_queue.py`, `parser_job_claims.py`) | state, token, lease | enqueue, claim, finish, expire | exclusive leases; a job moves forward only |
| Parser worker (`parser_promotion_worker.py`, `parser_evidence_promotion.py`) | sections, indexing jobs | read, parse, promote | evidence exists exactly for accepted jobs |
| Wake-ups (`general_wakeup.py`, `parser_wakeup.py`, `document_status.py`) | throttle, SQS messages | notify, re-send | no queued job is forgotten |
| Indexing (`indexing.py`, `indexing_job_claims.py`, `indexing_worker.py`) | chunks, embedding cache, attachments | index, accept, fail, expire | accepted means complete; cost is bounded |
| OpenAPI documents (`openapi_parser.py`, `openapi_facts.py`, `openapi_consistency.py`) | none | parse, extract, compare | a fact is in the document; a mismatch is a difference |
| Access (`auth.py`, `authorization.py`, `audit.py`, `projects.py`) | projects | authenticate, authorize, hand the event to the sink | only the owner acts; every decision has its event |
| Retrieval and citations (`hybrid_retrieval.py`, `retrieval_citation_linkage.py`, `citations.py`) | traces, citations | retrieve, cite | evidence stays in its project |
| Analysis (`requirements_analysis.py`, `findings.py`, `finding_feedback.py`, `analysis_runs.py`, `model_gateway.py`) | runs, findings, feedback | analyse, call the model, comment | findings are cited and typed; paid calls are recorded |
| Generated tests (`generated_tests.py`, `test_*.py`, `traceability.py`) | none (values handed over) | validate, generate, revise, trace, group | proposals are grounded, histories chain, staleness is exact |
| Quality reports (`quality_report*.py`) | stored revisions | collect, build, store, read, export | a report tells the truth about what was stored |
| Evaluation reviews (`evaluation_reviews.py`) | labels, disagreements, adjudications | attest, submit, compare, adjudicate | no unresolved material disagreement is approved |
| Evaluation runs (`evaluation_runner.py`, `evaluation_spend_control.py`, `c1_evaluation_model.py`) | report, running total, ledger files | run, resume, record provenance | the budget holds and every result was paid for |
| Guest demo (`guest_demo_publish.py`, `demo.py`) | archive, history, site | publish, roll back | withdrawn content never returns |
| Migration runner (`lambda_migrate.py`, `secrets_bootstrap.py`) | schema revision, roles, grants, secrets | migrate, create or rotate a role, grant | the secret is the role's password; tables have their grants |
| Observability, mock API, web, viewer, label files, Terraform | - | - | not modelled (section 9) |

What is hard here, and what the properties are aimed at:

* **Interleaving**: concurrent claims, cancellation against a claim, a reaper
  against a promotion, uploads racing between their reads and their insert, two
  indexers missing the same cached vector, a report collected while jobs end,
  reviewers who submit at once, overlapping paid calls, two migration runners.
* **Lost acknowledgements**: a transaction commits and the caller sees an error.
  Every commit the code reacts to has such an action in the models.
* **Crashes and partial failure** between any two steps, with nobody to
  compensate: rows stored one transaction each, a password and its secret, a
  site, its archive and its history line.
* **Time**: approvals expire, leases run out under a working function, messages
  come back after their visibility timeout, re-sending is throttled.
* **Liveness without identifiers**: whether the wake-ups that are promised are
  enough for every job to end.

## 2. Modules

| Module | Models |
|---|---|
| `OneShotExecution` | abstract: what execution promises about one plan |
| `LeasedJobs` | abstract: what leased job claims promise, implemented by parsing and by indexing |
| `ExecutionPipeline` | the API's plan, approval and job routes, the queue, worker, executor and results |
| `ExecutionPipeline_proofs` | safety theorems and refinement of the execution pipeline |
| `GeneratedTests`, `ExecutionPlans`, `RestrictedRequest` | operators: test proposals; plans and approval rows built from them; the one request of a plan. Each extends the one before |
| `PlanChecks` | what those operators must satisfy, as assumptions over bounded inputs |
| `ParserPipeline` | upload to published evidence: queue, SQS, Lambda handler, claims, promotion |
| `OpenApiContract`, `ContractChecks` | operators: the OpenAPI parser, facts and comparison; their assumptions |
| `DocumentIntake` | `DocumentIntakeService.receive` against database, bucket and queue |
| `IndexingPipeline` | indexing jobs and `IndexingService.index`, transaction by transaction |
| `AccessControl`, `HybridRetrieval`, `RequirementRules`, `ModelGateway`, `ExecutionEvidence`, `QualityReports` | operators: the decisions of the owner's requests |
| `QualityWorkflow` | composes those six: the owner's concurrent requests over shared tables |
| `EvaluationReviews`, `EvaluationRuns`, `GuestDemoPublish`, `MigrationRunner` | the owner's tools |
| `ParserPipeline_proofs`, `DocumentIntake_proofs`, `IndexingPipeline_proofs`, `QualityWorkflow_proofs`, `EvaluationRuns_proofs`, `EvaluationReviews_proofs` | theorems about the module they are named after (section 7) |
| `DeploymentTools_proofs` | theorems about `MigrationRunner` and `GuestDemoPublish` |
| `MC*` | instances for TLC: symmetry sets, constant functions, and the assumptions over pure operators; `MCOwnerTools` extends the four tools, `MCDocuments` intake and indexing |

Conventions. A database transaction is one action unless something else can
happen in the middle of it: `claim_next` of the execution queue (clock and lock,
then commit), the parser's and indexer's claims (subquery, conditional UPDATE),
`promote` (holds its lock while it writes), `create_quarantined` and
`create_embedding` (read, then insert), the report collector (four SELECTs in
one READ COMMITTED session). Each process has a program counter `pc` (`stage`,
`call`, `request`, `step`, `run`), whose values are the points at which the code
touches shared state. Failures are counted against `MaxFaults` (`MaxCrashes`,
`MaxOutages`, `MaxIntakeFaults`, `MaxRunnerFaults`). Operators named
`X_Something` before a definition `X` are plausible defects of it; no
specification uses them. They are there to show that the checks notice.

Data is abstracted to what the code tells apart. A hash or uuid5 is the value it
covers, so that equal inputs give equal identifiers and nothing else does. A text
is a small record or a model value; a regular expression is an operator constant
(`RelativePath`, `HeaderPattern`), given by the checks for the few texts they
use. JSON values keep their type, because Python's `1 == True` matters to the
assertion rules.

**ExecutionPipeline.** `planOf`, `expiresAt`, `consumedAt` are
`execution_approvals`; `approvalOf`, `jobState`, `createdAt`, `stamps` are
`execution_jobs`; `outcome`, `sendCount` are `execution_results`. `wire` counts
the requests that really left, which no table knows. `pending` is the approval
a job request read before it enqueues. A worker goes idle, claiming,
validating, probing, resolving, reprobing, sending, awaiting, confirming,
recording; each early return of `execute` is `Conclude` with the send count the
code reports. `CancelRequested` is modelled although no route ever sets
`cancel_requested_at` on a running job: after a claim, a cancelled result comes
only from a probe that cannot reach the database. `RecordRejected` is a result
the repository refuses after the request was sent: the job stays running.

**GeneratedTests, ExecutionPlans, RestrictedRequest.** Pure functions, in the
order a value passes through them: a payload becomes a proposal (`ValidatedCase`,
generation, revision, traceability, duplicate groups), a proposal and a target
become a plan (`BuildPlan`, `PlanValid`), a plan becomes a request, an answer,
verdicts and stored evidence. `ExecutionPipeline` sees only whether they accept.

**ParserPipeline.** `jobState`, `token`, `lease`, `code` are `parser_jobs`;
`sections` and `indexJobs` count the rows promotion inserts; `logged` is the
outcome line; `message` and `hidden` are SQS; `notifying` are uploads between
their commit and their notification. Time is relative: leases, visibility,
lifetimes and the throttle are counters that `Tick` runs down, so behaviours
are infinite and liveness is meaningful. A function reads the length of its
leases when it starts (`claim_durations.py` accepts 1 to 3600 seconds), so `Lease`
is per function: after a change of the setting functions of both lengths run.
PDF and OpenAPI jobs (`Docs \
ParsedTypes`) have no worker in the code and stay queued.

**OpenApiContract.** `openapi_parser.py`, `openapi_facts.py` and
`openapi_consistency.py` as operators. Identifiers that the code concatenates
from names are concatenations here too, and as ambiguous. Nothing in the
repository calls these modules from a worker or a route yet.

**DocumentIntake.** A key names an intake, its version and its object. `draft`
is what `create_quarantined` read before its insert. `lostAcks` counts commits
the API did not learn of. The byte quota, a SUM in the code, is the number of
stored bytes: byte i of an intake's content is the pair of its key and i
(`BytesOf`, `StoredBytes`). The interleaving is between API processes: within one
process `receive` does not yield after the stream has been read.

**IndexingPipeline.** `chunks`, `cached`, `attached` are the three index tables,
`embedded` counts texts paid for at the adapter. `misses` and `at` are the loop
of `index`; `absent` is the row `create_embedding` did not find. The general
function is shipped disabled until an embedding adapter is configured; the model
is of the code as it runs once it is.

**QualityWorkflow.** `traces`, `citations`, `runs`, `feedback`, `modelRuns`,
`reports` are tables that only grow; `events` counts the authorization events
handed to the audit sink, `paid` model calls. An event is handed over before the
request goes on, and a sink that rejects it ends the request
(`AuditUnavailable`): that is what the interface allows an injected sink to do.
The default one writes a log line and does not notice a lost one, so no property
says that the trail is complete. What follows the event may fail
(`AuthorizedUnavailable`); nothing else can happen between the two that the
handler's first transaction would see differently. The application as composed
by default answers every retrieval with 503 (`main.py:837-841`): retrieval and
citations are modelled as they run once a retrieval and citation service is
configured. `request` is what each client's handler has read so far. Jobs are
absent, open or ended: their own life is `ExecutionPipeline`'s. The pure modules
decide every guard: who is authorised, which chunks a query may return, what a
rule finds, how an answer is classified, whether a snapshot is valid.

**EvaluationReviews.** One subject of one case. Every repository call is a step
of its caller, who may be interrupted after any of them; `approved` remembers
what `approved_final_label` returned.

**EvaluationRuns.** One output path, sessions one after another, pool threads
within a session. `billed` is what the provider really charged, which the code
never sees; `total` is what the controller believes. The informed controller and
the C1 model's own copy of it differ in the rate of the worst case and in what
they validate, and are separate actions.

**GuestDemoPublish.** The archive, the history and the site of one machine; a
run can be killed between any two writes, and within the history line (`torn`).
`Repair` is the owner removing a torn line or a directory the history does not
record, as the error messages ask. `Deploy` is the command a finished run prints,
run before the next one or never. Each run writes a folder of its own, and
deploying an earlier one later would bring back what it served; the tool neither
does nor prevents that, and the model leaves it out.

**MigrationRunner.** Passwords are numbered; `secret` and `password` are the two
places that should agree. `unsettled`, `ungranted` record runs that ended
without success; `lost` that a session, and with it the advisory lock, was lost
under a live runner. A run upgrades to the head packaged with the image it started
from; if a newer image has migrated meanwhile, alembic does not know the revision
and the run fails.

## 3. Runs

| Run | Question | Result |
|---|---|---|
| `execution_safety` | can two workers, retries, expiry, cancellation and two failures make a plan send twice, send unauthorised, or leave wrong evidence? | no; 424,174 states |
| `execution_liveness` | can a queued job be forgotten while wake-ups arrive? | no; 121,344 states |
| `parser` | are evidence and acceptance one, claims exclusive and leased, the log true; is every queued job claimed and every claim of a killed function ended? | yes; 292,188 states |
| `parser_stranded_claim` | is every lost claim later recorded as expired? | **no** (finding) |
| `documents` | intake: quotas, versions, objects, repair by repeating the upload; indexing: completeness, backing, cost, leased claims, termination | as stated; 387,232 states |
| `intake_hard_limits` | are the project quotas never exceeded? | **no** (finding) |
| `intake_duplicate_race` | is there one intake per content? | **no** (finding) |
| `indexing_late_worker` | can an expired claim publish? | **yes** (finding) |
| `owner_tools` | budgets and ledgers, review chains, interrupted publications, credentials and grants | as stated; 599,284 states |
| `reviews_hidden_disagreement` | is a disagreement ever hidden by an approved label? | **yes** (finding) |
| `workflow` | isolation, truth of reports about jobs and findings, consistent reads of jobs | yes; 403,210 states |
| `analysis_repeated` | is an analysis refused only because something failed? | **no** (finding) |

The properties, by what would break them:

* `OneSendPerPlan`, `ImplementsOneShot`: a second approval after expiry, a lost
  claim acknowledgement, a crash after the send, a repeated wake-up.
* `SendsAuthorised`: approving a rebuilt plan that is not the reviewed one.
* `WithdrawnNeverRuns`, `DecisionsFinal`: cancellation racing a claim, two claims
  of one row.
* `EvidenceNeverUnderstates`: a timeout or a failing probe after the send.
* `SpentApprovalsAccounted`, `QueuedJobsSettle`: a terminal state without
  evidence; a job nobody ever looks at. A job may stay running for ever only if a
  worker failed while holding it or its evidence was refused: execution has no
  reaper.
* `EvidenceIffAccepted`, `ExclusiveClaims`, `LoggedOutcomesTrue`,
  `ImplementsLeasedJobs`, `QueuedJobsClaimed`, `ClaimedJobsFinish`: a late worker, a
  reaper during promotion, a lease that ends while `promote` writes, a lost commit
  acknowledgement, a lost wake-up, a killed function. `ClaimedJobsFinish` is about
  claims whose lease is longer than the function's timeout, which
  `claim_durations.py` asks of operators without checking it.
* `OvershootBounded`: quotas are read before the insert, so concurrent uploads
  exceed them, against what the documents say (finding 3), but by at most one
  upload per extra process.
* `VersionsDense`, `DanglingBounded`, `LeaksBounded`, `RetriesRepair`: racing
  versions and compensation.
* `AcceptedIsComplete`, `AttachmentsBacked`, `CostBoundedByJobs`,
  `ImplementsLeasedJobs`, `JobsEnd`: transactions of `index` that know nothing of
  the job they serve, and a worker that decides a job it has lost.
* `ProjectIsolation`: a trace, citation, run or finding of one project named in a
  request of another, several requests later.
* `ReportFaithful`, `RejectionExplained`: jobs that end and analyses stored
  between the collector's SELECTs. A report may miss what happened after it
  began and never misstates what it shows.
* `FindingsShownWhole`: an analysis stored before, between or after those SELECTs.
  The report covers every analysis there was when it began, says that nothing was
  analysed only if there was none, and presents exactly the stored findings of
  what it covers. An analysis that found nothing is not an analysis that was not
  run.
* `EndedJobsShownWhole`: the routes read the job before its result, in two
  transactions; the other order, or a result committed after its job, would show
  an ended job without its evidence.
* `SpendBounded`, `FailureEndsLedger`, `ReportAccounted`: a call that costs more
  than its worst case, overlapping calls, a lost ledger line, a resumed run.
* `RevisionChains`, `PartiesDistinct`, `OneAdjudicatedFinal`: labels read before
  the transaction that stores the next one.
* `DeployedRecorded`, `WithdrawnForGood`: killed publications and re-publications
  of withdrawn content.
* `CredentialsAgree`, `GrantsFollowContract`: two runners, a failed secret write,
  a table created after the grants.

### Pure operators

TLC evaluates these assumptions at the start of the runs whose module extends
them; each quantifies over every input of a bounded set.

* Execution runs (`PlanChecks`): `ValidationStable`, `RepeatsArePython`,
  `Grounded`, `HistoriesChain`, `StalenessExact`, `DuplicatesAgree`,
  `JudgedConsistently`, `TargetsPinned`, `PlansBound`, `ApprovedPlansRun`,
  `BodyBounded`, `DeadlineShared`, `SuccessEarned`, `RedactionAndStorage`.
* Parser runs (`ContractChecks`): `ParsedOperationsAreFacts`,
  `IncomparableExplained`, `InheritanceNeverRecorded`, `DifferencesExact`,
  `MismatchesAreDifferences`.
* Workflow runs (`MCQualityWorkflow`): `OwnerIsProved`, `DecisionsAudited`,
  `DemoIsPublic`, `DemoSelectedWhole`, `FusionRespectsRankings`,
  `ResponsesTyped`, `SummaryAddsUp`, `RulesMeetContract`, `EvidenceRedacted`.

## 4. Findings

1. *Stranded parser claims.* `not_published` and an outcome that could not be
   stored are documented to end as `PARSER_CLAIM_EXPIRED`; the wake-up is
   acknowledged, and without another queued document no turn reaps.
2. *Duplicate intakes.* The digest lookup and the insert are separate
   transactions without a unique constraint.
3. *Hard limits.* The project's files and bytes are read in one transaction and the
   upload is inserted in another. The product requirements and the policy's own
   docstring call the limits hard maximums; uploads that are counted together
   exceed them.
4. *Late indexers.* Only the job's state is guarded by the lease; chunks and
   attachments are not, and retrieval does not ask for the job's state.
5. *Hidden disagreements.* Disagreements are stored one transaction each and a
   list that is not empty is taken as complete; interrupted after a difference
   that is not material, the material one is never recorded, and a final label
   is approved over it.
6. *Repeated analyses.* A finding's id depends only on its rule and citations and
   is a primary key: analysing the same citations again, or a passage with two
   vague terms, answers 503 for good.

What the assumptions state as the code is, and a reader might not expect:

* A generated test may carry `x-forwarded-for`: contract, plan and approval
  accept it and only the executor refuses it, with the approval already spent
  (`ApprovedPlansRun`).
* The registry accepts base URLs that are not canonical (port 0, a trailing
  slash, upper case); the executor always denies them (`TargetsPinned`).
* An answer with a list that pairs a sensitive name with a value, or with a
  number that is not finite, is redacted by the executor and then refused by
  `execution_results.py`: the request was sent, the job stays running
  (`RedactionAndStorage`, `RecordRejected`).
* The plan's hash covers the request, the assertions and the limits, not the
  title of the test (`PlansBound`).
* Two assertions that differ only as `1` and `True` are refused as repeats
  (`RepeatsArePython`); keys of a JSON body that differ by outer white space are
  merged.
* `openapi_facts.py` passes inherited security on as a tuple where a list is
  expected: no operation is ever marked as inheriting (`InheritanceNeverRecorded`).
* An accepted OpenAPI document can have facts that cannot be compared: a method
  spelled twice in different case, a repeated parameter, a dotted schema name
  (`IncomparableExplained`).

Other differences between prose and code, which no run is about: a plan whose
approval lapsed can never be approved again, because the unique constraints of
`execution_approvals` keep the expired row (`documents.py:476-485`), while
FR-APP-004 says expired approvals require a new review; the header of
`lambda_workers.py` says a turn with a claim records a terminal state, while an
execution job stays `running` after a crash (`docs/INFRASTRUCTURE.md` names the
missing reaper); `docs/THREAT_MODEL.md` speaks of an unexpired approval at the
send, while expiry is last checked before the probes and the resolution;
`docs/BACKLOG.md` and `indexing.py` say each content hash is embedded at most
once per project, while two workers that miss together both pay and the loser's
job fails.

## 5. Bounds

* *Execution*: two plans, approvals, jobs and workers, so that jobs compete, and
  an approval, a claim and a result of different plans interleave; approvals
  live two ticks of three, so one expires at every step and a second could be
  made; two failures, so that one can hit the recovery from another. One request
  slot suffices: enqueue's snapshot is stale because of workers, not of a second
  request. Identifiers are compared only for equality: symmetric. These runs
  turn the deadlock check off because clock and identifiers run out.
* *Parser*: two functions, two messages, two documents, one of a type that has
  no worker, a killed function and a lost call. The run keeps the deployment's
  inequality, timeout + lease <= visibility
  (`infra/modules/data_plane/main.tf`: visibility is six times the timeout). One
  function's lease is longer than its timeout, as the deployment's is; the
  other's is not, and can end at every step of the function.
* *Intake*: two requests, files of one, two and too many bytes, a quota of two
  files and three bytes: every quota, race and compensation occurs.
* *Indexing*: two versions that share a text, one of which repeats it; two
  workers, a lease of two ticks, one failure. In the run `documents` intake and
  indexing share no state, and a behaviour is one of a single end, chosen by the
  initial state (`end`).
* *Workflow*: two projects, of which one has contradicting passages and the jobs;
  two clients, of which one generates reports; two jobs with every kind of end;
  three authorized requests, enough for a cite, an analysis and a report that
  another client's analysis races; one failure. `MaxRequests` bounds behaviours,
  so the deadlock check is off.
* *Owner tools*: two threads, two sessions and two fixtures, usages below, at and
  above the worst case; three reviewers of which one may not be independent, two
  callers, contents that differ on a material and on an immaterial path; three
  publications, four history lines, one killed run; two runners, three passwords,
  two failures, releases that add a table. The tools share no state, so a
  behaviour of the run is one of a single tool, chosen by the initial state. All
  are bounded, so the deadlock check is off.
* *Pure operators*: one or two elements on each side of every limit, each of which
  is set to one or two in the configuration.

## 6. Fairness

* A worker takes its enabled steps (weak fairness per worker): a running
  function runs on, and SQS redelivers until a message is acknowledged.
* Execution: wake-ups keep arriving. In the repository nothing sends them yet
  (the trigger is disabled), so `QueuedJobsSettle` holds of the worker once its
  trigger or a scheduled CLI exists.
* Parser and indexing: time passes and the owner keeps looking at the document
  list, whose read re-sends wake-ups. Uploads, promotions and failures owe
  nothing.
* Intake: requests run on, and the owner repeats each upload of an admissible file;
  strong fairness, because a slot may be busy in between.
* `MCDocuments` restates the fairness of intake and of indexing for the end that
  moves. `RetriesRepair` and `JobsEnd` are of the form `[]<>`: stored intakes, parser
  jobs and ended indexing jobs stay, so each says that every one is repaired, or
  ends, in time.
* Workflow and owner tools: none; nothing in them is promised to happen, as the
  owner decides on every next step.

## 7. Proofs

Every module with a specification of its own is proved about, in a module
`X_proofs` that extends it (`DeploymentTools_proofs` extends two). The shape is
the same: `Init => IInv`, one lemma per action for `IInv /\ [Next]_vars =>
IInv'` with a step per conjunct the action can disturb, the theorem
`Invariance`, and from it each property. Each `IInv` (`IntakeInv` of intake)
stands in named parts at the end of its module, those of reviews, migrations and
publication (`ReviewInv`, `MigrateInv`, `PublishInv`) at the head of their
proofs; TLC checked it on the instance of the module's run before it was proved.
No run lists it, because the parts a reader wants are properties of the run. No
theorem bounds a set or a counter: plans, documents, workers, messages,
requests, threads, reviewers, runners, faults, leases and quotas are arbitrary.
The theorems about the four tools are about each tool's own specification; a
behaviour of the run `owner_tools` is a behaviour of one of them, and likewise
for intake and indexing in the run `documents`.

The assumptions are the `ASSUME`s of the modules, which TLC evaluates: bounds are
naturals, `None` is none of the other values, and where something is counted the
set counted over is finite (`Docs`, `Versions`, `Requests`, `Cases`, `Clients`,
`Jobs`). Beyond that: `ParserPipeline` assumes the deployment's timeout + lease
<= visibility, for each function's lease; `MigrationRunner` that a later release
has every table of an earlier one (no `upgrade` of `alembic/versions` drops or
renames a table); `EvaluationRuns` that no call costs more than `MaxBill` nor is
admitted with less than `LeastWorst` (both only name the bound of
`SpendBounded`) and what `SpendLimits` and `Calibration` validate;
`QualityWorkflow` that a recorded outcome is one of `Outcomes`, which is the
CHECK of `execution_results` (`documents.py:605`), and that a failure has a code
the failure analysis knows, which is what the executor records (`collect` would
answer any other with 503).

**Execution** (`ExecutionPipeline_proofs`): `Invariance`, `TypeCorrectness`,
`AtMostOneSend`, `SendAuthorisation`, `WithdrawalSafety`, `EvidenceSafety`,
`ApprovalAccounting`, `LifecycleSafety`, `FinalDecisions` and `Refinement`
(`Spec => ImplementsOneShot`). `OneSendPerPlan` needs to know that a worker about
to send is the first for its plan, which follows only from a chain: a plan has
one approval (`UniqueApprovals`), an approval one job (`UniqueJobs`), rows refer
to existing rows (`References`), a job in progress belongs to one worker
(`Ownership`), an approval is consumed exactly by the claim (`Consumption`), and
each program counter fixes what has left the plan so far (`Transmission`).
`Timestamps` carries the lifecycle CHECK and tells a cancellation before a claim
from one after. Actions that only conclude, advance or abandon a turn share a
lemma (`ConcludeKeeps`, `AdvanceKeeps`, `AbandonKeeps`). For the refinement,
`MappingFacts` states the abstract authority and answer of a plan in terms of
its one approval and one job; each action is then a stutter or one of Grant,
Spend, Request and Settle. The data modules do not appear: the pipeline takes
every outcome their checks allow, so the theorems hold whatever they decide.

**Parser** (`ParserPipeline_proofs`): `EvidenceOnce`, `ClaimExclusion`,
`LogTruth`, `RowChecks`, `OnlyForward`, `Refinement`. Two functions may hold the
same job in their subquery, so exclusion is not about `held` but about the
token: a function past its claim works under a token only it wrote and nobody
ever overwrites (`TokenOwnership`). The same part says that a function that has
yet to publish finds its job not accepted, and claimed while it holds the row
lock, without which a reaper between the check and the write would leave
evidence without acceptance. `LoggedOutcomesTrue` needs that a job gets one
outcome line, at the end of the turn that claimed it (`OneLinePerClaim`).
`Refinement` is `Spec => ImplementsLeasedJobs`: `LeasedJobs` has a set of
running leases and no clock, no wake-ups and no workers. `Tick` maps to Lapse of
the leases that reach zero, a reap to Sweep, a claim to Claim of a lease that
may already be over, and the commit of a promotion and each conditional UPDATE
to Decide, whose guard is that the lease still runs. The other steps stutter,
the lost acknowledgements aside: they are the Claim or Decide that committed.

**Intake** (`DocumentIntake_proofs`): `DenseVersions`, `DanglingOnlyByLostAck`,
`LeaksOnlyByFaults`, `QuotaOvershoot`. Density must survive drafts that are stale
when they are inserted: a draft's number is at most the next one (`DraftsNext`),
and the unique constraint turns every other collision into a rollback. The
dangling bound is kept by counting an object as lost when its deletion is
decided, not when it happens (`Doomed`). The quota bound counts what is stored
together with what is past the count and may still be inserted: the last
request to be admitted saw everything stored by then, the others are at most
one upload each (`UsageTracked`). Rests on lemmas about the bytes of disjoint
uploads and about when n versions are 1 .. n.

**Indexing** (`IndexingPipeline_proofs`): `CompleteIndex`,
`NoDanglingAttachment`, `CostBound`, `OnlyForward`, `Refinement`.
`AcceptedIsComplete` needs what each step of `index` may rely on (`Progress`):
the chunks inserted, each hash cached or among the misses, every attachment
below the loop index. `CostBoundedByJobs` is not inductive, because the job that
is about to pay is already started: `CostProgress` counts only jobs whose texts
have been sent or never will be (`Settled`), so that paying moves a job into the
set in the same step. `Refinement` shows that indexing jobs, too, implement
`LeasedJobs`: the job's row keeps the promise that the rows of the index do not
(finding 4).

**Owner's requests** (`QualityWorkflow_proofs`): `ProjectsAreIsolated`,
`ReportsStayTrue`, `ReportsShowFindings`, `RejectionsAreRaces`, `EndedJobsStay`,
and `BuilderMeetsContract`: for every input that satisfies the report input's
contract, generated tests included, the builder makes a snapshot that satisfies
the snapshot's contract. Isolation is a chain over several requests: a citation
is of a chunk its trace selected in the trace's project (`CitationsGrounded`),
an analysis cites what its project can read and its findings what it cites
(`RunsGrounded`), feedback and reports likewise. Reports are proved from what
the collector has gathered after each SELECT (`CollectedTrue`): everything that
was there when the request began, nothing that is not there now. With
`BuilderMeetsContract`, and because the rules' findings cite only what they were
given (`FindingsCite`), the only input the builder can refuse is one whose runs
cite what the earlier SELECT did not see. `FindingsShownWhole` is about rows
read long after the report was stored: a revision names its analyses by id, ids
are never given twice and their rows never change (`RunsGrounded`, `Grows`), so
what is stored under them is what the report was built from (`RevisionTrue`).

**Evaluation runs** (`EvaluationRuns_proofs`): `SpendLimit`, `ReportsPaidFor`,
`FailureIsFinal`, for both controllers and any number of threads. The bound
needs that at most one call is out (`CallsSerialised`), that it was admitted with
room for its worst case, and that until a call fails the total is what was really
billed (`SpendTracked`). `ReportAccounted` needs where every case of a session is,
in the pool, with a thread, in the results or in the resumed report
(`PoolAccounted`), because a report is written only when nothing has raised.

**Evaluation reviews** (`EvaluationReviews_proofs`): `RevisionsChained`,
`ReviewersDistinct`, `FinalLabelUnique`. Callers act on what they read several
transactions ago, so the invariant says of every program counter what is still
true of it (`CallOK`): the labels a draft is linked to have the right roles and
other authors (`LinksOK`), its parent is the revision before it (`ChainOK`); the
unique constraint then decides which of two equal numbers is stored.
`OneAdjudicatedFinal` was the hard one. Two adjudicators can each store a label
and some adjudications, and a recording that was interrupted hides differences,
so neither the label nor the list of a comparison is unique. What saves the
property is order: differences are stored in path order, so whatever is stored
or found is an initial segment of them (`StoredInv`, `Initial`); every listing
with a material difference therefore has the first one; a disagreement has one
adjudication (`AdjudicatedInv`); and a returned label must have decided that
first one (`DecidesFirst`, `ApprovedInv`).

**Migrations** (`DeploymentTools_proofs`): `CredentialsInAgreement`,
`GrantsContracted`. One session holds the advisory lock, and a runner that works
outside it has lost its session (`LockInv`). Under the lock the password about to
be set is newer than every stored one, and between the commit and the secret it is
the role's own (`PasswordInv`); a runner that lost the lock can only be late,
which is why the property excuses it from agreement and not from the second half,
that no secret is ahead of its role. Grants need that the tables a runner read
are those there are while it holds the lock, and that the default privileges came
with the app role's password (`GrantInv`).

**Publication** (`DeploymentTools_proofs`): `DeployedIsRecorded`,
`WithdrawnStaysWithdrawn`. A run plans from a history that it extends only at
the end, and may be killed before, so the invariant relates three histories: the
recorded one, the one the site was deployed from and the one the plan was made
from (`Continues`), with what must be in the archive at each step of the write
(`PlanOK`, `Pending`). A site is safe to serve when its pointers are among what
it serves and nothing withdrawn is (`SiteOK`); that a plan makes such a site
rests on lemmas about a replayed history: its current and previous publications
are never withdrawn ones (`CurrentPublic`, `PreviousPublic`), and what is
withdrawn only grows with the history (`WithdrawnGrows`).

What the proofs changed in the models. Nothing the code does; some definitions
could not be reasoned about and have an equivalent form now: the byte quota as a
number of bytes, the sum in `ValidSummary` written out, `Contradictions` as a
set of pairs, the collector's four SELECTs as one operator `Collect`, and a case
taken from the pool without a minimum over a sequence. The parts of `IInv` of
parser and indexing that had been written down before were not inductive and
were strengthened as described. The refinement of `LeasedJobs` showed that in the
parser's instance no lease ever ended under a running function, so that the last
check of `promote` was never needed: leases are per function since then.

Only model-checked:

* Liveness: `QueuedJobsSettle`, `QueuedJobsClaimed`, `ClaimedJobsFinish`, `JobsEnd`,
  `RetriesRepair`. Fairness and `ENABLED` are outside the prover's reach.
* The assumptions over pure operators in `PlanChecks`, `ContractChecks` and
  `MCQualityWorkflow`: they evaluate recursive definitions over bounded data, and
  induction over data is outside the prover's reach. What the workflow's proof
  needs of its rules and of the report builder is proved, not taken from there.

## 8. Plan

The order is by how much a defect would cost and how hard a test is.

1. Done: the modules of section 2, with the proofs of section 7.
2. Composition of intake, parser and indexing over the jobs they hand on: an
   upload ends as a searchable version or a stored failure.
3. Pure parts still open: `_split_text`, Markdown sections, evaluation scoring
   and baseline comparison.

## 9. Not modelled

Listed in `PROJECT.json` with reasons. Pure presentation (web, viewer, report
rendering, demo pages), cryptography (signatures, SCRAM), provider adapters and
prompts, the reference fixtures of the evaluation, label files and their
completeness report, scoring and benchmark arithmetic over files, logging,
Terraform and repository scripts, and the mock target carry no control of their
own. PDF and Markdown parsing is accept or reject, and scores inside PostgreSQL
are arbitrary rankings.
