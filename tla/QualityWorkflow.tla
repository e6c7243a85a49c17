--------------------------- MODULE QualityWorkflow ---------------------------
(***************************************************************************)
(* The owner's requests on a project, from retrieved evidence to a stored  *)
(* quality report: authorize and audit; retrieve passages and cite them;   *)
(* analyse citations into findings; give feedback; call the model; read an *)
(* execution job and its result; generate a report from everything stored. *)
(*                                                                         *)
(* Each client runs one request at a time and every database session or    *)
(* statement that another request may fall between is a step of its own:   *)
(* the report generator's four SELECTs run in one session at READ          *)
(* COMMITTED, so each sees what is committed when it runs.  Rows of these  *)
(* tables are only ever inserted; identifiers the database generates are   *)
(* positions in the sequence of rows.                                      *)
(*                                                                         *)
(* Execution jobs belong to ExecutionPipeline; here a job is absent, open  *)
(* (queued or running) or ended, with or without a result.                 *)
(***************************************************************************)
EXTENDS AccessControl, HybridRetrieval, RequirementRules, ModelGateway,
        ExecutionEvidence, QualityReports

CONSTANTS Projects,      \* project ids
          AuthConfig,    \* the server's authentication settings
          Headers,       \* Authorization headers requests come with
          Queries,       \* retrieval queries
          Passage,       \* the text of each chunk, as the rules see it
          GatewayConfig, \* the model provider's environment
          Wires,         \* what the provider's connection may yield
          Jobs,          \* execution jobs, all of them of JobProject
          JobProject,
          Recorded,      \* results the executor records
          Clients,       \* concurrent requests
          Generators,    \* bound: the clients that generate reports
          MaxRequests,   \* bound: requests
          MaxFaults      \* bound: database, embedding and audit sink failures

\* execution_results.outcome is checked by the database; the code of a failure is
\* one the executor has, so collect never meets one it would answer with 503.
ASSUME WorkflowAssumption ==
    /\ IsFiniteSet(Clients) /\ IsFiniteSet(Jobs)
    /\ NoValue \notin Recorded
    /\ \A o \in Recorded : /\ o.outcome \in Outcomes
                           /\ o.outcome # "succeeded" => Analysable(View(o))
    /\ MaxRequests \in Nat /\ MaxFaults \in Nat

VARIABLES
    project,    \* state of each project row: absent, active or archived
    traces,     \* retrieval_traces with their ranked candidates
    citations,  \* citations
    runs,       \* requirement_analysis_runs with their findings
    feedback,   \* finding_feedback
    modelRuns,  \* analysis_runs: stored model answers
    reports,    \* quality_report_revisions
    job, result,  \* execution_jobs.status and execution_results
    events,     \* authorization events handed to the audit sink that allow a request
    request,    \* what each client's request has read so far
    paid,       \* model calls made
    faults,
    unexplained \* history: a request answered 503 although nothing had failed

store == <<traces, citations, runs, feedback, modelRuns, reports>>
vars == <<project, store, job, result, events, request, paid, faults, unexplained>>

Idle == [op |-> "idle"]

Init ==
    /\ project = [p \in Projects |-> IF p = JobProject THEN "active" ELSE "absent"]
    /\ traces = << >> /\ citations = {} /\ runs = << >> /\ feedback = << >>
    /\ modelRuns = << >> /\ reports = << >>
    /\ job = [j \in Jobs |-> "absent"]
    /\ result = [j \in Jobs |-> NoValue]
    /\ events = 0
    /\ request = [c \in Clients |-> Idle]
    /\ paid = 0 /\ faults = 0 /\ unexplained = FALSE

Fault == faults < MaxFaults /\ faults' = faults + 1
Answer(c) == request' = [request EXCEPT ![c] = Idle]
Continue(c, r) == request' = [request EXCEPT ![c] = r]
InProgress(c, op) == request[c].op = op

\* The rows of the tables
TraceRow(p, selected) == [project |-> p, selected |-> selected]
RunRow(id, p, cited, found) == [id |-> id, project |-> p, citations |-> cited, findings |-> found]
FeedbackRow(p, run, f) ==
    [project |-> p, run |-> run, finding |-> f.id, citations |-> f.citations]
ModelRunRow(p, response) ==
    [project |-> p, provider |-> response.provider, tokens |-> response.usage.total]
RevisionRow(id, input, r) ==
    [id |-> id, project |-> input.project, snapshot |-> Snapshot(id, input),
     known |-> r.known, analysed |-> r.analysed, state |-> input.state]

-----------------------------------------------------------------------------
(* Authentication, authorization and audit.                                *)

\* The projects some caller may reach, and those some caller is denied
Decided(allowed) ==
    {p \in Projects : \E header \in Headers, action \in Actions :
       allowed = (AuthorizeRequest(AuthConfig, header, action, p,
                                   ProjectResource(p)).status = 200)}
Reachable == Decided(TRUE)
Denied == Decided(FALSE)

\* _authorize_project_resource: the event is handed to the sink before the
\* request goes on.  The policy reads nothing that changes and a project's row is
\* never deleted, so what follows first, reading it or the handler's first
\* transaction, is the same step; AuthorizedUnavailable is its failure.
Authorize(c, p) ==
    /\ InProgress(c, "idle")
    /\ events < MaxRequests
    /\ p \in Reachable
    /\ events' = events + 1

\* _authorize_project_resource, then _require_project: an archived project
\* is still there.
Admit(c, p) == Authorize(c, p) /\ project[p] # "absent"

\* Missing or untrusted credentials, or another account: the denial is
\* recorded, which is not counted, and nothing else happens.
Deny(c, p) ==
    /\ InProgress(c, "idle")
    /\ p \in Denied
    /\ UNCHANGED vars

\* An injected audit sink rejects the event: the request is answered 503.  The
\* default one writes a log line and does not notice a line that is lost.
AuditUnavailable(c) ==
    /\ InProgress(c, "idle")
    /\ Fault
    /\ UNCHANGED <<project, store, job, result, events, request, paid, unexplained>>

\* The request is authorized, and then the database, or the embedding provider of
\* a retrieval, fails before anything is stored: 503.
AuthorizedUnavailable(c, p) ==
    /\ Authorize(c, p)
    /\ Fault
    /\ UNCHANGED <<project, store, job, result, request, paid, unexplained>>

\* A project that does not exist answers 404 once the owner is authorized.
RequireProject(c, p) ==
    /\ Authorize(c, p)
    /\ project[p] = "absent"
    /\ UNCHANGED <<project, store, job, result, request, paid, faults, unexplained>>

\* The collection is authorized, as no project is there to name.
CreateProject(c, p) ==
    /\ InProgress(c, "idle")
    /\ events < MaxRequests
    /\ \E header \in Headers :
         AuthorizeCollectionRequest(AuthConfig, header, "mutate").status = 200
    /\ events' = events + 1
    /\ project[p] = "absent"
    /\ project' = [project EXCEPT ![p] = "active"]
    /\ UNCHANGED <<store, job, result, request, paid, faults, unexplained>>

\* archive: a second call changes nothing.
ArchiveProject(c, p) ==
    /\ Admit(c, p)
    /\ project' = [project EXCEPT ![p] = "archived"]
    /\ UNCHANGED <<store, job, result, request, paid, faults, unexplained>>

\* Any store that cannot be reached ends the request with 503.
Unavailable(c) ==
    /\ ~InProgress(c, "idle")
    /\ Fault
    /\ Answer(c)
    /\ UNCHANGED <<project, store, job, result, events, paid, unexplained>>

-----------------------------------------------------------------------------
(* Retrieval and citations.                                                *)

\* retrieve: the query is embedded, both rankings are read and fused, and the
\* trace is stored with its candidates, in one transaction.
Retrieve(c, p, query) ==
    /\ Admit(c, p)
    /\ QueryValid(query)
    /\ \E lexical \in LexicalRankings(p, query), semantic \in SemanticRankings(p, query) :
         LET selected == Fuse(lexical, semantic, query.result_limit) IN
         /\ traces' = Append(traces, TraceRow(p, ToSet(selected)))
         /\ IF selected = << >>
            THEN UNCHANGED request
            ELSE Continue(c, [op |-> "cite", project |-> p, trace |-> Len(traces) + 1])
    /\ UNCHANGED <<project, citations, runs, feedback, modelRuns, reports, job, result,
                   paid, faults, unexplained>>

\* A query without searchable text or within no bounds: 422
RefuseQuery(c, p, query) ==
    /\ Admit(c, p)
    /\ ~QueryValid(query)
    /\ UNCHANGED <<project, store, job, result, request, paid, faults, unexplained>>

\* create_from_selected_candidates: all of the trace's citations or none
Cite(c) ==
    LET r == request[c]
        trace == traces[r.trace]
    IN
    /\ InProgress(c, "cite")
    /\ Selected(trace, r.project) = trace.selected
    /\ \A x \in trace.selected :
         Linked(CitationOf(r.trace, trace, x), r.trace, x, r.project)
    /\ citations' = citations \cup {CitationOf(r.trace, trace, x) : x \in trace.selected}
    /\ Answer(c)
    /\ UNCHANGED <<project, traces, runs, feedback, modelRuns, reports, job, result, events,
                   paid, faults, unexplained>>

-----------------------------------------------------------------------------
(* Requirements analysis and feedback.                                     *)

CitationFor_AnyProject(p, k) == k \in citations

\* get_for_project
CitationFor(p, k) == k \in citations /\ k.project = p /\ CitationReadable(k)

Findings(ks) == AnalyzeCitations(ks, [k \in ks |-> Passage[k.chunk]])

\* A rule that matches one passage through several of its terms makes as many
\* findings with the same id.
RepeatsId(findings) == \E f, g \in findings : f # g /\ f.id = g.id

FindingIds == UNION {{f.id : f \in runs[i].findings} : i \in DOMAIN runs}

\* requirement_findings.id is the primary key of all runs' findings.
KeysFree(findings) == {f.id : f \in findings} \cap FindingIds = {}

\* analyze: the citations are read and never change, so reading them and
\* storing the run is one step.  A key that exists rolls the run back and is
\* answered as if the database were unavailable.
Analyze(c, p, ks) ==
    LET found == Findings(ks)
        stored == ~RepeatsId(found) /\ KeysFree(found) IN
    /\ Admit(c, p)
    /\ \A k \in ks : CitationFor(p, k)
    /\ \A f \in found : FindingValid(f)
    /\ runs' = IF stored
               THEN Append(runs, RunRow(Len(runs) + 1, p, ks, found))
               ELSE runs
    /\ unexplained' = (unexplained \/ ~stored)
    /\ UNCHANGED <<project, traces, citations, feedback, modelRuns, reports, job, result,
                   request, paid, faults>>

\* record: the finding is one of a run of the project.
GiveFeedback(c, p, i, f) ==
    /\ Admit(c, p)
    /\ runs[i].project = p
    /\ f \in runs[i].findings
    /\ feedback' = Append(feedback, FeedbackRow(p, i, f))
    /\ UNCHANGED <<project, traces, citations, runs, modelRuns, reports, job, result, request,
                   paid, faults, unexplained>>

-----------------------------------------------------------------------------
(* Analysis runs: one provider call, then one row.                         *)

\* analysis_run_service_from_environment: without a provider there is no call.
InvokeModel(c, p) ==
    /\ Admit(c, p)
    /\ Adapter(GatewayConfig).ok
    /\ paid' = paid + 1
    /\ Continue(c, [op |-> "answer", project |-> p])
    /\ UNCHANGED <<project, store, job, result, faults, unexplained>>

\* AnalysisRunService.create: the answer satisfies the typed contract.
StoreModelRun(c) ==
    /\ InProgress(c, "answer")
    /\ \E wire \in Wires :
         LET response == Generate(Adapter(GatewayConfig), wire) IN
         /\ response.ok
         /\ modelRuns' = Append(modelRuns, ModelRunRow(request[c].project, response))
    /\ Answer(c)
    /\ UNCHANGED <<project, traces, citations, runs, feedback, reports, job, result, events,
                   paid, faults, unexplained>>

\* A timeout, a refusal, a truncated or malformed answer: 503, nothing stored
RefuseModelRun(c) ==
    /\ InProgress(c, "answer")
    /\ \E wire \in Wires : ~Generate(Adapter(GatewayConfig), wire).ok
    /\ Answer(c)
    /\ UNCHANGED <<project, store, job, result, events, paid, faults, unexplained>>

-----------------------------------------------------------------------------
(* Execution jobs, and the reading of one.                                 *)

jobUnchanged == <<project, store, events, request, paid, faults, unexplained>>

EnqueueJob(j) ==
    /\ job[j] = "absent"
    /\ project[JobProject] # "absent"
    /\ job' = [job EXCEPT ![j] = "open"]
    /\ UNCHANGED result /\ UNCHANGED jobUnchanged

\* Cancelled while queued, or failed before execution: no result is stored.
EndWithoutResult(j) ==
    /\ job[j] = "open"
    /\ job' = [job EXCEPT ![j] = "ended"]
    /\ UNCHANGED result /\ UNCHANGED jobUnchanged

RecordResult_TwoCommits(j) ==
    /\ \/ job[j] = "open" /\ UNCHANGED result
       \/ job[j] = "ended" /\ result[j] = NoValue
            /\ \E o \in Recorded : result' = [result EXCEPT ![j] = o]
    /\ job' = [job EXCEPT ![j] = "ended"]
    /\ UNCHANGED jobUnchanged

\* The result and the job's state are stored in one transaction.
RecordResult(j) ==
    /\ job[j] = "open"
    /\ job' = [job EXCEPT ![j] = "ended"]
    /\ \E o \in Recorded : result' = [result EXCEPT ![j] = o]
    /\ UNCHANGED jobUnchanged

\* get_execution_job, get_execution_evidence, get_execution_failure_analysis:
\* the job is read first, its result in a second session.
ReadJob(c, j) ==
    /\ Admit(c, JobProject)
    /\ job[j] # "absent"
    /\ Continue(c, [op |-> "view", job |-> j, status |-> job[j]])
    /\ UNCHANGED <<project, store, job, result, paid, faults, unexplained>>

ReadResult(c) ==
    /\ InProgress(c, "view")
    /\ LET r == request[c] IN
       Continue(c, [op |-> "answered", job |-> r.job, status |-> r.status,
                    result |-> result[r.job]])
    /\ UNCHANGED <<project, store, job, result, events, paid, faults, unexplained>>

\* The routes' answers leave.
ReturnJob(c) ==
    /\ InProgress(c, "answered")
    /\ Answer(c)
    /\ UNCHANGED <<project, store, job, result, events, paid, faults, unexplained>>

-----------------------------------------------------------------------------
(* What the read routes of a project answer.                               *)

Rows(table, p) == {i \in DOMAIN table : table[i].project = p}

ListActive == {p \in Projects : project[p] = "active"}
ListModelRuns(p) == {modelRuns[i] : i \in Rows(modelRuns, p)}
GetRuns(p) == {runs[i] : i \in Rows(runs, p)}
GetCitations(p) == {k \in citations : CitationFor(p, k)}

\* list_for_finding: the finding is one of a run of the project.
ListFeedback(p, i, id) ==
    {feedback[n] : n \in {m \in Rows(feedback, p) :
                            feedback[m].run = i /\ feedback[m].finding = id}}

\* get and list_for_project validate each row before it is returned; one row
\* that does not validate makes the whole list unavailable.
ListReports(p) ==
    LET rows == {reports[i] : i \in Rows(reports, p)}
    IN  IF \A row \in rows : Readable(row) THEN rows ELSE {}

\* canonical_quality_report_snapshot_json: the stored snapshot itself
ExportJson(row) == row.snapshot

\* render_quality_report_markdown: every section with its state and claims
ExportMarkdown(row) ==
    {<<n, row.snapshot.sections[n].state, row.snapshot.sections[n].claims>> : n \in SectionNames}

\* Reading changes nothing; its event is recorded.
ReadRoutes(c, p) ==
    /\ Admit(c, p)
    /\ UNCHANGED <<project, store, job, result, request, paid, faults, unexplained>>

-----------------------------------------------------------------------------
(* Report generation.                                                      *)

JobsOf(p) == {j \in Jobs : p = JobProject /\ job[j] # "absent"}
ResultsOf(p) == {j \in JobsOf(p) : result[j] # NoValue}

\* `known` and `analysed` are history: the jobs and runs stored when the
\* request began.
BeginReport(c, p) ==
    /\ Admit(c, p)
    /\ Continue(c, [op |-> "citations", project |-> p,
                    known |-> JobsOf(p), analysed |-> GetRuns(p),
                    citations |-> {}, runs |-> {}, jobs |-> {}, results |-> << >>])
    /\ UNCHANGED <<project, store, job, result, paid, faults, unexplained>>

\* collect: each SELECT adds what is committed when it runs.
Collect(c, step, read) ==
    /\ InProgress(c, step)
    /\ Continue(c, read)
    /\ UNCHANGED <<project, store, job, result, events, paid, faults, unexplained>>

CollectCitations(c) ==
    Collect(c, "citations",
            [request[c] EXCEPT !.op = "runs",
                !.citations = {k \in citations : k.project = request[c].project}])

CollectRuns(c) ==
    Collect(c, "runs",
            [request[c] EXCEPT !.op = "jobs", !.runs = GetRuns(request[c].project)])

CollectJobs(c) ==
    Collect(c, "jobs",
            [request[c] EXCEPT !.op = "results", !.jobs = JobsOf(request[c].project)])

CollectResults(c) ==
    Collect(c, "results",
            [request[c] EXCEPT !.op = "build",
                !.results = [j \in ResultsOf(request[c].project) |-> result[j]]])

EvidenceState_ResultsOnly(jobs, results) ==
    CASE jobs = {} -> "not_run"
      [] jobs # {} /\ results = {} -> "not_available"
      [] OTHER -> "complete"

\* Execution evidence is shown only when every job read has a result.
EvidenceState(jobs, results) ==
    CASE jobs = {} -> "not_run"
      [] jobs # {} /\ jobs # results -> "not_available"
      [] OTHER -> "complete"

\* The QualityReportSnapshotInput that collect returns
Collected(r) ==
    LET state == EvidenceState(r.jobs, DOMAIN r.results)
        evidence == IF state # "complete" THEN {}
                    ELSE {[job |-> j, project |-> r.project, outcome |-> r.results[j].outcome,
                           code |-> r.results[j].failure_code] : j \in DOMAIN r.results}
        Analysis(j) == FailureAnalysis(View(r.results[j]))
    IN  [project |-> r.project, citations |-> r.citations, runs |-> r.runs, tests |-> {},
         evidence |-> evidence, state |-> state,
         analyses |-> {[job |-> e.job, outcome |-> Analysis(e.job).outcome,
                        code |-> Analysis(e.job).failure_code,
                        named |-> Analysis(e.job).root_cause # NoValue] :
                         e \in Unsuccessful(evidence)}]

\* build_quality_report_snapshot validates what it was given and what it made.
Accepted(input) == ValidInput(input) /\ ValidSnapshot(Snapshot(0, input))

\* generate and create: the build has an id of its own, which its hash
\* covers, so the revision is always a new row.
StoreReport(c) ==
    LET input == Collected(request[c]) IN
    /\ InProgress(c, "build")
    /\ Accepted(input)
    /\ reports' = Append(reports, RevisionRow(Len(reports) + 1, input, request[c]))
    /\ Answer(c)
    /\ UNCHANGED <<project, traces, citations, runs, feedback, modelRuns, job, result, events,
                   paid, faults, unexplained>>

\* The collected evidence violates the contract: 422.
RejectReport(c) ==
    /\ InProgress(c, "build")
    /\ ~Accepted(Collected(request[c]))
    /\ Continue(c, [op |-> "rejected", project |-> request[c].project,
                    analysed |-> request[c].analysed])
    /\ UNCHANGED <<project, store, job, result, events, paid, faults, unexplained>>

ReturnRejection(c) ==
    /\ InProgress(c, "rejected")
    /\ Answer(c)
    /\ UNCHANGED <<project, store, job, result, events, paid, faults, unexplained>>

-----------------------------------------------------------------------------
ProjectStep(c) ==
    \/ AuditUnavailable(c) \/ Unavailable(c)
    \/ \E p \in Projects : Deny(c, p) \/ ReadRoutes(c, p) \/ AuthorizedUnavailable(c, p)
    \/ \E p \in Projects : RequireProject(c, p) \/ CreateProject(c, p) \/ ArchiveProject(c, p)

AnalysisStep(c) ==
    \/ \E p \in Projects :
         \/ \E query \in Queries : Retrieve(c, p, query) \/ RefuseQuery(c, p, query)
         \/ InvokeModel(c, p)
         \/ \E ks \in SUBSET citations \ {{}} : Analyze(c, p, ks)
         \/ \E i \in DOMAIN runs : \E f \in runs[i].findings : GiveFeedback(c, p, i, f)
    \/ Cite(c) \/ StoreModelRun(c) \/ RefuseModelRun(c)

ReportStep(c) ==
    \/ c \in Generators /\ \E p \in Projects : BeginReport(c, p)
    \/ CollectCitations(c) \/ CollectRuns(c) \/ CollectJobs(c) \/ CollectResults(c)
    \/ StoreReport(c) \/ RejectReport(c) \/ ReturnRejection(c)

JobStep ==
    \/ \E j \in Jobs : EnqueueJob(j) \/ EndWithoutResult(j) \/ RecordResult(j)
    \/ \E c \in Clients : (\E j \in Jobs : ReadJob(c, j)) \/ ReadResult(c) \/ ReturnJob(c)

Next ==
    \/ JobStep
    \/ \E c \in Clients : ProjectStep(c) \/ AnalysisStep(c) \/ ReportStep(c)

Spec == Init /\ [][Next]_vars

-----------------------------------------------------------------------------
\* Evidence never crosses projects, however requests name it: what the routes
\* of a project return cites only passages of that project's documents, chosen
\* by a retrieval of that project.
ProjectIsolation ==
    \A p \in Projects :
      LET own == GetCitations(p) IN
      /\ \A k \in own : Chunk[k.chunk].project = p /\ k.chunk \in traces[k.trace].selected
      /\ \A r \in GetRuns(p) : /\ r.citations \subseteq own
                               /\ \A f \in r.findings : f.citations \subseteq own
      /\ \A i \in DOMAIN runs : \A f \in runs[i].findings :
           \A n \in ListFeedback(p, i, f.id) : n.citations \subseteq own
      /\ \A row \in ListReports(p) :
           /\ ExportJson(row).catalog["citation"] \subseteq own
           /\ \A id \in ExportJson(row).catalog["finding"] : id[2] \subseteq own
           /\ \A section \in ExportMarkdown(row) : \A claim \in section[3] :
                claim.refs["citation"] \subseteq own

\* Whatever jobs are enqueued and finish while a report is collected, the
\* report can be read back; if it shows execution evidence it shows every job
\* the project had when its generation began, counted under the outcome that
\* stays stored; if it says nothing was run, the project had no job then.
ReportFaithful ==
    \A i \in DOMAIN reports :
      LET r == reports[i]
          jobs == r.snapshot.provenance.jobs IN
      /\ r \in ListReports(r.project)
      /\ r.state = "complete" =>
           /\ r.known \subseteq jobs
           /\ \A o \in Outcomes : r.snapshot.summary.outcomes[o]
                = Cardinality({j \in jobs : result[j] # NoValue /\ result[j].outcome = o})
      /\ r.state = "not_run" => r.known = {}

\* The stored analyses a report covers
ShownRuns(row) == {runs[i] : i \in Rows(runs, row.project) \cap row.snapshot.provenance.runs}
ShownFindings(row) == UNION {run.findings : run \in ShownRuns(row)}

ShowsFindings(row) ==
    LET section == row.snapshot.sections["findings"] IN
    /\ row.analysed \subseteq ShownRuns(row)
    /\ section.state = "not_run" => row.analysed = {}
    /\ {<<claim.refs["finding"], claim.refs["citation"]>> : claim \in section.claims}
         = {<<{f.id}, f.citations>> : f \in ShownFindings(row)}
    /\ row.snapshot.summary.findings = Cardinality(ShownFindings(row))

\* Whatever analyses are stored while a report is collected, the report covers
\* every one the project had when its generation began, it says that nothing was
\* analysed only if there was none, and it presents exactly the findings stored
\* for the analyses it covers, each with all the passages it cites.
FindingsShownWhole == \A i \in DOMAIN reports : ShowsFindings(reports[i])

\* The report builder meets its own contracts: the only rejection is the race
\* with an analysis stored while the evidence was being collected.
RejectionExplained ==
    \A c \in Clients :
      InProgress(c, "rejected") => GetRuns(request[c].project) # request[c].analysed

\* The routes read the job before its result, so for a job they find ended
\* each gives the answer it will give ever after: the job with its result, the
\* evidence, the failure analysis.
EndedJobsShownWhole ==
    \A c \in Clients :
      InProgress(c, "answered") /\ request[c].status = "ended" =>
        LET read == request[c].result
            kept == result[request[c].job] IN
        /\ JobAnswer("ended", read) = JobAnswer(job[request[c].job], kept)
        /\ EvidenceAnswer(read) = EvidenceAnswer(kept)
        /\ FailureAnswer(read) = FailureAnswer(kept)

-----------------------------------------------------------------------------
(* The inductive invariant.                                                *)

\* The steps of a report request
Gathering == {"citations", "runs", "jobs", "results", "build"}

StoredRuns == {runs[i] : i \in DOMAIN runs}
JobStates == {"absent", "open", "ended"}

ReportRequests ==
    [op : Gathering, project : Projects, known : SUBSET Jobs, analysed : SUBSET StoredRuns,
     citations : SUBSET citations, runs : SUBSET StoredRuns, jobs : SUBSET Jobs,
     results : UNION {[js -> Recorded] : js \in SUBSET Jobs}]

RequestStates ==
    {Idle}
      \cup [op : {"cite"}, project : Projects, trace : DOMAIN traces]
      \cup [op : {"answer"}, project : Projects]
      \cup [op : {"view"}, job : Jobs, status : JobStates]
      \cup [op : {"answered"}, job : Jobs, status : JobStates, result : Recorded \cup {NoValue}]
      \cup [op : {"rejected"}, project : Projects, analysed : SUBSET StoredRuns]
      \cup ReportRequests

IsTable(table) == table \in Seq({table[i] : i \in DOMAIN table})

\* Every variable holds what the tables and the requests' locals can hold.
TypeOK ==
    /\ IsTable(traces) /\ IsTable(runs) /\ IsTable(feedback)
    /\ IsTable(modelRuns) /\ IsTable(reports)
    /\ project \in [Projects -> {"absent", "active", "archived"}]
    /\ job \in [Jobs -> JobStates]
    /\ result \in [Jobs -> Recorded \cup {NoValue}]
    /\ request \in [Clients -> RequestStates]
    /\ events \in Nat /\ paid \in Nat /\ faults \in Nat /\ unexplained \in BOOLEAN

\* A result is there only once its job has ended.
ResultsFinal == \A j \in Jobs : result[j] # NoValue => job[j] = "ended"

CitationsGrounded ==
    \A k \in citations : /\ k.trace \in DOMAIN traces
                         /\ k.chunk \in traces[k.trace].selected
                         /\ CitationReadable(k)

\* A run cites what its project could read, its findings what the run cites, and
\* no two runs share a finding's id.
RunsGrounded ==
    /\ \A i \in DOMAIN runs :
         /\ runs[i].id = i
         /\ runs[i].citations \subseteq GetCitations(runs[i].project)
         /\ \A f \in runs[i].findings :
              f.citations \subseteq runs[i].citations /\ f.id[2] = f.citations
    /\ \A i, j \in DOMAIN runs :
         i # j => {f.id : f \in runs[i].findings} \cap {f.id : f \in runs[j].findings} = {}

FeedbackGrounded ==
    \A n \in DOMAIN feedback : feedback[n].citations \subseteq GetCitations(feedback[n].project)

\* What a request has read of an ended job is what is stored.
ReadTrue(r) ==
    /\ r.op \in {"view", "answered"} /\ r.status = "ended" => job[r.job] = "ended"
    /\ r.op = "answered" /\ r.status = "ended" => r.result = result[r.job]

\* What a report request has collected: each set holds what was there when the
\* request began, and nothing that is not there now.
CollectedTrue(r) ==
    /\ r.op \in Gathering =>
         r.known \subseteq JobsOf(r.project) /\ r.analysed \subseteq GetRuns(r.project)
    /\ r.op \in {"runs", "jobs", "results", "build"} =>
         /\ r.citations \subseteq GetCitations(r.project)
         /\ \A run \in r.analysed : run.citations \subseteq r.citations
    /\ r.op \in {"jobs", "results", "build"} =>
         r.analysed \subseteq r.runs /\ r.runs \subseteq GetRuns(r.project)
    /\ r.op \in {"results", "build"} => r.known \subseteq r.jobs
    /\ r.op = "build" => \A j \in DOMAIN r.results : r.results[j] = result[j]

\* A rejected report lacks a run stored since it began.
RejectionTrue(r) ==
    r.op = "rejected" => r.analysed \subseteq GetRuns(r.project) /\ r.analysed # GetRuns(r.project)

RequestsTracked ==
    \A c \in Clients :
      ReadTrue(request[c]) /\ CollectedTrue(request[c]) /\ RejectionTrue(request[c])

\* The executions a report counts under an outcome
CountedUnder(jobs, o) == {j \in jobs : result[j] # NoValue /\ result[j].outcome = o}

\* What a stored revision shows is the project's own, and stays true.
RevisionTrue(row) ==
    LET own == GetCitations(row.project)
        jobs == row.snapshot.provenance.jobs IN
    /\ Readable(row)
    /\ row.snapshot.catalog["citation"] \subseteq own
    /\ \A id \in row.snapshot.catalog["finding"] : id[2] \subseteq own
    /\ jobs \subseteq {j \in Jobs : result[j] # NoValue}
    /\ row.state = "complete" =>
         /\ row.known \subseteq jobs
         /\ \A o \in Outcomes :
              row.snapshot.summary.outcomes[o] = Cardinality(CountedUnder(jobs, o))
    /\ row.state = "not_run" => row.known = {}
    /\ row.snapshot.provenance.runs \subseteq DOMAIN runs
    /\ ShowsFindings(row)

ReportsKept == \A i \in DOMAIN reports : RevisionTrue(reports[i])

IInv ==
    /\ TypeOK /\ ResultsFinal /\ RequestsTracked
    /\ CitationsGrounded /\ RunsGrounded /\ FeedbackGrounded /\ ReportsKept

-----------------------------------------------------------------------------
(* What the code says of itself and does not do.                           *)

\* RequirementAnalysisUnavailable: "Raised when durable deterministic analysis
\* state is unavailable": an analysis is refused only if something had failed.
AnalysisRefusedOnlyByFaults == unexplained => faults > 0
=============================================================================
