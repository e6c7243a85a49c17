----------------------- MODULE QualityWorkflow_proofs -----------------------
(***************************************************************************)
(* The safety of the owner's requests for every set of projects, chunks,   *)
(* queries, jobs and results, and every number of concurrent requests.     *)
(*                                                                         *)
(* The tables only grow and an ended job keeps its result (Grows), so what *)
(* a request has read stays true while others act: that is what carries    *)
(* the invariants from one session of a request to the next.               *)
(***************************************************************************)
EXTENDS QualityWorkflow, FiniteSetTheorems, FunctionTheorems, SequenceTheorems,
        TLAPS

-----------------------------------------------------------------------------
(* Tables and requests.                                                    *)

\* A row is added at the end of a table.
LEMMA TableAppend ==
  ASSUME NEW t, IsTable(t), NEW x
  PROVE  /\ IsTable(Append(t, x))
         /\ Len(t) \in Nat /\ DOMAIN t = 1..Len(t)
         /\ Len(Append(t, x)) = Len(t) + 1
         /\ DOMAIN Append(t, x) = 1..(Len(t) + 1)
         /\ \A i \in DOMAIN t : Append(t, x)[i] = t[i]
         /\ Append(t, x)[Len(t) + 1] = x
<1> DEFINE S == {t[i] : i \in DOMAIN t}
<1> DEFINE T == S \cup {x}
<1> DEFINE u == Append(t, x)
<1>1. t \in Seq(S)
  BY DEF IsTable
<1>2. t \in Seq(T) /\ x \in T
  BY <1>1
<1> HIDE DEF T, S
<1>3. u \in Seq(T) /\ Len(u) = Len(t) + 1 /\ Len(t) \in Nat /\ DOMAIN t = 1..Len(t)
      /\ DOMAIN u = 1..(Len(t) + 1) /\ (\A i \in 1..Len(t) : u[i] = t[i]) /\ u[Len(t) + 1] = x
  BY <1>2
<1>4. u \in Seq({u[i] : i \in DOMAIN u})
  BY <1>3
<1> QED
  BY <1>3, <1>4 DEF IsTable

\* A table is a sequence.
LEMMA TableLen ==
  ASSUME NEW t, IsTable(t)
  PROVE  Len(t) \in Nat /\ DOMAIN t = 1..Len(t)
  BY DEF IsTable

\* One client's request changes.
LEMMA RequestChange ==
  ASSUME NEW S, request \in [Clients -> S], NEW c \in Clients, NEW r,
         request' = [request EXCEPT ![c] = r]
  PROVE  /\ request'[c] = r
         /\ \A d \in Clients : d # c => request'[d] = request[d]
         /\ request' = [d \in Clients |-> request'[d]]
  OBVIOUS

-----------------------------------------------------------------------------
(* What grows, and what stays true meanwhile.                              *)

\* Rows are only added, and an ended job keeps its state and its result.
Grows ==
    /\ \A i \in DOMAIN traces : i \in DOMAIN traces' /\ traces'[i] = traces[i]
    /\ citations \subseteq citations'
    /\ \A i \in DOMAIN runs : i \in DOMAIN runs' /\ runs'[i] = runs[i]
    /\ \A j \in Jobs : /\ job[j] # "absent" => job'[j] # "absent"
                       /\ job[j] = "ended" => job'[j] = "ended" /\ result'[j] = result[j]

\* What a project can read grows.
LEMMA ReadsGrow ==
  ASSUME Grows
  PROVE  /\ \A p : GetCitations(p) \subseteq GetCitations(p)'
         /\ \A p : GetRuns(p) \subseteq GetRuns(p)'
         /\ \A p : JobsOf(p) \subseteq JobsOf(p)'
         /\ StoredRuns \subseteq StoredRuns'
<1>1. \A p : GetCitations(p) \subseteq GetCitations(p)'
  BY DEF Grows, GetCitations, CitationFor, CitationReadable
<1>2. \A p : GetRuns(p) \subseteq GetRuns(p)'
  BY DEF Grows, GetRuns, Rows
<1>3. \A p : JobsOf(p) \subseteq JobsOf(p)'
  BY DEF Grows, JobsOf
<1>4. StoredRuns \subseteq StoredRuns'
  BY DEF Grows, StoredRuns
<1> QED
  BY <1>1, <1>2, <1>3, <1>4

\* A request's local state keeps its type.
LEMMA StatesGrow ==
  ASSUME Grows
  PROVE  RequestStates \subseteq RequestStates'
<1>1. StoredRuns \subseteq StoredRuns' /\ citations \subseteq citations' /\ DOMAIN traces \subseteq DOMAIN traces'
  BY ReadsGrow DEF Grows
<1>2. ReportRequests \subseteq ReportRequests'
  BY <1>1 DEF ReportRequests
<1>3. [op : {"cite"}, project : Projects, trace : DOMAIN traces]
        \subseteq [op : {"cite"}, project : Projects, trace : DOMAIN traces']
  BY <1>1
<1>4. [op : {"rejected"}, project : Projects, analysed : SUBSET StoredRuns]
        \subseteq [op : {"rejected"}, project : Projects, analysed : SUBSET StoredRuns']
  BY <1>1
<1> QED
  BY <1>2, <1>3, <1>4 DEF RequestStates

\* What each kind of request holds.
LEMMA RequestShape ==
  ASSUME NEW r \in RequestStates
  PROVE  /\ r.op \in {"idle", "cite", "answer", "view", "answered", "rejected"} \cup Gathering
         /\ r.op = "cite" => r.project \in Projects /\ r.trace \in DOMAIN traces
         /\ r.op = "answer" => r.project \in Projects
         /\ r.op \in {"view", "answered"} => r.job \in Jobs /\ r.status \in JobStates
         /\ r.op = "rejected" => r.project \in Projects
         /\ r.op \in Gathering => r \in ReportRequests
  BY DEF RequestStates, ReportRequests, Gathering, Idle

\* The results a report request has read are results the executor recorded.
LEMMA ResultsShape ==
  ASSUME NEW r \in ReportRequests
  PROVE  /\ DOMAIN r.results \subseteq Jobs
         /\ \A j \in DOMAIN r.results : r.results[j] \in Recorded /\ r.results[j] # NoValue
<1>1. PICK js \in SUBSET Jobs : r.results \in [js -> Recorded]
  BY DEF ReportRequests
<1> QED
  BY <1>1, WorkflowAssumption

\* What a request has read stays true while the tables grow.
LEMMA ReadStays ==
  ASSUME IInv, Grows, NEW r \in RequestStates,
         ReadTrue(r), CollectedTrue(r), RejectionTrue(r)
  PROVE  ReadTrue(r)' /\ CollectedTrue(r)' /\ RejectionTrue(r)'
<1>1. ReadTrue(r)'
  BY RequestShape DEF ReadTrue, Grows
<1>2. CollectedTrue(r)'
  <2>1. /\ GetCitations(r.project) \subseteq GetCitations(r.project)'
        /\ GetRuns(r.project) \subseteq GetRuns(r.project)'
        /\ JobsOf(r.project) \subseteq JobsOf(r.project)'
    BY ReadsGrow
  <2>2. ASSUME r.op = "build", NEW j \in DOMAIN r.results PROVE r.results[j] = result'[j]
    <3>1. r \in ReportRequests
      BY <2>2, RequestShape DEF Gathering
    <3>2. j \in Jobs /\ r.results[j] # NoValue
      BY <3>1, ResultsShape
    <3>3. r.results[j] = result[j]
      BY <2>2 DEF CollectedTrue
    <3>4. job[j] = "ended"
      BY <3>2, <3>3 DEF IInv, ResultsFinal
    <3> QED
      BY <3>2, <3>3, <3>4 DEF Grows
  <2> QED
    BY <2>1, <2>2 DEF CollectedTrue
<1>3. RejectionTrue(r)'
  <2>1. GetRuns(r.project) \subseteq GetRuns(r.project)'
    BY ReadsGrow
  <2> QED
    BY <2>1 DEF RejectionTrue
<1> QED
  BY <1>1, <1>2, <1>3

\* So do all requests, when those that change are true.
LEMMA RequestsKeep ==
  ASSUME IInv, Grows, request' = [d \in Clients |-> request'[d]],
         \A d \in Clients :
           \/ request'[d] = request[d]
           \/ request'[d] \in RequestStates'
                /\ ReadTrue(request[d])' /\ CollectedTrue(request[d])' /\ RejectionTrue(request[d])'
  PROVE  request' \in [Clients -> RequestStates'] /\ RequestsTracked'
<1>1. RequestStates \subseteq RequestStates'
  BY StatesGrow
<1>2. ASSUME NEW d \in Clients
      PROVE  /\ request'[d] \in RequestStates'
             /\ ReadTrue(request[d])' /\ CollectedTrue(request[d])' /\ RejectionTrue(request[d])'
  <2>1. CASE request'[d] = request[d]
    <3>1. request[d] \in RequestStates /\ ReadTrue(request[d]) /\ CollectedTrue(request[d])
          /\ RejectionTrue(request[d])
      BY DEF IInv, TypeOK, RequestsTracked
    <3>2. PICK r : r = request[d]
      OBVIOUS
    <3>3. r \in RequestStates /\ ReadTrue(r) /\ CollectedTrue(r) /\ RejectionTrue(r)
      BY <3>1, <3>2
    <3>4. ReadTrue(r)' /\ CollectedTrue(r)' /\ RejectionTrue(r)'
      BY <3>3, ReadStays
    <3>5. request'[d] = r
      BY <2>1, <3>2
    <3> QED
      BY <1>1, <3>3, <3>4, <3>5 DEF ReadTrue, CollectedTrue, RejectionTrue
  <2>2. CASE request'[d] # request[d]
    BY <2>2
  <2> QED
    BY <2>1, <2>2
<1> QED
  BY <1>2 DEF RequestsTracked

\* A stored revision stays true.
LEMMA RevisionStays ==
  ASSUME IInv, Grows, NEW row, RevisionTrue(row)
  PROVE  RevisionTrue(row)'
<1> DEFINE jobs == row.snapshot.provenance.jobs
<1>1. GetCitations(row.project) \subseteq GetCitations(row.project)'
  BY ReadsGrow
<1>2. \A j \in jobs : j \in Jobs /\ result[j] # NoValue /\ result'[j] = result[j]
  BY DEF RevisionTrue, Grows, IInv, ResultsFinal
<1>3. \A o \in Outcomes : CountedUnder(jobs, o)' = CountedUnder(jobs, o)
  BY <1>2 DEF CountedUnder
<1>4. jobs \subseteq {j \in Jobs : result'[j] # NoValue}
  BY <1>2
<1>5. ShownRuns(row)' = ShownRuns(row) /\ row.snapshot.provenance.runs \subseteq DOMAIN runs'
  <2> DEFINE S == row.snapshot.provenance.runs
  <2>1. S \subseteq DOMAIN runs
    BY DEF RevisionTrue
  <2>2. \A i \in S : i \in DOMAIN runs' /\ runs'[i] = runs[i]
    BY <2>1 DEF Grows
  <2> HIDE DEF S
  <2>3. Rows(runs, row.project)' \cap S = Rows(runs, row.project) \cap S
    BY <2>1, <2>2 DEF Rows
  <2>4. {runs'[i] : i \in Rows(runs, row.project)' \cap S}
          = {runs[i] : i \in Rows(runs, row.project) \cap S}
    BY <2>2, <2>3
  <2> QED
    BY <2>2, <2>4 DEF ShownRuns, S
<1>6. ShowsFindings(row)'
  <2>1. ShownFindings(row)' = ShownFindings(row)
    BY <1>5 DEF ShownFindings
  <2> QED
    BY <1>5, <2>1 DEF RevisionTrue, ShowsFindings
<1> QED
  BY <1>1, <1>3, <1>4, <1>5, <1>6 DEF RevisionTrue

\* The rows that are there stay grounded.
LEMMA RowsStay ==
  ASSUME IInv, Grows
  PROVE  /\ citations' = citations => CitationsGrounded'
         /\ runs' = runs => RunsGrounded'
         /\ feedback' = feedback => FeedbackGrounded'
         /\ reports' = reports => ReportsKept'
<1>1. \A p : GetCitations(p) \subseteq GetCitations(p)'
  BY ReadsGrow
<1>2. citations' = citations => CitationsGrounded'
  BY DEF IInv, Grows, CitationsGrounded, CitationReadable
<1>3. ASSUME runs' = runs PROVE RunsGrounded'
  <2>1. \A i \in DOMAIN runs : GetCitations(runs[i].project) \subseteq GetCitations(runs[i].project)'
    BY <1>1, <1>3 DEF GetCitations, CitationFor
  <2> QED
    BY <1>3, <2>1 DEF IInv, RunsGrounded
<1>4. ASSUME feedback' = feedback PROVE FeedbackGrounded'
  <2>1. \A i \in DOMAIN feedback :
          GetCitations(feedback[i].project) \subseteq GetCitations(feedback[i].project)'
    BY <1>1, <1>4 DEF GetCitations, CitationFor
  <2> QED
    BY <1>4, <2>1 DEF IInv, FeedbackGrounded
<1>5. ASSUME reports' = reports PROVE ReportsKept'
  <2>1. ASSUME NEW i \in DOMAIN reports PROVE RevisionTrue(reports[i])'
    <3>1. PICK row : row = reports[i]
      OBVIOUS
    <3>2. RevisionTrue(row)
      BY <3>1 DEF IInv, ReportsKept
    <3>3. RevisionTrue(row)'
      BY <3>2, RevisionStays
    <3>4. reports'[i] = row
      BY <1>5, <3>1
    <3> QED
      BY <3>3, <3>4 DEF RevisionTrue, ShowsFindings, ShownFindings, ShownRuns, Rows
  <2> QED
    BY <1>5, <2>1 DEF ReportsKept
<1> QED
  BY <1>2, <1>3, <1>4, <1>5

\* Nothing stored changes.
LEMMA NoChange ==
  ASSUME UNCHANGED <<store, job, result>>
  PROVE  Grows
  BY DEF Grows, store

-----------------------------------------------------------------------------
(* Steps that store nothing.                                               *)

\* A client goes on with r, and nothing is stored.
LEMMA LocalKeeps ==
  ASSUME IInv, NEW c \in Clients, NEW r \in RequestStates, request' = [request EXCEPT ![c] = r],
         UNCHANGED <<store, job, result>>,
         ReadTrue(r), CollectedTrue(r), RejectionTrue(r),
         project' \in [Projects -> {"absent", "active", "archived"}],
         faults' \in Nat, unexplained' \in BOOLEAN,
         paid' \in Nat, events' \in Nat
  PROVE  IInv'
<1>1. /\ traces' = traces /\ citations' = citations /\ runs' = runs /\ feedback' = feedback
      /\ modelRuns' = modelRuns /\ reports' = reports /\ job' = job /\ result' = result
  BY DEF store
<1>2. Grows
  BY NoChange
<1>3. /\ request'[c] = r /\ \A d \in Clients : d # c => request'[d] = request[d]
      /\ request' = [d \in Clients |-> request'[d]]
  BY RequestChange DEF IInv, TypeOK
<1>4. ReadTrue(r)' /\ CollectedTrue(r)' /\ RejectionTrue(r)' /\ r \in RequestStates'
  BY <1>2, ReadStays, StatesGrow
<1>5. request' \in [Clients -> RequestStates'] /\ RequestsTracked'
  <2>1. /\ request'[c] \in RequestStates'
        /\ ReadTrue(request[c])' /\ CollectedTrue(request[c])' /\ RejectionTrue(request[c])'
    BY <1>3, <1>4 DEF ReadTrue, CollectedTrue, RejectionTrue
  <2>2. \A d \in Clients :
           \/ request'[d] = request[d]
           \/ request'[d] \in RequestStates'
                /\ ReadTrue(request[d])' /\ CollectedTrue(request[d])' /\ RejectionTrue(request[d])'
    BY <1>3, <2>1
  <2> QED
    BY <1>2, <1>3, <2>2, RequestsKeep
<1>6. CitationsGrounded' /\ RunsGrounded' /\ FeedbackGrounded' /\ ReportsKept'
  BY <1>1, <1>2, RowsStay
<1>7. ResultsFinal'
  BY <1>1 DEF IInv, ResultsFinal
<1>8. TypeOK'
  <2>1. IsTable(traces') /\ IsTable(runs') /\ IsTable(feedback') /\ IsTable(modelRuns')
        /\ IsTable(reports')
    BY <1>1 DEF IInv, TypeOK
  <2>2. job' \in [Jobs -> JobStates] /\ result' \in [Jobs -> Recorded \cup {NoValue}]
    BY <1>1 DEF IInv, TypeOK
  <2> QED
    BY <1>5, <2>1, <2>2 DEF TypeOK, IsTable
<1> QED
  BY <1>5, <1>6, <1>7, <1>8 DEF IInv

\* A client that is idle has read nothing.
LEMMA IdleTrue ==
  Idle \in RequestStates /\ ReadTrue(Idle) /\ CollectedTrue(Idle) /\ RejectionTrue(Idle)
  BY DEF Idle, RequestStates, ReadTrue, CollectedTrue, RejectionTrue, Gathering

\* A request is answered, or does nothing but hand its event to the audit sink.
LEMMA QuietKeeps ==
  ASSUME IInv, NEW c \in Clients, UNCHANGED <<store, job, result, paid>>,
         request' = request \/ request' = [request EXCEPT ![c] = Idle],
         events' = events \/ events' = events + 1,
         project' \in [Projects -> {"absent", "active", "archived"}],
         faults' = faults \/ faults' = faults + 1, unexplained' = unexplained
  PROVE  IInv'
<1>1. faults' \in Nat /\ unexplained' \in BOOLEAN /\ events' \in Nat /\ paid' \in Nat
  BY DEF IInv, TypeOK
<1>2. CASE request' = [request EXCEPT ![c] = Idle]
  BY <1>1, <1>2, IdleTrue, LocalKeeps
<1>3. CASE request' = request
  <2>1. request' = [request EXCEPT ![c] = request[c]]
    BY <1>3 DEF IInv, TypeOK
  <2>2. request[c] \in RequestStates /\ ReadTrue(request[c]) /\ CollectedTrue(request[c])
        /\ RejectionTrue(request[c])
    BY DEF IInv, TypeOK, RequestsTracked
  <2> QED
    BY <1>1, <2>1, <2>2, LocalKeeps
<1> QED
  BY <1>2, <1>3

\* Authorization, the projects' own rows and the read routes.
LEMMA ProjectStepKeeps ==
  ASSUME IInv, NEW c \in Clients, ProjectStep(c)
  PROVE  IInv'
<1>1. project \in [Projects -> {"absent", "active", "archived"}]
  BY DEF IInv, TypeOK
<1>2. CASE AuditUnavailable(c) \/ Unavailable(c)
  BY <1>1, <1>2, QuietKeeps DEF AuditUnavailable, Unavailable, Fault, Answer
<1>3. ASSUME NEW p \in Projects,
             Deny(c, p) \/ ReadRoutes(c, p) \/ AuthorizedUnavailable(c, p) \/ RequireProject(c, p)
      PROVE  IInv'
  <2>1. CASE Deny(c, p)
    BY <1>1, <2>1, QuietKeeps DEF Deny, vars
  <2>2. CASE ReadRoutes(c, p) \/ RequireProject(c, p)
    BY <1>1, <2>2, QuietKeeps DEF ReadRoutes, RequireProject, Admit, Authorize
  <2>3. CASE AuthorizedUnavailable(c, p)
    BY <1>1, <2>3, QuietKeeps DEF AuthorizedUnavailable, Authorize, Fault
  <2> QED
    BY <1>3, <2>1, <2>2, <2>3
<1>4. ASSUME NEW p \in Projects, CreateProject(c, p) \/ ArchiveProject(c, p)
      PROVE  IInv'
  <2>1. project' = [project EXCEPT ![p] = "active"] \/ project' = [project EXCEPT ![p] = "archived"]
    BY <1>4 DEF CreateProject, ArchiveProject
  <2>2. project' \in [Projects -> {"absent", "active", "archived"}]
    BY <1>1, <2>1
  <2> QED
    BY <1>4, <2>2, QuietKeeps DEF CreateProject, ArchiveProject, Admit, Authorize
<1> QED
  BY <1>2, <1>3, <1>4 DEF ProjectStep

\* Refused queries and answers that end a request without a row.
LEMMA RefusalKeeps ==
  ASSUME IInv, NEW c \in Clients,
         \/ \E p \in Projects, query \in Queries : RefuseQuery(c, p, query)
         \/ RefuseModelRun(c) \/ ReturnJob(c) \/ ReturnRejection(c)
  PROVE  IInv'
<1>1. project \in [Projects -> {"absent", "active", "archived"}]
  BY DEF IInv, TypeOK
<1>2. CASE \E p \in Projects, query \in Queries : RefuseQuery(c, p, query)
  BY <1>1, <1>2, QuietKeeps DEF RefuseQuery, Admit, Authorize
<1>3. CASE RefuseModelRun(c) \/ ReturnJob(c) \/ ReturnRejection(c)
  BY <1>1, <1>3, QuietKeeps DEF RefuseModelRun, ReturnJob, ReturnRejection, Answer
<1> QED
  BY <1>2, <1>3

\* The model is called.
LEMMA InvokeModelKeeps ==
  ASSUME IInv, NEW c \in Clients, NEW p \in Projects, InvokeModel(c, p)
  PROVE  IInv'
<1> DEFINE r == [op |-> "answer", project |-> p]
<1>1. /\ request[c].op = "idle" /\ request' = [request EXCEPT ![c] = r]
      /\ UNCHANGED <<project, store, job, result, faults, unexplained>>
      /\ paid' = paid + 1 /\ events' = events + 1
  BY DEF InvokeModel, Admit, Authorize, InProgress, Continue
<1>2. r \in RequestStates
  BY DEF RequestStates
<1>3. ReadTrue(r) /\ CollectedTrue(r) /\ RejectionTrue(r)
  BY DEF ReadTrue, CollectedTrue, RejectionTrue, Gathering
<1>4. /\ project' \in [Projects -> {"absent", "active", "archived"}]
      /\ faults' \in Nat /\ unexplained' \in BOOLEAN /\ paid' \in Nat /\ events' \in Nat
  BY <1>1 DEF IInv, TypeOK
<1> HIDE DEF r
<1> QED
  BY <1>1, <1>2, <1>3, <1>4, LocalKeeps

\* A job is read, then its result: an ended job has the result it keeps.
LEMMA JobReadKeeps ==
  ASSUME IInv, NEW c \in Clients, (\E j \in Jobs : ReadJob(c, j)) \/ ReadResult(c)
  PROVE  IInv'
<1>1. PICK r \in RequestStates :
        /\ request' = [request EXCEPT ![c] = r]
        /\ ReadTrue(r) /\ r.op \in {"view", "answered"}
        /\ events' \in Nat
  <2>1. CASE \E j \in Jobs : ReadJob(c, j)
    <3>1. PICK j \in Jobs : ReadJob(c, j)
      BY <2>1
    <3> DEFINE r == [op |-> "view", job |-> j, status |-> job[j]]
    <3>2. request' = [request EXCEPT ![c] = r] /\ events' \in Nat
      BY <3>1 DEF ReadJob, Admit, Authorize, Continue, IInv, TypeOK
    <3>3. r \in RequestStates
      BY DEF RequestStates, IInv, TypeOK
    <3>4. ReadTrue(r) /\ r.op \in {"view", "answered"}
      BY DEF ReadTrue
    <3> QED
      BY <3>2, <3>3, <3>4
  <2>2. CASE ReadResult(c)
    <3> DEFINE q == request[c]
    <3> DEFINE r == [op |-> "answered", job |-> q.job, status |-> q.status, result |-> result[q.job]]
    <3>1. request' = [request EXCEPT ![c] = r] /\ events' = events /\ q.op = "view"
      BY <2>2 DEF ReadResult, Continue, InProgress
    <3>2. q \in RequestStates /\ ReadTrue(q)
      BY DEF IInv, TypeOK, RequestsTracked
    <3>3. q.job \in Jobs /\ q.status \in JobStates
      BY <3>1, <3>2, RequestShape
    <3>4. result[q.job] \in Recorded \cup {NoValue}
      BY <3>3 DEF IInv, TypeOK
    <3>5. r \in RequestStates
      BY <3>3, <3>4 DEF RequestStates
    <3>6. ReadTrue(r)
      BY <3>1, <3>2 DEF ReadTrue
    <3>7. events' \in Nat
      BY <3>1 DEF IInv, TypeOK
    <3> QED
      BY <3>1, <3>5, <3>6, <3>7
  <2> QED
    BY <2>1, <2>2
<1>2. UNCHANGED <<project, store, job, result, paid, faults, unexplained>>
  BY DEF ReadJob, ReadResult
<1>3. CollectedTrue(r) /\ RejectionTrue(r)
  BY <1>1 DEF CollectedTrue, RejectionTrue, Gathering
<1>4. /\ project' \in [Projects -> {"absent", "active", "archived"}]
      /\ faults' \in Nat /\ unexplained' \in BOOLEAN /\ paid' \in Nat
  BY <1>2 DEF IInv, TypeOK
<1> QED
  BY <1>1, <1>2, <1>3, <1>4, LocalKeeps

-----------------------------------------------------------------------------
(* Report generation, up to the build.                                     *)

\* A report request begins with what is there.
LEMMA BeginReportKeeps ==
  ASSUME IInv, NEW c \in Clients, NEW p \in Projects, BeginReport(c, p)
  PROVE  IInv'
<1> DEFINE r == [op |-> "citations", project |-> p, known |-> JobsOf(p), analysed |-> GetRuns(p),
                 citations |-> {}, runs |-> {}, jobs |-> {}, results |-> << >>]
<1>1. /\ request[c].op = "idle" /\ request' = [request EXCEPT ![c] = r]
      /\ UNCHANGED <<project, store, job, result, paid, faults, unexplained>>
      /\ events' = events + 1
  BY DEF BeginReport, Admit, Authorize, InProgress, Continue
<1>2. r \in RequestStates
  <2>1. JobsOf(p) \in SUBSET Jobs /\ GetRuns(p) \in SUBSET StoredRuns
    BY DEF JobsOf, GetRuns, Rows, StoredRuns
  <2>2. << >> \in UNION {[js -> Recorded] : js \in SUBSET Jobs}
    <3>1. << >> \in [{} -> Recorded] /\ {} \in SUBSET Jobs
      OBVIOUS
    <3> QED
      BY <3>1
  <2>3. r \in ReportRequests
    BY <2>1, <2>2 DEF ReportRequests, Gathering
  <2> QED
    BY <2>3 DEF RequestStates
<1>3. ReadTrue(r) /\ CollectedTrue(r) /\ RejectionTrue(r)
  BY DEF ReadTrue, CollectedTrue, RejectionTrue, Gathering
<1>4. /\ project' \in [Projects -> {"absent", "active", "archived"}]
      /\ faults' \in Nat /\ unexplained' \in BOOLEAN /\ paid' \in Nat /\ events' \in Nat
  BY <1>1 DEF IInv, TypeOK
<1> HIDE DEF r
<1> QED
  BY <1>1, <1>2, <1>3, <1>4, LocalKeeps

\* A report request that goes on with what it has read remains one.
LEMMA CollectKeeps ==
  ASSUME IInv, NEW c \in Clients, NEW r \in ReportRequests,
         request' = [request EXCEPT ![c] = r], CollectedTrue(r),
         UNCHANGED <<project, store, job, result, events, paid, faults, unexplained>>
  PROVE  IInv'
<1>1. r \in RequestStates /\ r.op \in Gathering
  BY DEF RequestStates, ReportRequests
<1>2. ReadTrue(r) /\ RejectionTrue(r)
  BY <1>1 DEF ReadTrue, RejectionTrue, Gathering
<1>3. /\ project' \in [Projects -> {"absent", "active", "archived"}]
      /\ faults' \in Nat /\ unexplained' \in BOOLEAN /\ paid' \in Nat /\ events' \in Nat
  BY DEF IInv, TypeOK
<1> QED
  BY <1>1, <1>2, <1>3, LocalKeeps

\* What a gathering request holds.
LEMMA GatheringFacts ==
  ASSUME IInv, NEW c \in Clients, request[c].op \in Gathering
  PROVE  request[c] \in ReportRequests /\ CollectedTrue(request[c])
  BY RequestShape DEF IInv, TypeOK, RequestsTracked

\* The four SELECTs.
LEMMA CollectStepKeeps ==
  ASSUME IInv, NEW c \in Clients,
         CollectCitations(c) \/ CollectRuns(c) \/ CollectJobs(c) \/ CollectResults(c)
  PROVE  IInv'
<1> DEFINE q == request[c]
<1>1. UNCHANGED <<project, store, job, result, events, paid, faults, unexplained>>
  BY DEF CollectCitations, CollectRuns, CollectJobs, CollectResults, Collect
<1>2. CASE CollectCitations(c)
  <2> DEFINE r == [q EXCEPT !.op = "runs", !.citations = {k \in citations : k.project = q.project}]
  <2>1. q.op = "citations" /\ request' = [request EXCEPT ![c] = r]
    BY <1>2 DEF CollectCitations, Collect, InProgress, Continue
  <2>2. q \in ReportRequests /\ CollectedTrue(q) /\ q.op \in Gathering
    BY <2>1, GatheringFacts DEF Gathering
  <2>3. r \in ReportRequests
    BY <2>2 DEF ReportRequests, Gathering
  <2>4. /\ r.op = "runs" /\ r.project = q.project /\ r.known = q.known /\ r.analysed = q.analysed
        /\ r.citations = {k \in citations : k.project = q.project}
    BY <2>2 DEF ReportRequests
  <2>5. r.citations \subseteq GetCitations(q.project) /\ GetCitations(q.project) \subseteq r.citations
    BY <2>4 DEF GetCitations, CitationFor, IInv, CitationsGrounded
  <2>6. \A run \in q.analysed : run.citations \subseteq GetCitations(q.project)
    BY <2>1, <2>2 DEF CollectedTrue, Gathering, GetRuns, Rows, IInv, RunsGrounded
  <2>7. CollectedTrue(r)
    <3> HIDE DEF r
    <3> QED
      BY <2>1, <2>2, <2>4, <2>5, <2>6 DEF CollectedTrue, Gathering
  <2> QED
    BY <1>1, <2>1, <2>2, <2>3, <2>7, CollectKeeps
<1>3. CASE CollectRuns(c)
  <2> DEFINE r == [q EXCEPT !.op = "jobs", !.runs = GetRuns(q.project)]
  <2>1. q.op = "runs" /\ request' = [request EXCEPT ![c] = r]
    BY <1>3 DEF CollectRuns, Collect, InProgress, Continue
  <2>2. q \in ReportRequests /\ CollectedTrue(q) /\ q.op \in Gathering
    BY <2>1, GatheringFacts DEF Gathering
  <2>3. GetRuns(q.project) \in SUBSET StoredRuns
    BY DEF GetRuns, Rows, StoredRuns
  <2>4. r \in ReportRequests
    BY <2>2, <2>3 DEF ReportRequests, Gathering
  <2>5. /\ r.op = "jobs" /\ r.project = q.project /\ r.known = q.known /\ r.analysed = q.analysed
        /\ r.citations = q.citations /\ r.runs = GetRuns(q.project)
    BY <2>2 DEF ReportRequests
  <2>6. CollectedTrue(r)
    <3> HIDE DEF r
    <3> QED
      BY <2>1, <2>2, <2>5 DEF CollectedTrue, Gathering
  <2> QED
    BY <1>1, <2>1, <2>2, <2>4, <2>6, CollectKeeps
<1>4. CASE CollectJobs(c)
  <2> DEFINE r == [q EXCEPT !.op = "results", !.jobs = JobsOf(q.project)]
  <2>1. q.op = "jobs" /\ request' = [request EXCEPT ![c] = r]
    BY <1>4 DEF CollectJobs, Collect, InProgress, Continue
  <2>2. q \in ReportRequests /\ CollectedTrue(q) /\ q.op \in Gathering
    BY <2>1, GatheringFacts DEF Gathering
  <2>3. JobsOf(q.project) \in SUBSET Jobs
    BY DEF JobsOf
  <2>4. r \in ReportRequests
    BY <2>2, <2>3 DEF ReportRequests, Gathering
  <2>5. /\ r.op = "results" /\ r.project = q.project /\ r.known = q.known /\ r.analysed = q.analysed
        /\ r.citations = q.citations /\ r.runs = q.runs /\ r.jobs = JobsOf(q.project)
    BY <2>2 DEF ReportRequests
  <2>6. CollectedTrue(r)
    <3> HIDE DEF r
    <3> QED
      BY <2>1, <2>2, <2>5 DEF CollectedTrue, Gathering
  <2> QED
    BY <1>1, <2>1, <2>2, <2>4, <2>6, CollectKeeps
<1>5. CASE CollectResults(c)
  <2> DEFINE read == [j \in ResultsOf(q.project) |-> result[j]]
  <2> DEFINE r == [q EXCEPT !.op = "build", !.results = read]
  <2>1. q.op = "results" /\ request' = [request EXCEPT ![c] = r]
    BY <1>5 DEF CollectResults, Collect, InProgress, Continue
  <2>2. q \in ReportRequests /\ CollectedTrue(q) /\ q.op \in Gathering
    BY <2>1, GatheringFacts DEF Gathering
  <2>3. read \in UNION {[js -> Recorded] : js \in SUBSET Jobs}
    <3>1. ResultsOf(q.project) \in SUBSET Jobs
      BY DEF ResultsOf, JobsOf
    <3>2. \A j \in ResultsOf(q.project) : result[j] \in Recorded
      BY <3>1 DEF ResultsOf, IInv, TypeOK
    <3>3. read \in [ResultsOf(q.project) -> Recorded]
      BY <3>2
    <3> QED
      BY <3>1, <3>3
  <2>4. \A j \in DOMAIN read : read[j] = result[j]
    OBVIOUS
  <2> HIDE DEF read
  <2>5. r \in ReportRequests
    BY <2>2, <2>3 DEF ReportRequests, Gathering
  <2>6. /\ r.op = "build" /\ r.project = q.project /\ r.known = q.known /\ r.analysed = q.analysed
        /\ r.citations = q.citations /\ r.runs = q.runs /\ r.jobs = q.jobs /\ r.results = read
    BY <2>2 DEF ReportRequests
  <2>7. CollectedTrue(r)
    <3> HIDE DEF r
    <3> QED
      BY <2>1, <2>2, <2>4, <2>6 DEF CollectedTrue, Gathering
  <2> QED
    BY <1>1, <2>1, <2>2, <2>5, <2>7, CollectKeeps
<1> QED
  BY <1>2, <1>3, <1>4, <1>5

-----------------------------------------------------------------------------
(* Execution jobs.                                                         *)

\* A job goes on; one that has ended never changes.
LEMMA JobKeeps ==
  ASSUME IInv, NEW j \in Jobs, EnqueueJob(j) \/ EndWithoutResult(j) \/ RecordResult(j)
  PROVE  IInv'
<1>1. UNCHANGED <<project, store, events, request, paid, faults, unexplained>>
  BY DEF EnqueueJob, EndWithoutResult, RecordResult, jobUnchanged
<1>2. /\ traces' = traces /\ citations' = citations /\ runs' = runs /\ feedback' = feedback
      /\ modelRuns' = modelRuns /\ reports' = reports
  BY <1>1 DEF store
<1>3. job \in [Jobs -> JobStates] /\ result \in [Jobs -> Recorded \cup {NoValue}]
  BY DEF IInv, TypeOK
<1>4. \/ job[j] = "absent" /\ job' = [job EXCEPT ![j] = "open"] /\ result' = result
      \/ job[j] = "open" /\ job' = [job EXCEPT ![j] = "ended"] /\ result' = result
      \/ /\ job[j] = "open" /\ job' = [job EXCEPT ![j] = "ended"]
         /\ \E o \in Recorded : result' = [result EXCEPT ![j] = o]
  BY DEF EnqueueJob, EndWithoutResult, RecordResult
<1>5. job' \in [Jobs -> JobStates] /\ result' \in [Jobs -> Recorded \cup {NoValue}]
  BY <1>3, <1>4 DEF JobStates
<1>6. /\ job[j] # "ended" /\ job'[j] # "absent"
      /\ \A k \in Jobs : k # j => job'[k] = job[k] /\ result'[k] = result[k]
      /\ result'[j] # NoValue => result'[j] = result[j] \/ job'[j] = "ended"
  BY <1>3, <1>4
<1>7. Grows
  BY <1>2, <1>6 DEF Grows
<1>8. request' \in [Clients -> RequestStates'] /\ RequestsTracked'
  BY <1>1, <1>7, RequestsKeep DEF IInv, TypeOK
<1>9. CitationsGrounded' /\ RunsGrounded' /\ FeedbackGrounded' /\ ReportsKept'
  BY <1>2, <1>7, RowsStay
<1>10. ResultsFinal'
  BY <1>6 DEF IInv, ResultsFinal
<1>11. TypeOK'
  BY <1>1, <1>2, <1>5, <1>8 DEF IInv, TypeOK, IsTable
<1> QED
  BY <1>8, <1>9, <1>10, <1>11 DEF IInv

-----------------------------------------------------------------------------
(* Steps that store a row.                                                 *)

\* A client goes on with r, and rows are added that are grounded.
LEMMA StoreKeeps ==
  ASSUME IInv, Grows, NEW c \in Clients, NEW r, request' = [request EXCEPT ![c] = r],
         r = request[c] \/ ( r \in RequestStates' /\ ReadTrue(r)' /\ CollectedTrue(r)'
                             /\ RejectionTrue(r)' ),
         UNCHANGED <<project, job, result, paid, faults>>, unexplained' \in BOOLEAN,
         IsTable(traces'), IsTable(runs'), IsTable(feedback'), IsTable(modelRuns'), IsTable(reports'),
         events' = events \/ events' = events + 1,
         CitationsGrounded', RunsGrounded', FeedbackGrounded', ReportsKept'
  PROVE  IInv'
<1>1. /\ request'[c] = r /\ \A d \in Clients : d # c => request'[d] = request[d]
      /\ request' = [d \in Clients |-> request'[d]]
  BY RequestChange DEF IInv, TypeOK
<1>2. \A d \in Clients :
        \/ request'[d] = request[d]
        \/ request'[d] \in RequestStates'
             /\ ReadTrue(request[d])' /\ CollectedTrue(request[d])' /\ RejectionTrue(request[d])'
  <2>1. CASE r = request[c]
    BY <1>1, <2>1
  <2>2. CASE r # request[c]
    <3>1. /\ request'[c] \in RequestStates'
          /\ ReadTrue(request[c])' /\ CollectedTrue(request[c])' /\ RejectionTrue(request[c])'
      BY <1>1, <2>2 DEF ReadTrue, CollectedTrue, RejectionTrue
    <3> QED
      BY <1>1, <3>1
  <2> QED
    BY <2>1, <2>2
<1>3. request' \in [Clients -> RequestStates'] /\ RequestsTracked'
  BY <1>1, <1>2, RequestsKeep
<1>4. ResultsFinal'
  BY DEF IInv, ResultsFinal
<1>5. TypeOK'
  <2>1. events' \in Nat /\ paid' \in Nat
    BY DEF IInv, TypeOK
  <2> QED
    BY <1>3, <2>1 DEF IInv, TypeOK, IsTable
<1> QED
  BY <1>3, <1>4, <1>5 DEF IInv

\* The idle request is true of any tables.
LEMMA IdleStays ==
  Idle \in RequestStates' /\ ReadTrue(Idle)' /\ CollectedTrue(Idle)' /\ RejectionTrue(Idle)'
  BY DEF Idle, RequestStates, ReadTrue, CollectedTrue, RejectionTrue, Gathering

\* A retrieval stores its trace and goes on to cite it.
LEMMA RetrieveKeeps ==
  ASSUME IInv, NEW c \in Clients, NEW p \in Projects, NEW query, Retrieve(c, p, query)
  PROVE  IInv'
<1>1. /\ request[c].op = "idle" /\ events' = events + 1
      /\ UNCHANGED <<project, citations, runs, feedback, modelRuns, reports, job, result, paid,
                     faults, unexplained>>
  BY DEF Retrieve, Admit, Authorize, InProgress
<1>2. PICK row : traces' = Append(traces, row)
  BY DEF Retrieve
<1>3. PICK r : /\ request' = [request EXCEPT ![c] = r]
               /\ r = request[c] \/ r = [op |-> "cite", project |-> p, trace |-> Len(traces) + 1]
  BY DEF Retrieve, Continue, IInv, TypeOK
<1>4. /\ IsTable(traces') /\ Len(traces) \in Nat /\ DOMAIN traces = 1..Len(traces)
      /\ Len(traces') = Len(traces) + 1 /\ DOMAIN traces' = 1..(Len(traces) + 1)
      /\ \A i \in DOMAIN traces : traces'[i] = traces[i]
  BY <1>2, TableAppend DEF IInv, TypeOK
<1>5. Grows
  BY <1>1, <1>4 DEF Grows
<1>6. r = request[c] \/ ( r \in RequestStates' /\ ReadTrue(r)' /\ CollectedTrue(r)'
                          /\ RejectionTrue(r)' )
  <2>1. CASE r = [op |-> "cite", project |-> p, trace |-> Len(traces) + 1]
    <3>1. Len(traces) + 1 \in DOMAIN traces'
      BY <1>4
    <3>2. r \in RequestStates'
      BY <2>1, <3>1 DEF RequestStates
    <3>3. ReadTrue(r)' /\ CollectedTrue(r)' /\ RejectionTrue(r)'
      BY <2>1 DEF ReadTrue, CollectedTrue, RejectionTrue, Gathering
    <3> QED
      BY <3>2, <3>3
  <2> QED
    BY <1>3, <2>1
<1>7. /\ IsTable(runs') /\ IsTable(feedback') /\ IsTable(modelRuns') /\ IsTable(reports')
      /\ unexplained' \in BOOLEAN
  BY <1>1 DEF IInv, TypeOK, IsTable
<1>8. CitationsGrounded' /\ RunsGrounded' /\ FeedbackGrounded' /\ ReportsKept'
  BY <1>1, <1>5, RowsStay
<1> QED
  BY <1>1, <1>3, <1>4, <1>5, <1>6, <1>7, <1>8, StoreKeeps

\* A citation names a selected passage of its own project.
LEMMA CiteKeeps ==
  ASSUME IInv, NEW c \in Clients, Cite(c)
  PROVE  IInv'
<1> DEFINE q == request[c]
<1> DEFINE trace == traces[q.trace]
<1>1. /\ q.op = "cite" /\ request' = [request EXCEPT ![c] = Idle]
      /\ Selected(trace, q.project) = trace.selected
      /\ citations' = citations \cup {CitationOf(q.trace, trace, x) : x \in trace.selected}
      /\ UNCHANGED <<project, traces, runs, feedback, modelRuns, reports, job, result, events,
                     paid, faults, unexplained>>
  BY DEF Cite, InProgress, Answer
<1>2. q.trace \in DOMAIN traces
  BY <1>1, RequestShape DEF IInv, TypeOK
<1>3. Grows
  BY <1>1 DEF Grows
<1>4. CitationsGrounded'
  <2>1. ASSUME NEW x \in trace.selected, NEW k, k = CitationOf(q.trace, trace, x)
        PROVE  /\ k.trace \in DOMAIN traces /\ k.chunk \in traces[k.trace].selected
               /\ CitationReadable(k)
    <3>1. /\ k.trace = q.trace /\ k.chunk = x /\ k.project = trace.project
          /\ k.version = Chunk[x].version
      BY <2>1 DEF CitationOf
    <3>2. trace.project = q.project /\ Chunk[x].project = q.project
      BY <1>1, <2>1 DEF Selected
    <3> QED
      BY <1>2, <3>1, <3>2 DEF CitationReadable
  <2> QED
    BY <1>1, <2>1 DEF IInv, CitationsGrounded
<1>5. RunsGrounded' /\ FeedbackGrounded' /\ ReportsKept'
  BY <1>1, <1>3, RowsStay
<1>6. /\ IsTable(traces') /\ IsTable(runs') /\ IsTable(feedback') /\ IsTable(modelRuns')
      /\ IsTable(reports') /\ unexplained' \in BOOLEAN
  BY <1>1 DEF IInv, TypeOK, IsTable
<1> QED
  BY <1>1, <1>3, <1>4, <1>5, <1>6, IdleStays, StoreKeeps

\* A contradiction cites two of the citations.
LEMMA ContradictionsCite ==
  ASSUME NEW ks, NEW passage, NEW f \in Contradictions(ks, passage)
  PROVE  \E rule, severity, term, cited : cited \in SUBSET ks /\ f = Finding(rule, severity, term, cited)
<1> DEFINE opposed == {s \in SUBSET ks :
                         \E k, l \in ks : s = {k, l} /\ Opposite(passage[k], passage[l])}
<1>1. f \in {Finding("contradiction", "high", "", pair) : pair \in opposed}
  BY DEF Contradictions
<1>2. \A pair \in opposed : pair \in SUBSET ks
  OBVIOUS
<1> HIDE DEF opposed
<1>3. PICK pair \in opposed : f = Finding("contradiction", "high", "", pair)
  BY <1>1, Zenon
<1>4. pair \in SUBSET ks
  BY <1>2
<1> QED
  BY <1>3, <1>4, Zenon

\* The rules cite what they were given, and name a finding after its citations.
LEMMA FindingsCite ==
  ASSUME NEW ks, NEW f \in Findings(ks)
  PROVE  f.citations \subseteq ks /\ f.id[2] = f.citations
<1> DEFINE passage == [k \in ks |-> Passage[k.chunk]]
<1>1. PICK rule, severity, term, cited : cited \in SUBSET ks /\ f = Finding(rule, severity, term, cited)
  <2>1. CASE f \in Contradictions(ks, passage)
    <3> HIDE DEF passage
    <3> QED
      BY <2>1, ContradictionsCite
  <2>2. ASSUME NEW k \in ks,
               f \in MissingCriteria(k, passage[k]) \cup Ambiguities(k, passage[k])
                       \cup AuthorizationGap(k, passage[k]) \cup ErrorHandlingGap(k, passage[k])
                       \cup PerformanceRisks(k, passage[k])
        PROVE  \E rule, severity, term : f = Finding(rule, severity, term, {k})
    BY <2>2 DEF MissingCriteria, Ambiguities, AuthorizationGap, ErrorHandlingGap, PerformanceRisks
  <2>3. \/ f \in Contradictions(ks, passage)
        \/ \E k \in ks :
             f \in MissingCriteria(k, passage[k]) \cup Ambiguities(k, passage[k])
                     \cup AuthorizationGap(k, passage[k]) \cup ErrorHandlingGap(k, passage[k])
                     \cup PerformanceRisks(k, passage[k])
    BY DEF Findings, AnalyzeCitations
  <2>4. \A k \in ks : {k} \in SUBSET ks
    OBVIOUS
  <2>5. CASE \E k \in ks :
               f \in MissingCriteria(k, passage[k]) \cup Ambiguities(k, passage[k])
                       \cup AuthorizationGap(k, passage[k]) \cup ErrorHandlingGap(k, passage[k])
                       \cup PerformanceRisks(k, passage[k])
    <3>1. PICK k \in ks : \E rule, severity, term : f = Finding(rule, severity, term, {k})
      BY <2>2, <2>5, Zenon
    <3>2. PICK rule, severity, term : f = Finding(rule, severity, term, {k})
      BY <3>1, Zenon
    <3> QED
      BY <2>4, <3>2, Zenon
  <2> QED
    BY <2>1, <2>3, <2>5, Zenon
<1>2. f.id = <<rule, cited>> /\ f.citations = cited
  BY <1>1 DEF Finding
<1>3. cited \subseteq ks
  BY <1>1
<1> QED
  BY <1>2, <1>3

\* An analysis is stored with fresh keys, or not at all.
LEMMA AnalyzeKeeps ==
  ASSUME IInv, NEW c \in Clients, NEW p \in Projects, NEW ks, Analyze(c, p, ks)
  PROVE  IInv'
<1> DEFINE found == Findings(ks)
<1> DEFINE row == RunRow(Len(runs) + 1, p, ks, found)
<1>1. /\ request[c].op = "idle" /\ events' = events + 1
      /\ UNCHANGED <<project, traces, citations, feedback, modelRuns, reports, job, result,
                     request, paid, faults>>
  BY DEF Analyze, Admit, Authorize, InProgress
<1>2. \A k \in ks : CitationFor(p, k)
  BY DEF Analyze
<1>3. unexplained' \in BOOLEAN
  BY DEF Analyze, IInv, TypeOK
<1>4. \/ runs' = runs
      \/ runs' = Append(runs, row) /\ KeysFree(found)
  BY DEF Analyze
<1>6. IsTable(traces') /\ IsTable(feedback') /\ IsTable(modelRuns') /\ IsTable(reports')
  BY <1>1 DEF IInv, TypeOK, IsTable
<1>7. request' = [request EXCEPT ![c] = request[c]]
  BY <1>1 DEF IInv, TypeOK
<1>8. CASE runs' = runs
  <2>1. Grows /\ IsTable(runs')
    BY <1>1, <1>8 DEF Grows, IInv, TypeOK, IsTable
  <2>2. CitationsGrounded' /\ RunsGrounded' /\ FeedbackGrounded' /\ ReportsKept'
    BY <1>1, <1>8, <2>1, RowsStay
  <2> QED
    BY <1>1, <1>3, <1>6, <1>7, <2>1, <2>2, StoreKeeps
<1>9. CASE runs' = Append(runs, row) /\ KeysFree(found)
  <2>1. /\ IsTable(runs') /\ Len(runs) \in Nat /\ DOMAIN runs = 1..Len(runs)
        /\ Len(runs') = Len(runs) + 1 /\ DOMAIN runs' = 1..(Len(runs) + 1)
        /\ \A i \in DOMAIN runs : runs'[i] = runs[i]
        /\ runs'[Len(runs) + 1] = row
    BY <1>9, TableAppend DEF IInv, TypeOK
  <2>2. /\ row.id = Len(runs) + 1 /\ row.project = p /\ row.citations = ks /\ row.findings = found
    BY DEF RunRow
  <2> HIDE DEF row
  <2>3. Grows
    BY <1>1, <2>1 DEF Grows
  <2>4. ks \subseteq GetCitations(p)' /\ \A q : GetCitations(q)' = GetCitations(q)
    BY <1>1, <1>2 DEF GetCitations, CitationFor, CitationReadable
  <2>5. \A f \in found : f.citations \subseteq ks /\ f.id[2] = f.citations
    BY FindingsCite
  <2>6. \A i \in DOMAIN runs :
          {f.id : f \in found} \cap {f.id : f \in runs[i].findings} = {}
    BY <1>9 DEF KeysFree, FindingIds
  <2> HIDE DEF found
  <2>7. RunsGrounded'
    <3>1. ASSUME NEW i \in DOMAIN runs'
          PROVE  /\ runs'[i].id = i
                 /\ runs'[i].citations \subseteq GetCitations(runs[i].project)'
                 /\ \A f \in runs'[i].findings :
                      f.citations \subseteq runs'[i].citations /\ f.id[2] = f.citations
      <4>1. CASE i \in DOMAIN runs
        <5>1. runs'[i] = runs[i] /\ runs[i].id = i
              /\ runs[i].citations \subseteq GetCitations(runs[i].project)
              /\ \A f \in runs[i].findings :
                   f.citations \subseteq runs[i].citations /\ f.id[2] = f.citations
          BY <2>1, <4>1 DEF IInv, RunsGrounded
        <5> QED
          BY <1>1, <5>1 DEF GetCitations, CitationFor
      <4>2. CASE i = Len(runs) + 1
        <5>1. runs'[i] = row
          BY <2>1, <4>2
        <5> QED
          BY <2>2, <2>4, <2>5, <4>2, <5>1 DEF GetCitations, CitationFor
      <4>3. i \in DOMAIN runs \/ i = Len(runs) + 1
        BY <2>1
      <4> QED
        BY <4>1, <4>2, <4>3
    <3>2. ASSUME NEW i \in DOMAIN runs', NEW j \in DOMAIN runs', i # j
          PROVE  {f.id : f \in runs'[i].findings} \cap {f.id : f \in runs'[j].findings} = {}
      <4>1. CASE i \in DOMAIN runs /\ j \in DOMAIN runs
        BY <2>1, <3>2, <4>1 DEF IInv, RunsGrounded
      <4>2. CASE i \in DOMAIN runs /\ j = Len(runs) + 1
        BY <2>1, <2>2, <2>6, <4>2
      <4>3. CASE i = Len(runs) + 1 /\ j \in DOMAIN runs
        BY <2>1, <2>2, <2>6, <4>3
      <4>4. /\ i \in DOMAIN runs \/ i = Len(runs) + 1
            /\ j \in DOMAIN runs \/ j = Len(runs) + 1
        BY <2>1
      <4> QED
        BY <3>2, <4>1, <4>2, <4>3, <4>4
    <3> QED
      BY <3>1, <3>2 DEF RunsGrounded
  <2>8. CitationsGrounded' /\ FeedbackGrounded' /\ ReportsKept'
    BY <1>1, <2>3, RowsStay
  <2> QED
    BY <1>1, <1>3, <1>6, <1>7, <2>1, <2>3, <2>7, <2>8, StoreKeeps
<1> QED
  BY <1>4, <1>8, <1>9

\* Feedback cites what the finding of the project's run cites.
LEMMA GiveFeedbackKeeps ==
  ASSUME IInv, NEW c \in Clients, NEW p \in Projects, NEW i \in DOMAIN runs,
         NEW f \in runs[i].findings, GiveFeedback(c, p, i, f)
  PROVE  IInv'
<1> DEFINE row == FeedbackRow(p, i, f)
<1>1. /\ request[c].op = "idle" /\ events' = events + 1 /\ runs[i].project = p
      /\ feedback' = Append(feedback, row)
      /\ UNCHANGED <<project, traces, citations, runs, modelRuns, reports, job, result,
                     request, paid, faults, unexplained>>
  BY DEF GiveFeedback, Admit, Authorize, InProgress
<1>2. row.project = p /\ row.citations = f.citations
  BY DEF FeedbackRow
<1> HIDE DEF row
<1>3. /\ IsTable(feedback') /\ Len(feedback) \in Nat /\ DOMAIN feedback = 1..Len(feedback)
      /\ Len(feedback') = Len(feedback) + 1 /\ DOMAIN feedback' = 1..(Len(feedback) + 1)
      /\ \A n \in DOMAIN feedback : feedback'[n] = feedback[n]
      /\ feedback'[Len(feedback) + 1] = row
  BY <1>1, TableAppend DEF IInv, TypeOK
<1>4. Grows
  BY <1>1 DEF Grows
<1>5. f.citations \subseteq GetCitations(p)
  BY <1>1 DEF IInv, RunsGrounded
<1>6. FeedbackGrounded'
  <2>1. ASSUME NEW n \in DOMAIN feedback'
        PROVE  feedback'[n].citations \subseteq GetCitations(feedback[n].project)'
    <3>1. CASE n \in DOMAIN feedback
      <4>1. feedback'[n] = feedback[n]
            /\ feedback[n].citations \subseteq GetCitations(feedback[n].project)
        BY <1>3, <3>1 DEF IInv, FeedbackGrounded
      <4> QED
        BY <1>1, <4>1 DEF GetCitations, CitationFor
    <3>2. CASE n = Len(feedback) + 1
      <4>1. feedback'[n] = row
        BY <1>3, <3>2
      <4> QED
        BY <1>1, <1>2, <1>5, <4>1 DEF GetCitations, CitationFor
    <3> QED
      BY <1>3, <3>1, <3>2
  <2> QED
    BY <2>1 DEF FeedbackGrounded
<1>7. CitationsGrounded' /\ RunsGrounded' /\ ReportsKept'
  BY <1>1, <1>4, RowsStay
<1>8. /\ IsTable(traces') /\ IsTable(runs') /\ IsTable(modelRuns') /\ IsTable(reports')
      /\ unexplained' \in BOOLEAN
  BY <1>1 DEF IInv, TypeOK, IsTable
<1>9. request' = [request EXCEPT ![c] = request[c]]
  BY <1>1 DEF IInv, TypeOK
<1> QED
  BY <1>1, <1>3, <1>4, <1>6, <1>7, <1>8, <1>9, StoreKeeps

\* An answer of the model is stored.
LEMMA StoreModelRunKeeps ==
  ASSUME IInv, NEW c \in Clients, StoreModelRun(c)
  PROVE  IInv'
<1>1. /\ request[c].op = "answer" /\ request' = [request EXCEPT ![c] = Idle]
      /\ UNCHANGED <<project, traces, citations, runs, feedback, reports, job, result, events,
                     paid, faults, unexplained>>
  BY DEF StoreModelRun, InProgress, Answer
<1>2. PICK row : modelRuns' = Append(modelRuns, row)
  BY DEF StoreModelRun
<1>3. IsTable(modelRuns') /\ Len(modelRuns') = Len(modelRuns) + 1
  BY <1>2, TableAppend DEF IInv, TypeOK
<1>4. Grows
  BY <1>1 DEF Grows
<1>5. CitationsGrounded' /\ RunsGrounded' /\ FeedbackGrounded' /\ ReportsKept'
  BY <1>1, <1>4, RowsStay
<1>6. /\ IsTable(traces') /\ IsTable(runs') /\ IsTable(feedback') /\ IsTable(reports')
      /\ unexplained' \in BOOLEAN
  BY <1>1 DEF IInv, TypeOK, IsTable
<1> QED
  BY <1>1, <1>3, <1>4, <1>5, <1>6, IdleStays, StoreKeeps

-----------------------------------------------------------------------------
(* The report builder.                                                     *)

\* A claim that presents something of the catalogue is valid.
LEMMA ClaimValid ==
  ASSUME NEW kind, kind # "unsupported", NEW refs, NEW catalog, NEW k \in Kinds,
         Within(refs, catalog), refs[k] # {}
  PROVE  ValidClaim(Claim(kind, refs), catalog)
<1>1. refs # NoRefs
  BY DEF NoRefs
<1> QED
  BY <1>1 DEF ValidClaim, Claim

\* One claim over references of the catalogue is valid.
LEMMA ClaimOverValid ==
  ASSUME NEW refs, NEW catalog, Within(refs, catalog)
  PROVE  ValidSection(Complete(ClaimOver(refs)), catalog)
<1>1. \A c \in ClaimOver(refs) : ValidClaim(c, catalog)
  BY DEF ClaimOver, Claim, ValidClaim
<1> QED
  BY <1>1 DEF ValidSection, Complete

\* What references hold, kind by kind.
LEMMA RefsHold ==
  ASSUME NEW kind \in Kinds, NEW ids
  PROVE  \A k \in Kinds : Refs(kind, ids)[k] = IF k = kind THEN ids ELSE {}
  BY DEF Refs, NoRefs

\* What the catalogue holds, kind by kind.
LEMMA CatalogHolds ==
  ASSUME NEW input
  PROVE  /\ Catalog(input)["citation"] = input.citations
         /\ Catalog(input)["finding"] = {f.id : f \in FindingsOf(input)}
         /\ Catalog(input)["test_case"] = {t.id : t \in input.tests}
         /\ Catalog(input)["execution_result"] = {e.job : e \in input.evidence}
         /\ Catalog(input)["failure_analysis"] = {a.job : a \in input.analyses}
  BY DEF Catalog, Kinds

\* A section without claims is valid.
LEMMA GapValid ==
  ASSUME NEW state, NEW catalog
  PROVE  ValidSection(Gap(state), catalog)
  BY DEF ValidSection, Gap

\* The sections of findings and tests present what the catalogue holds.
LEMMA FindingsSectionValid ==
  ASSUME NEW input, ValidInput(input)
  PROVE  ValidSection(FindingsSection(input), Catalog(input))
<1>1. ASSUME NEW f \in FindingsOf(input)
      PROVE  ValidClaim(Claim("analysis", Plus(Refs("finding", {f.id}), Refs("citation", f.citations))),
                        Catalog(input))
  <2> DEFINE refs == Plus(Refs("finding", {f.id}), Refs("citation", f.citations))
  <2>1. f.citations \subseteq input.citations
    BY DEF ValidInput, ValidRuns, FindingsOf
  <2>2. "finding" \in Kinds /\ "citation" \in Kinds
    BY DEF Kinds
  <2>3. \A k \in Kinds : refs[k] = Refs("finding", {f.id})[k] \cup Refs("citation", f.citations)[k]
    BY DEF Plus
  <2>4. \A k \in Kinds : refs[k] = (IF k = "finding" THEN {f.id} ELSE {})
                                     \cup (IF k = "citation" THEN f.citations ELSE {})
    <3>1. \A k \in Kinds : Refs("finding", {f.id})[k] = IF k = "finding" THEN {f.id} ELSE {}
      BY <2>2, RefsHold
    <3>2. \A k \in Kinds : Refs("citation", f.citations)[k] = IF k = "citation" THEN f.citations ELSE {}
      BY <2>2, RefsHold
    <3> QED
      BY <2>3, <3>1, <3>2, Zenon
  <2> HIDE DEF refs
  <2>5. /\ Catalog(input)["citation"] = input.citations
        /\ Catalog(input)["finding"] = {g.id : g \in FindingsOf(input)}
    BY CatalogHolds
  <2>6. Within(refs, Catalog(input))
    BY <2>1, <2>4, <2>5 DEF Within
  <2>7. refs["finding"] # {}
    BY <2>2, <2>4
  <2>8. ValidClaim(Claim("analysis", refs), Catalog(input))
    BY <2>2, <2>6, <2>7, ClaimValid
  <2> QED
    BY <2>8 DEF refs
<1>2. CASE input.runs = {}
  BY <1>2, GapValid DEF FindingsSection
<1>3. CASE input.runs # {}
  BY <1>1, <1>3 DEF FindingsSection, ValidSection, Complete
<1> QED
  BY <1>2, <1>3

\* The section of findings presents each finding with its citations.
LEMMA FindingsSectionShows ==
  ASSUME NEW input
  PROVE  /\ FindingsSection(input).state = "not_run" => input.runs = {}
         /\ {<<claim.refs["finding"], claim.refs["citation"]>> :
               claim \in FindingsSection(input).claims}
              = {<<{f.id}, f.citations>> : f \in FindingsOf(input)}
<1> DEFINE ClaimOf(f) ==
             Claim("analysis", Plus(Refs("finding", {f.id}), Refs("citation", f.citations)))
<1>1. ASSUME NEW f
      PROVE  ClaimOf(f).refs["finding"] = {f.id} /\ ClaimOf(f).refs["citation"] = f.citations
  <2> DEFINE refs == Plus(Refs("finding", {f.id}), Refs("citation", f.citations))
  <2>1. "finding" \in Kinds /\ "citation" \in Kinds
    BY DEF Kinds
  <2>2. \A k \in Kinds : refs[k] = Refs("finding", {f.id})[k] \cup Refs("citation", f.citations)[k]
    BY DEF Plus
  <2>3. \A k \in Kinds : Refs("finding", {f.id})[k] = IF k = "finding" THEN {f.id} ELSE {}
    BY <2>1, RefsHold
  <2>4. \A k \in Kinds : Refs("citation", f.citations)[k] = IF k = "citation" THEN f.citations ELSE {}
    BY <2>1, RefsHold
  <2> HIDE DEF refs
  <2>5. refs["finding"] = {f.id} /\ refs["citation"] = f.citations
    BY <2>1, <2>2, <2>3, <2>4
  <2>6. ClaimOf(f).refs = refs
    BY DEF Claim, refs
  <2> QED
    BY <2>5, <2>6
<1> HIDE DEF ClaimOf
<1>2. CASE input.runs = {}
  <2>1. FindingsOf(input) = {} /\ FindingsSection(input).claims = {}
    BY <1>2 DEF FindingsOf, FindingsSection, Gap
  <2> QED
    BY <1>2, <2>1
<1>3. CASE input.runs # {}
  <2>1. /\ FindingsSection(input).state = "complete"
        /\ FindingsSection(input).claims = {ClaimOf(f) : f \in FindingsOf(input)}
    BY <1>3 DEF FindingsSection, Complete, ClaimOf
  <2>2. {<<claim.refs["finding"], claim.refs["citation"]>> :
           claim \in {ClaimOf(f) : f \in FindingsOf(input)}}
          = {<<{f.id}, f.citations>> : f \in FindingsOf(input)}
    BY <1>1
  <2> QED
    BY <2>1, <2>2
<1> QED
  BY <1>2, <1>3

\* A generated test presents itself, its finding and its citations.
LEMMA TestsSectionValid ==
  ASSUME NEW input, ValidInput(input)
  PROVE  ValidSection(GeneratedTestsSection(input), Catalog(input))
<1>1. ASSUME NEW t \in input.tests
      PROVE  ValidClaim(Claim("recommendation", Plus(Refs("test_case", {t.id}),
                                                     Plus(Refs("finding", {t.finding}),
                                                          Refs("citation", t.citations)))),
                        Catalog(input))
  <2> DEFINE refs == Plus(Refs("test_case", {t.id}),
                          Plus(Refs("finding", {t.finding}), Refs("citation", t.citations)))
  <2>1. t.citations \subseteq input.citations /\ \E f \in FindingsOf(input) : f.id = t.finding
    BY DEF ValidInput, ValidTests
  <2>2. "test_case" \in Kinds /\ "finding" \in Kinds /\ "citation" \in Kinds
    BY DEF Kinds
  <2>3. \A k \in Kinds : refs[k] = Refs("test_case", {t.id})[k]
                                     \cup (Refs("finding", {t.finding})[k]
                                            \cup Refs("citation", t.citations)[k])
    BY DEF Plus
  <2>4. \A k \in Kinds : refs[k] = (IF k = "test_case" THEN {t.id} ELSE {})
                                     \cup ((IF k = "finding" THEN {t.finding} ELSE {})
                                            \cup (IF k = "citation" THEN t.citations ELSE {}))
    <3>1. \A k \in Kinds : Refs("test_case", {t.id})[k] = IF k = "test_case" THEN {t.id} ELSE {}
      BY <2>2, RefsHold
    <3>2. \A k \in Kinds : Refs("finding", {t.finding})[k] = IF k = "finding" THEN {t.finding} ELSE {}
      BY <2>2, RefsHold
    <3>3. \A k \in Kinds : Refs("citation", t.citations)[k] = IF k = "citation" THEN t.citations ELSE {}
      BY <2>2, RefsHold
    <3> QED
      BY <2>3, <3>1, <3>2, <3>3, Zenon
  <2> HIDE DEF refs
  <2>5. /\ Catalog(input)["citation"] = input.citations
        /\ Catalog(input)["finding"] = {g.id : g \in FindingsOf(input)}
        /\ Catalog(input)["test_case"] = {u.id : u \in input.tests}
    BY CatalogHolds
  <2>6. t.finding \in Catalog(input)["finding"] /\ t.id \in Catalog(input)["test_case"]
    BY <2>1, <2>5
  <2>7. Within(refs, Catalog(input))
    BY <2>1, <2>4, <2>5, <2>6 DEF Within
  <2>8. refs["test_case"] # {}
    BY <2>2, <2>4
  <2>9. ValidClaim(Claim("recommendation", refs), Catalog(input))
    BY <2>2, <2>7, <2>8, ClaimValid
  <2> QED
    BY <2>9 DEF refs
<1>2. CASE input.tests = {}
  BY <1>2, GapValid DEF GeneratedTestsSection
<1>3. CASE input.tests # {}
  BY <1>1, <1>3 DEF GeneratedTestsSection, ValidSection, Complete
<1> QED
  BY <1>2, <1>3

\* The sections of executions and their failures present what the catalogue holds.
LEMMA ExecutionSectionsValid ==
  ASSUME NEW input, ValidInput(input)
  PROVE  /\ ValidSection(ExecutionSection(input), Catalog(input))
         /\ ValidSection(FailureSection(input), Catalog(input))
<1>1. "execution_result" \in Kinds /\ "failure_analysis" \in Kinds
  BY DEF Kinds
<1>2. /\ Catalog(input)["execution_result"] = {e.job : e \in input.evidence}
      /\ Catalog(input)["failure_analysis"] = {a.job : a \in input.analyses}
  BY CatalogHolds
<1>3. ASSUME NEW e \in input.evidence
      PROVE  ValidClaim(Claim("observation", Refs("execution_result", {e.job})), Catalog(input))
  <2> DEFINE refs == Refs("execution_result", {e.job})
  <2>1. \A k \in Kinds : refs[k] = IF k = "execution_result" THEN {e.job} ELSE {}
    BY <1>1, RefsHold
  <2> HIDE DEF refs
  <2>2. Within(refs, Catalog(input)) /\ refs["execution_result"] # {}
    BY <1>1, <1>2, <2>1 DEF Within
  <2>3. ValidClaim(Claim("observation", refs), Catalog(input))
    BY <1>1, <2>2, ClaimValid
  <2> QED
    BY <2>3 DEF refs
<1>4. \A a \in input.analyses : \E e \in input.evidence : e.job = a.job
  <2>1. ASSUME NEW a \in input.analyses
        PROVE  \E e \in input.evidence : e.job = a.job
    <3>1. <<a.job, a.outcome, a.code>>
            \in {<<e.job, e.outcome, e.code>> : e \in Unsuccessful(input.evidence)}
      BY DEF ValidInput, ValidAnalyses
    <3> QED
      BY <3>1 DEF Unsuccessful
  <2> QED
    BY <2>1
<1>5. ASSUME NEW a \in input.analyses
      PROVE  ValidClaim(Claim("hypothesis", Plus(Refs("execution_result", {a.job}),
                                                 Refs("failure_analysis", {a.job}))),
                        Catalog(input))
  <2> DEFINE refs == Plus(Refs("execution_result", {a.job}), Refs("failure_analysis", {a.job}))
  <2>1. \A k \in Kinds : refs[k] = Refs("execution_result", {a.job})[k]
                                     \cup Refs("failure_analysis", {a.job})[k]
    BY DEF Plus
  <2>2. \A k \in Kinds : refs[k] = (IF k = "execution_result" THEN {a.job} ELSE {})
                                     \cup (IF k = "failure_analysis" THEN {a.job} ELSE {})
    <3>1. \A k \in Kinds : Refs("execution_result", {a.job})[k]
                             = IF k = "execution_result" THEN {a.job} ELSE {}
      BY <1>1, RefsHold
    <3>2. \A k \in Kinds : Refs("failure_analysis", {a.job})[k]
                             = IF k = "failure_analysis" THEN {a.job} ELSE {}
      BY <1>1, RefsHold
    <3> QED
      BY <2>1, <3>1, <3>2, Zenon
  <2> HIDE DEF refs
  <2>3. a.job \in Catalog(input)["execution_result"] /\ a.job \in Catalog(input)["failure_analysis"]
    BY <1>2, <1>4
  <2>4. Within(refs, Catalog(input)) /\ refs["execution_result"] # {}
    BY <1>1, <2>2, <2>3 DEF Within
  <2>5. ValidClaim(Claim("hypothesis", refs), Catalog(input))
    BY <1>1, <2>4, ClaimValid
  <2> QED
    BY <2>5 DEF refs
<1>6. ValidSection(ExecutionSection(input), Catalog(input))
  <2>1. CASE input.evidence = {}
    BY <2>1, GapValid DEF ExecutionSection
  <2>2. CASE input.evidence # {}
    BY <1>3, <2>2 DEF ExecutionSection, ValidSection, Complete
  <2> QED
    BY <2>1, <2>2
<1>7. ValidSection(FailureSection(input), Catalog(input))
  <2>1. CASE input.analyses = {}
    BY <2>1, GapValid DEF FailureSection
  <2>2. CASE input.analyses # {}
    BY <1>5, <2>2 DEF FailureSection, ValidSection, Complete
  <2> QED
    BY <2>1, <2>2
<1> QED
  BY <1>6, <1>7

\* All eleven sections.
LEMMA ReportValid ==
  ASSUME NEW input, ValidInput(input)
  PROVE  /\ DOMAIN Sections(input) = SectionNames
         /\ \A n \in SectionNames : ValidSection(Sections(input)[n], Catalog(input))
<1>1. ValidSection(ScopeSection(input), Catalog(input))
  <2>1. "citation" \in Kinds
    BY DEF Kinds
  <2>2. \A k \in Kinds : Refs("citation", input.citations)[k]
                           = IF k = "citation" THEN input.citations ELSE {}
    BY <2>1, RefsHold
  <2>3. Within(Refs("citation", input.citations), Catalog(input))
    BY <2>1, <2>2, CatalogHolds DEF Within
  <2> QED
    BY <2>3, ClaimOverValid DEF ScopeSection
<1>2. ValidSection(SourceInventorySection(input), Catalog(input))
  BY GapValid DEF SourceInventorySection, ValidSection, Complete
<1>3. /\ ValidSection(MetricsSection(input), Catalog(input))
      /\ ValidSection(ProvenanceSection(input), Catalog(input))
  <2>1. Within(Catalog(input), Catalog(input))
    BY DEF Within
  <2> QED
    BY <2>1, ClaimOverValid DEF MetricsSection, ProvenanceSection
<1>4. ValidSection(LimitationsSection, Catalog(input))
  <2>1. Within(NoRefs, Catalog(input))
    BY DEF Within, NoRefs
  <2> QED
    BY <2>1 DEF LimitationsSection, ValidSection, Complete, ValidClaim, Claim
<1>5. ValidSection(Gap("not_available"), Catalog(input))
  BY GapValid
<1>6. DOMAIN Sections(input) = SectionNames
  BY DEF Sections
<1>7. ASSUME NEW n \in SectionNames
      PROVE  Sections(input)[n] \in {ScopeSection(input), SourceInventorySection(input),
               FindingsSection(input), GeneratedTestsSection(input), Gap("not_available"),
               ExecutionSection(input), FailureSection(input), MetricsSection(input),
               ProvenanceSection(input), LimitationsSection}
  BY DEF Sections, SectionNames
<1> QED
  BY <1>1, <1>2, <1>3, <1>4, <1>5, <1>6, <1>7, FindingsSectionValid, TestsSectionValid,
     ExecutionSectionsValid

\* The metrics section presents the whole catalogue in one claim, or none.
LEMMA MetricsValid ==
  ASSUME NEW input
  PROVE  Cardinality(MetricsSection(input).claims) = (IF Catalog(input) = NoRefs THEN 0 ELSE 1)
<1>1. MetricsSection(input).claims = ClaimOver(Catalog(input))
  BY DEF MetricsSection, Complete
<1>2. CASE Catalog(input) = NoRefs
  <2>1. ClaimOver(Catalog(input)) = {}
    BY <1>2 DEF ClaimOver
  <2> QED
    BY <1>1, <1>2, <2>1, FS_EmptySet
<1>3. CASE Catalog(input) # NoRefs
  <2>1. ClaimOver(Catalog(input)) = {Claim("observation", Catalog(input))}
    BY <1>3 DEF ClaimOver
  <2>2. Cardinality({Claim("observation", Catalog(input))}) = 1
    BY FS_Singleton
  <2> QED
    BY <1>1, <1>3, <2>1, <2>2, Zenon
<1> QED
  BY <1>2, <1>3

\* The outcomes partition the executions.
LEMMA OutcomesAddUp ==
  ASSUME NEW evidence, IsFiniteSet(evidence), \A e \in evidence : e.outcome \in Outcomes
  PROVE  /\ Cardinality({e \in evidence : e.outcome = "succeeded"})
              + Cardinality({e \in evidence : e.outcome = "failed"})
              + Cardinality({e \in evidence : e.outcome = "cancelled"}) = Cardinality(evidence)
         /\ Cardinality(Unsuccessful(evidence))
              = Cardinality({e \in evidence : e.outcome = "failed"})
                  + Cardinality({e \in evidence : e.outcome = "cancelled"})
<1> DEFINE S == {e \in evidence : e.outcome = "succeeded"}
<1> DEFINE F == {e \in evidence : e.outcome = "failed"}
<1> DEFINE C == {e \in evidence : e.outcome = "cancelled"}
<1> DEFINE U == Unsuccessful(evidence)
<1>1. /\ U = F \cup C /\ evidence = S \cup U /\ F \cap C = {} /\ S \cap U = {}
      /\ S \subseteq evidence /\ F \subseteq evidence /\ C \subseteq evidence /\ U \subseteq evidence
  BY DEF Unsuccessful, Outcomes
<1> HIDE DEF S, F, C, U
<1>2. /\ IsFiniteSet(S) /\ IsFiniteSet(F) /\ IsFiniteSet(C) /\ IsFiniteSet(U)
      /\ Cardinality(S) \in Nat /\ Cardinality(F) \in Nat /\ Cardinality(C) \in Nat
      /\ Cardinality(U) \in Nat
  BY <1>1, FS_Subset, FS_CardinalityType
<1>3. Cardinality({}) = 0
  BY FS_EmptySet
<1>4. Cardinality(F \cup C) = Cardinality(F) + Cardinality(C) - Cardinality(F \cap C)
  BY <1>2, FS_Union
<1>5. Cardinality(S \cup U) = Cardinality(S) + Cardinality(U) - Cardinality(S \cap U)
  BY <1>2, FS_Union
<1>6. Cardinality(U) = Cardinality(F) + Cardinality(C) - 0
  BY <1>1, <1>3, <1>4, Zenon
<1>7. Cardinality(evidence) = Cardinality(S) + Cardinality(U) - 0
  BY <1>1, <1>3, <1>5, Zenon
<1>8. /\ Cardinality(U) = Cardinality(F) + Cardinality(C)
      /\ Cardinality(S) + Cardinality(F) + Cardinality(C) = Cardinality(evidence)
  BY <1>2, <1>6, <1>7
<1> QED
  BY <1>8, Zenon DEF S, F, C, U

\* At most one analysis of each unsuccessful execution.
LEMMA AnalysesBounded ==
  ASSUME NEW input, ValidAnalyses(input), IsFiniteSet(input.evidence)
  PROVE  Cardinality(input.analyses) <= Cardinality(Unsuccessful(input.evidence))
<1> DEFINE A == input.analyses
<1> DEFINE U == Unsuccessful(input.evidence)
<1> DEFINE F == [a \in A |-> CHOOSE e \in U : e.job = a.job]
<1>1. \A a \in A : \E e \in U : e.job = a.job
  <2>1. ASSUME NEW a \in A PROVE \E e \in U : e.job = a.job
    <3>1. <<a.job, a.outcome, a.code>> \in {<<e.job, e.outcome, e.code>> : e \in U}
      BY DEF ValidAnalyses
    <3> HIDE DEF U
    <3> QED
      BY <3>1
  <2> QED
    BY <2>1
<1>2. \A a, b \in A : a.job = b.job => a = b
  BY DEF ValidAnalyses
<1>3. IsFiniteSet(U)
  <2>1. U \in SUBSET input.evidence
    BY DEF Unsuccessful
  <2> HIDE DEF U
  <2> QED
    BY <2>1, FS_Subset
<1> HIDE DEF A, U
<1>4. \A a \in A : F[a] \in U /\ F[a].job = a.job
  BY <1>1
<1>5. F \in [A -> U]
  BY <1>4
<1> HIDE DEF F
<1>6. F \in Injection(A, U)
  <2>1. \A a, b \in A : F[a] = F[b] => a = b
    BY <1>2, <1>4
  <2> QED
    BY <1>5, <2>1, Fun_IsInj
<1>7. Cardinality(A) <= Cardinality(U)
  BY <1>3, <1>6, FS_Injection
<1> QED
  BY <1>7 DEF A, U

\* The builder makes a valid report of every input it accepts.
THEOREM BuilderMeetsContract ==
  ASSUME NEW input, ValidInput(input), IsFiniteSet(input.evidence), NEW id
  PROVE  ValidSnapshot(Snapshot(id, input))
<1> DEFINE s == Snapshot(id, input)
<1>1. s.catalog = Catalog(input) /\ s.sections = Sections(input) /\ s.summary = Summary(input)
  BY DEF Snapshot
<1> HIDE DEF s
<1>2. ValidReport(s)
  BY <1>1, ReportValid DEF ValidReport
<1>3. ValidSummary(s.summary)
  <2> DEFINE evidence == input.evidence
  <2> DEFINE Count(o) == Cardinality({e \in evidence : e.outcome = o})
  <2> DEFINE sum == Summary(input)
  <2>1. /\ sum.outcomes["succeeded"] = Count("succeeded") /\ sum.outcomes["failed"] = Count("failed")
        /\ sum.outcomes["cancelled"] = Count("cancelled")
        /\ sum.executions = Cardinality(evidence)
        /\ sum.analyses = Cardinality(input.analyses)
    BY DEF Summary, Outcomes
  <2>2. \A e \in evidence : e.outcome \in Outcomes
    BY DEF ValidInput, ValidEvidence
  <2>3. /\ Count("succeeded") + Count("failed") + Count("cancelled") = Cardinality(evidence)
        /\ Cardinality(Unsuccessful(evidence)) = Count("failed") + Count("cancelled")
    BY <2>2, OutcomesAddUp
  <2>4. Cardinality(input.analyses) <= Cardinality(Unsuccessful(evidence))
    BY AnalysesBounded DEF ValidInput
  <2> HIDE DEF Count, sum, evidence
  <2>5. ValidSummary(sum)
    BY <2>1, <2>3, <2>4, Zenon DEF ValidSummary
  <2> QED
    BY <1>1, <2>5, Zenon DEF sum
<1>4. MetricsReconcile(s)
  <2>1. Sections(input)["metrics"] = MetricsSection(input)
    BY DEF Sections, SectionNames
  <2>2. Cardinality(MetricsSection(input).claims) = (IF Catalog(input) = NoRefs THEN 0 ELSE 1)
    BY MetricsValid
  <2> QED
    BY <1>1, <2>1, <2>2, Zenon DEF MetricsReconcile
<1>5. ValidSnapshot(s)
  BY <1>2, <1>3, <1>4 DEF ValidSnapshot
<1> QED
  BY <1>5 DEF s

-----------------------------------------------------------------------------
(* Reports.                                                                *)

EvidenceOf(r, j) ==
    [job |-> j, project |-> r.project, outcome |-> r.results[j].outcome,
     code |-> r.results[j].failure_code]
AnalysisOf(e) == [job |-> e.job, outcome |-> e.outcome, code |-> e.code, named |-> FALSE]

\* An analysis says of a result what the result says, and names no cause.
LEMMA AnalysisShows ==
  ASSUME NEW x
  PROVE  /\ FailureAnalysis(View(x)).outcome = x.outcome
         /\ FailureAnalysis(View(x)).failure_code = x.failure_code
         /\ FailureAnalysis(View(x)).root_cause = NoValue
<1>1. View(x).outcome = x.outcome /\ View(x).failure_code = x.failure_code
  BY DEF View
<1> QED
  BY <1>1 DEF FailureAnalysis

\* When evidence is shown.
LEMMA EvidenceStates ==
  ASSUME NEW jobs, NEW results
  PROVE  /\ EvidenceState(jobs, results) = "complete" <=> jobs # {} /\ jobs = results
         /\ EvidenceState(jobs, results) = "not_run" <=> jobs = {}
  BY DEF EvidenceState

\* What the generator collects.
LEMMA CollectedHolds ==
  ASSUME NEW r
  PROVE  /\ Collected(r).project = r.project /\ Collected(r).citations = r.citations
         /\ Collected(r).runs = r.runs /\ Collected(r).tests = {}
         /\ Collected(r).state = EvidenceState(r.jobs, DOMAIN r.results)
         /\ Collected(r).evidence = IF Collected(r).state = "complete"
                                    THEN {EvidenceOf(r, j) : j \in DOMAIN r.results} ELSE {}
         /\ Collected(r).analyses = {AnalysisOf(e) : e \in Unsuccessful(Collected(r).evidence)}
<1> DEFINE in == Collected(r)
<1> DEFINE An(e) == FailureAnalysis(View(r.results[e.job]))
<1>1. /\ in.project = r.project /\ in.citations = r.citations /\ in.runs = r.runs /\ in.tests = {}
      /\ in.state = EvidenceState(r.jobs, DOMAIN r.results)
  BY DEF Collected
<1>2. in.evidence = IF in.state = "complete" THEN {EvidenceOf(r, j) : j \in DOMAIN r.results} ELSE {}
  BY DEF Collected, EvidenceOf
<1>3. in.analyses = {[job |-> e.job, outcome |-> An(e).outcome, code |-> An(e).failure_code,
                      named |-> An(e).root_cause # NoValue] : e \in Unsuccessful(in.evidence)}
  BY DEF Collected
<1>4. ASSUME NEW e \in Unsuccessful(in.evidence)
      PROVE  An(e).outcome = e.outcome /\ An(e).failure_code = e.code /\ An(e).root_cause = NoValue
  <2>1. e \in in.evidence
    BY DEF Unsuccessful
  <2>2. PICK j \in DOMAIN r.results : e = EvidenceOf(r, j)
    BY <1>2, <2>1
  <2>3. e.job = j /\ e.outcome = r.results[j].outcome /\ e.code = r.results[j].failure_code
    BY <2>2 DEF EvidenceOf
  <2> QED
    BY <2>3, AnalysisShows
<1> HIDE DEF An
<1>5. in.analyses = {AnalysisOf(e) : e \in Unsuccessful(in.evidence)}
  <2>1. \A e \in Unsuccessful(in.evidence) :
          [job |-> e.job, outcome |-> An(e).outcome, code |-> An(e).failure_code,
           named |-> An(e).root_cause # NoValue] = AnalysisOf(e)
    BY <1>4 DEF AnalysisOf
  <2> HIDE DEF in
  <2> QED
    BY <1>3, <2>1
<1> QED
  BY <1>1, <1>2, <1>5

\* Each execution shown is the stored result of a job, and no job is shown twice.
LEMMA EvidenceHolds ==
  ASSUME NEW r \in ReportRequests, NEW e \in Collected(r).evidence
  PROVE  /\ e.job \in DOMAIN r.results /\ e = EvidenceOf(r, e.job)
         /\ e.project = r.project /\ e.outcome = r.results[e.job].outcome
         /\ e.outcome \in Outcomes
<1>1. PICK j \in DOMAIN r.results : e = EvidenceOf(r, j)
  <2>1. Collected(r).evidence = {EvidenceOf(r, j) : j \in DOMAIN r.results}
        \/ Collected(r).evidence = {}
    BY CollectedHolds, Zenon
  <2> QED
    BY <2>1
<1>2. e.job = j /\ e.project = r.project /\ e.outcome = r.results[j].outcome
  BY <1>1 DEF EvidenceOf
<1>3. r.results[j] \in Recorded
  BY ResultsShape
<1>4. r.results[j].outcome \in Outcomes
  BY <1>3, WorkflowAssumption, Zenon
<1> QED
  BY <1>1, <1>2, <1>4

\* The evidence of a report is finite.
LEMMA EvidenceFinite ==
  ASSUME NEW r \in ReportRequests
  PROVE  IsFiniteSet(Collected(r).evidence)
<1> DEFINE E == Collected(r).evidence
<1> DEFINE J == {e.job : e \in E}
<1> DEFINE F == [e \in E |-> e.job]
<1>1. DOMAIN r.results \subseteq Jobs
  BY ResultsShape
<1>2. \A e \in E : e.job \in DOMAIN r.results /\ e = EvidenceOf(r, e.job)
  BY EvidenceHolds
<1> HIDE DEF E
<1>3. J \in SUBSET Jobs
  BY <1>1, <1>2
<1>4. IsFiniteSet(J)
  BY <1>3, WorkflowAssumption, FS_Subset
<1>5. F \in [E -> J] /\ \A e \in E : F[e] = e.job
  OBVIOUS
<1> HIDE DEF F, J
<1>6. \A d, e \in E : F[d] = F[e] => d = e
  BY <1>2, <1>5
<1>7. F \in Injection(E, J)
  BY <1>5, <1>6, Fun_IsInj
<1>8. IsFiniteSet(E)
  BY <1>4, <1>7, FS_Injection
<1> QED
  BY <1>8 DEF E

\* Nothing but an analysis stored meanwhile makes what was collected invalid.
LEMMA InputValid ==
  ASSUME IInv, NEW r \in ReportRequests, CollectedTrue(r), r.op = "build",
         GetRuns(r.project) = r.analysed
  PROVE  ValidInput(Collected(r))
<1> DEFINE in == Collected(r)
<1>1. /\ in.project = r.project /\ in.citations = r.citations /\ in.runs = r.runs /\ in.tests = {}
      /\ in.state = EvidenceState(r.jobs, DOMAIN r.results)
      /\ in.evidence = IF in.state = "complete"
                       THEN {EvidenceOf(r, j) : j \in DOMAIN r.results} ELSE {}
      /\ in.analyses = {AnalysisOf(e) : e \in Unsuccessful(in.evidence)}
  BY CollectedHolds
<1>2. \A e \in in.evidence : /\ e.job \in DOMAIN r.results /\ e = EvidenceOf(r, e.job)
                             /\ e.project = r.project /\ e.outcome \in Outcomes
  BY EvidenceHolds
<1> HIDE DEF in
<1>3. /\ r.citations \subseteq GetCitations(r.project)
      /\ \A run \in r.analysed : run.citations \subseteq r.citations
      /\ r.runs = r.analysed
  BY DEF CollectedTrue
<1>4. ValidCitations(in)
  BY <1>1, <1>3 DEF ValidCitations, GetCitations, CitationFor
<1>5. ValidRuns(in)
  <2>1. \A run \in r.runs : \E i \in DOMAIN runs : run = runs[i] /\ runs[i].project = r.project
    BY <1>3 DEF GetRuns, Rows
  <2>2. ASSUME NEW run \in r.runs
        PROVE  /\ run.project = r.project /\ run.citations \subseteq r.citations
               /\ \A f \in run.findings : f.citations \subseteq r.citations
    <3>1. PICK i \in DOMAIN runs : run = runs[i] /\ runs[i].project = r.project
      BY <2>1
    <3>2. \A f \in run.findings : f.citations \subseteq run.citations
      BY <3>1 DEF IInv, RunsGrounded
    <3> QED
      BY <1>3, <3>1, <3>2
  <2>3. ASSUME NEW run \in r.runs, NEW other \in r.runs, run.id # other.id
        PROVE  {f.id : f \in run.findings} \cap {f.id : f \in other.findings} = {}
    <3>1. PICK i \in DOMAIN runs : run = runs[i]
      BY <2>1
    <3>2. PICK j \in DOMAIN runs : other = runs[j]
      BY <2>1
    <3> QED
      BY <2>3, <3>1, <3>2 DEF IInv, RunsGrounded
  <2> QED
    BY <1>1, <2>2, <2>3 DEF ValidRuns
<1>6. ValidTests(in)
  BY <1>1 DEF ValidTests
<1>7. ValidEvidence(in)
  <2>1. in.evidence # {} <=> in.state = "complete"
    BY <1>1, EvidenceStates
  <2>2. \A d, e \in in.evidence : d.job = e.job => d = e
    BY <1>2
  <2> QED
    BY <1>1, <1>2, <2>1, <2>2 DEF ValidEvidence
<1>8. ValidAnalyses(in)
  <2> DEFINE U == Unsuccessful(in.evidence)
  <2>1. \A e \in U : /\ AnalysisOf(e).job = e.job /\ AnalysisOf(e).outcome = e.outcome
                     /\ AnalysisOf(e).code = e.code /\ AnalysisOf(e).named = FALSE
    BY DEF AnalysisOf
  <2>2. \A d, e \in U : d.job = e.job => d = e
    BY <1>2 DEF Unsuccessful
  <2>3. in.analyses = {AnalysisOf(e) : e \in U}
    BY <1>1
  <2> HIDE DEF U
  <2>4. \A a, b \in in.analyses : a.job = b.job => a = b
    BY <2>1, <2>2, <2>3
  <2>5. \A a \in in.analyses : ~a.named
    BY <2>1, <2>3
  <2>6. {<<a.job, a.outcome, a.code>> : a \in in.analyses} = {<<e.job, e.outcome, e.code>> : e \in U}
    BY <2>1, <2>3
  <2> QED
    BY <2>4, <2>5, <2>6 DEF ValidAnalyses, U
<1>9. ValidInput(in)
  BY <1>4, <1>5, <1>6, <1>7, <1>8 DEF ValidInput
<1> QED
  BY <1>9 DEF in

\* A rejected report lacks a run stored since it began.
LEMMA RejectReportKeeps ==
  ASSUME IInv, NEW c \in Clients, RejectReport(c)
  PROVE  IInv'
<1> DEFINE q == request[c]
<1> DEFINE r == [op |-> "rejected", project |-> q.project, analysed |-> q.analysed]
<1>1. /\ q.op = "build" /\ ~Accepted(Collected(q)) /\ request' = [request EXCEPT ![c] = r]
      /\ UNCHANGED <<project, store, job, result, events, paid, faults, unexplained>>
  BY DEF RejectReport, InProgress, Continue
<1>2. q \in RequestStates /\ CollectedTrue(q)
  BY DEF IInv, TypeOK, RequestsTracked
<1>3. q \in ReportRequests
  BY <1>1, <1>2, RequestShape DEF Gathering
<1>4. q.project \in Projects /\ q.analysed \in SUBSET StoredRuns
  BY <1>3 DEF ReportRequests
<1>5. q.analysed \subseteq GetRuns(q.project)
  BY <1>1, <1>2 DEF CollectedTrue, Gathering
<1>6. GetRuns(q.project) # q.analysed
  <2> HIDE DEF q
  <2>1. ASSUME GetRuns(q.project) = q.analysed PROVE Accepted(Collected(q))
    <3>1. ValidInput(Collected(q))
      BY <1>1, <1>2, <1>3, <2>1, InputValid
    <3>2. IsFiniteSet(Collected(q).evidence)
      BY <1>3, EvidenceFinite
    <3>3. ValidSnapshot(Snapshot(0, Collected(q)))
      BY <3>1, <3>2, BuilderMeetsContract
    <3> QED
      BY <3>1, <3>3 DEF Accepted
  <2> QED
    BY <1>1, <2>1
<1>7. r.op = "rejected" /\ r.project = q.project /\ r.analysed = q.analysed
  OBVIOUS
<1>8. r \in RequestStates
  BY <1>4 DEF RequestStates
<1> HIDE DEF r
<1>10. ReadTrue(r) /\ CollectedTrue(r) /\ RejectionTrue(r)
  BY <1>5, <1>6, <1>7 DEF ReadTrue, CollectedTrue, RejectionTrue, Gathering
<1>11. /\ project' \in [Projects -> {"absent", "active", "archived"}]
       /\ faults' \in Nat /\ unexplained' \in BOOLEAN /\ paid' \in Nat /\ events' \in Nat
  BY <1>1 DEF IInv, TypeOK
<1>12. UNCHANGED <<store, job, result>>
  BY <1>1
<1> QED
  BY <1>1, <1>8, <1>10, <1>11, <1>12, LocalKeeps

\* A report counts every execution under its outcome.
LEMMA CountsAgree ==
  ASSUME NEW r \in ReportRequests, \A j \in DOMAIN r.results : r.results[j] = result[j], NEW o
  PROVE  Cardinality({e \in Collected(r).evidence : e.outcome = o})
           = Cardinality(CountedUnder({e.job : e \in Collected(r).evidence}, o))
<1> DEFINE E == Collected(r).evidence
<1> DEFINE J == {e.job : e \in E}
<1> DEFINE S == {e \in E : e.outcome = o}
<1> DEFINE T == CountedUnder(J, o)
<1> DEFINE F == [e \in S |-> e.job]
<1>1. \A e \in E : /\ e.job \in DOMAIN r.results /\ e = EvidenceOf(r, e.job)
                   /\ e.outcome = r.results[e.job].outcome
  BY EvidenceHolds
<1>2. \A j \in DOMAIN r.results : r.results[j] # NoValue
  BY ResultsShape
<1>3. IsFiniteSet(E)
  BY EvidenceFinite
<1> HIDE DEF E
<1>4. \A e \in E : result[e.job] # NoValue /\ result[e.job].outcome = e.outcome
  BY <1>1, <1>2
<1>5. \A j : j \in T <=> \E e \in S : e.job = j
  BY <1>4 DEF CountedUnder
<1>6. \A d, e \in S : d.job = e.job => d = e
  BY <1>1
<1>7. S \in SUBSET E
  OBVIOUS
<1>8. IsFiniteSet(S)
  BY <1>3, <1>7, FS_Subset
<1> HIDE DEF S, T
<1>9. F \in [S -> T] /\ \A e \in S : F[e] = e.job
  BY <1>5
<1> HIDE DEF F
<1>10. \A d, e \in S : F[d] = F[e] => d = e
  BY <1>6, <1>9
<1>11. \A j \in T : \E e \in S : F[e] = j
  BY <1>5, <1>9
<1>12. F \in Bijection(S, T)
  BY <1>9, <1>10, <1>11, Fun_IsBij
<1>13. ExistsBijection(S, T)
  BY <1>12, Zenon DEF ExistsBijection
<1>14. Cardinality(T) = Cardinality(S)
  BY <1>8, <1>13, FS_Bijection
<1> QED
  BY <1>14 DEF S, T, J, E

\* What a report row shows is true when it is stored.
LEMMA RevisionHolds ==
  ASSUME IInv, NEW r \in ReportRequests, CollectedTrue(r), r.op = "build",
         Accepted(Collected(r)), NEW id
  PROVE  RevisionTrue(RevisionRow(id, Collected(r), r))
<1> DEFINE in == Collected(r)
<1> DEFINE row == RevisionRow(id, in, r)
<1> DEFINE jobs == {e.job : e \in in.evidence}
<1>1. /\ in.project = r.project /\ in.citations = r.citations /\ in.runs = r.runs
      /\ in.state = EvidenceState(r.jobs, DOMAIN r.results)
      /\ in.evidence = IF in.state = "complete"
                       THEN {EvidenceOf(r, j) : j \in DOMAIN r.results} ELSE {}
  BY CollectedHolds
<1>2. \A e \in in.evidence : e.job \in DOMAIN r.results
  BY EvidenceHolds
<1>3. IsFiniteSet(in.evidence)
  BY EvidenceFinite
<1>4. /\ r.citations \subseteq GetCitations(r.project) /\ r.runs \subseteq GetRuns(r.project)
      /\ r.known \subseteq r.jobs /\ \A j \in DOMAIN r.results : r.results[j] = result[j]
  BY DEF CollectedTrue
<1>5. DOMAIN r.results \subseteq Jobs /\ \A j \in DOMAIN r.results : r.results[j] # NoValue
  BY ResultsShape
<1>6. \A o \in Outcomes : Cardinality({e \in in.evidence : e.outcome = o})
                            = Cardinality(CountedUnder(jobs, o))
  BY <1>4, CountsAgree
<1>7. ValidSnapshot(Snapshot(id, in))
  BY <1>3, BuilderMeetsContract DEF Accepted
<1> HIDE DEF in
<1>8. /\ row.id = id /\ row.project = in.project /\ row.snapshot = Snapshot(id, in)
      /\ row.known = r.known /\ row.analysed = r.analysed /\ row.state = in.state
  BY DEF RevisionRow
<1>9. /\ Snapshot(id, in).id = id /\ Snapshot(id, in).project = in.project
      /\ Snapshot(id, in).catalog = Catalog(in) /\ Snapshot(id, in).summary = Summary(in)
      /\ Snapshot(id, in).provenance.jobs = jobs
      /\ Snapshot(id, in).provenance.runs = {run.id : run \in in.runs}
      /\ Snapshot(id, in).sections["findings"] = FindingsSection(in)
  BY DEF Snapshot, Sections, SectionNames
<1> HIDE DEF row
<1>10. Readable(row)
  BY <1>7, <1>8, <1>9 DEF Readable
<1>11. row.project = r.project
  BY <1>1, <1>8
<1>12. row.snapshot.catalog["citation"] \subseteq GetCitations(row.project)
  BY <1>1, <1>4, <1>8, <1>9, CatalogHolds
<1>13. \A key \in row.snapshot.catalog["finding"] : key[2] \subseteq GetCitations(row.project)
  <2>1. row.snapshot.catalog["finding"] = {f.id : f \in FindingsOf(in)}
    BY <1>8, <1>9, CatalogHolds
  <2>2. ASSUME NEW f \in FindingsOf(in) PROVE f.id[2] \subseteq GetCitations(r.project)
    <3>1. PICK run \in r.runs : f \in run.findings
      BY <1>1 DEF FindingsOf
    <3>2. PICK i \in DOMAIN runs : run = runs[i] /\ runs[i].project = r.project
      BY <1>4, <3>1 DEF GetRuns, Rows
    <3> QED
      BY <3>1, <3>2 DEF IInv, RunsGrounded
  <2> QED
    BY <1>11, <2>1, <2>2
<1>14. row.snapshot.provenance.jobs = jobs
  BY <1>8, <1>9
<1>15. jobs \subseteq {j \in Jobs : result[j] # NoValue}
  BY <1>2, <1>4, <1>5
<1>16. ASSUME row.state = "complete"
       PROVE  /\ row.known \subseteq jobs
              /\ \A o \in Outcomes :
                   row.snapshot.summary.outcomes[o] = Cardinality(CountedUnder(jobs, o))
  <2>1. in.state = "complete" /\ r.jobs = DOMAIN r.results
    BY <1>1, <1>8, <1>16, EvidenceStates
  <2>2. \A j \in DOMAIN r.results : EvidenceOf(r, j) \in in.evidence /\ EvidenceOf(r, j).job = j
    BY <1>1, <2>1 DEF EvidenceOf
  <2>3. DOMAIN r.results \subseteq jobs
    BY <2>2
  <2>4. \A o \in Outcomes : Summary(in).outcomes[o] = Cardinality({e \in in.evidence : e.outcome = o})
    BY DEF Summary
  <2> HIDE DEF jobs
  <2>5. row.snapshot.summary = Summary(in)
    BY <1>8, <1>9
  <2> QED
    BY <1>4, <1>6, <1>8, <2>1, <2>3, <2>4, <2>5
<1>17. row.state = "not_run" => row.known = {}
  BY <1>1, <1>4, <1>8, EvidenceStates
<1> HIDE DEF jobs
<1>18. ShownRuns(row) = r.runs /\ row.snapshot.provenance.runs \subseteq DOMAIN runs
  <2>1. \A run \in r.runs : run.id \in Rows(runs, r.project) /\ run = runs[run.id]
    BY <1>4 DEF GetRuns, Rows, IInv, RunsGrounded
  <2>2. row.snapshot.provenance.runs = {run.id : run \in r.runs}
    BY <1>1, <1>8, <1>9
  <2>3. Rows(runs, r.project) \subseteq DOMAIN runs
    BY DEF Rows
  <2>4. {runs[i] : i \in Rows(runs, r.project) \cap {run.id : run \in r.runs}} = r.runs
    BY <2>1
  <2> QED
    BY <1>11, <2>1, <2>2, <2>3, <2>4 DEF ShownRuns
<1>19. ShowsFindings(row)
  <2>1. ShownFindings(row) = FindingsOf(in)
    BY <1>1, <1>18 DEF ShownFindings, FindingsOf
  <2>2. r.analysed \subseteq r.runs
    BY DEF CollectedTrue
  <2>3. row.snapshot.summary.findings = Cardinality(FindingsOf(in))
    BY <1>8, <1>9 DEF Summary
  <2>4. row.snapshot.sections["findings"] = FindingsSection(in)
    BY <1>8, <1>9
  <2>5. row.snapshot.sections["findings"].state = "not_run" => row.analysed = {}
    BY <1>1, <1>8, <2>2, <2>4, FindingsSectionShows
  <2>6. {<<claim.refs["finding"], claim.refs["citation"]>> :
           claim \in row.snapshot.sections["findings"].claims}
          = {<<{f.id}, f.citations>> : f \in ShownFindings(row)}
    BY <2>1, <2>4, FindingsSectionShows
  <2> QED
    BY <1>8, <1>18, <2>1, <2>2, <2>3, <2>5, <2>6 DEF ShowsFindings
<1>20. RevisionTrue(row)
  BY <1>10, <1>12, <1>13, <1>14, <1>15, <1>16, <1>17, <1>18, <1>19 DEF RevisionTrue
<1> QED
  BY <1>20 DEF row, in

\* A report is stored once its input is accepted.
LEMMA StoreReportKeeps ==
  ASSUME IInv, NEW c \in Clients, StoreReport(c)
  PROVE  IInv'
<1> DEFINE q == request[c]
<1> DEFINE r == RevisionRow(Len(reports) + 1, Collected(q), q)
<1>1. /\ q.op = "build" /\ Accepted(Collected(q)) /\ request' = [request EXCEPT ![c] = Idle]
      /\ reports' = Append(reports, r)
      /\ UNCHANGED <<project, traces, citations, runs, feedback, modelRuns, job, result, events,
                     paid, faults, unexplained>>
  BY DEF StoreReport, InProgress, Answer
<1>2. q \in RequestStates /\ CollectedTrue(q)
  BY DEF IInv, TypeOK, RequestsTracked
<1>3. q \in ReportRequests
  BY <1>1, <1>2, RequestShape DEF Gathering
<1>4. PICK row : row = r /\ reports' = Append(reports, row)
  BY <1>1
<1>5. RevisionTrue(row)
  BY <1>1, <1>2, <1>3, <1>4, RevisionHolds
<1> HIDE DEF r, q
<1>6. /\ IsTable(reports') /\ Len(reports) \in Nat /\ DOMAIN reports = 1..Len(reports)
      /\ Len(reports') = Len(reports) + 1 /\ DOMAIN reports' = 1..(Len(reports) + 1)
      /\ \A i \in DOMAIN reports : reports'[i] = reports[i]
      /\ reports'[Len(reports) + 1] = row
  BY <1>4, TableAppend DEF IInv, TypeOK
<1>7. Grows
  BY <1>1 DEF Grows
<1>8. ReportsKept'
  <2>1. ASSUME NEW i \in DOMAIN reports'
        PROVE  RevisionTrue(reports[i])'
    <3>1. PICK x : x = reports'[i]
      OBVIOUS
    <3>2. i \in DOMAIN reports \/ i = Len(reports) + 1
      BY <1>6
    <3>3. RevisionTrue(x)
      <4>1. CASE i \in DOMAIN reports
        BY <1>6, <3>1, <4>1 DEF IInv, ReportsKept
      <4>2. CASE i = Len(reports) + 1
        BY <1>5, <1>6, <3>1, <4>2
      <4> QED
        BY <3>2, <4>1, <4>2
    <3>4. RevisionTrue(x)'
      BY <1>7, <3>3, RevisionStays
    <3> QED
      BY <3>1, <3>4 DEF RevisionTrue, ShowsFindings, ShownFindings, ShownRuns, Rows
  <2> QED
    BY <2>1 DEF ReportsKept
<1>9. CitationsGrounded' /\ RunsGrounded' /\ FeedbackGrounded'
  BY <1>1, <1>7, RowsStay
<1>10. /\ IsTable(traces') /\ IsTable(runs') /\ IsTable(feedback') /\ IsTable(modelRuns')
       /\ unexplained' \in BOOLEAN
  BY <1>1 DEF IInv, TypeOK, IsTable
<1> QED
  BY <1>1, <1>6, <1>7, <1>8, <1>9, <1>10, IdleStays, StoreKeeps

-----------------------------------------------------------------------------
(* The theorems.                                                           *)

\* Nothing is stored yet, and no request is under way.
LEMMA InitHolds ==
  ASSUME Init
  PROVE  IInv
<1>1. request = [c \in Clients |-> Idle] /\ \A c \in Clients : request[c] = Idle
  BY DEF Init
<1>3. TypeOK
  <2>1. /\ IsTable(traces) /\ IsTable(runs) /\ IsTable(feedback) /\ IsTable(modelRuns)
        /\ IsTable(reports)
    BY DEF Init, IsTable
  <2>2. /\ project \in [Projects -> {"absent", "active", "archived"}]
        /\ job \in [Jobs -> JobStates] /\ result \in [Jobs -> Recorded \cup {NoValue}]
    BY DEF Init, JobStates
  <2>3. request \in [Clients -> RequestStates]
    BY <1>1, IdleTrue
  <2>4. events \in Nat /\ paid \in Nat /\ faults \in Nat /\ unexplained \in BOOLEAN
    BY DEF Init
  <2> QED
    BY <2>1, <2>2, <2>3, <2>4 DEF TypeOK
<1>5. ResultsFinal
  BY DEF Init, ResultsFinal
<1>6. RequestsTracked
  BY <1>1, IdleTrue DEF RequestsTracked
<1>7. CitationsGrounded /\ RunsGrounded /\ FeedbackGrounded /\ ReportsKept
  BY DEF Init, CitationsGrounded, RunsGrounded, FeedbackGrounded, ReportsKept
<1> QED
  BY <1>3, <1>5, <1>6, <1>7 DEF IInv

\* A step that changes nothing keeps the invariant.
LEMMA StutterKeeps ==
  ASSUME IInv, UNCHANGED vars
  PROVE  IInv'
<1>1. /\ traces' = traces /\ citations' = citations /\ runs' = runs /\ feedback' = feedback
      /\ modelRuns' = modelRuns /\ reports' = reports /\ job' = job /\ result' = result
      /\ project' = project /\ request' = request /\ events' = events /\ paid' = paid
      /\ faults' = faults /\ unexplained' = unexplained
  BY DEF vars, store
<1>2. Grows
  BY <1>1 DEF Grows
<1>3. request' \in [Clients -> RequestStates'] /\ RequestsTracked'
  BY <1>1, <1>2, RequestsKeep DEF IInv, TypeOK
<1>4. CitationsGrounded' /\ RunsGrounded' /\ FeedbackGrounded' /\ ReportsKept'
  BY <1>1, <1>2, RowsStay
<1>5. ResultsFinal'
  BY <1>1 DEF IInv, ResultsFinal
<1>6. TypeOK'
  BY <1>1, <1>3 DEF IInv, TypeOK, IsTable
<1> QED
  BY <1>3, <1>4, <1>5, <1>6 DEF IInv

\* Every step keeps the invariant.
LEMMA NextKeeps ==
  ASSUME IInv, [Next]_vars
  PROVE  IInv'
<1>1. CASE UNCHANGED vars
  BY <1>1, StutterKeeps
<1>2. CASE JobStep
  <2>1. CASE \E j \in Jobs : EnqueueJob(j) \/ EndWithoutResult(j) \/ RecordResult(j)
    BY <2>1, JobKeeps
  <2>2. ASSUME NEW c \in Clients, (\E j \in Jobs : ReadJob(c, j)) \/ ReadResult(c) \/ ReturnJob(c)
        PROVE  IInv'
    BY <2>2, JobReadKeeps, RefusalKeeps
  <2> QED
    BY <1>2, <2>1, <2>2 DEF JobStep
<1>3. ASSUME NEW c \in Clients, AnalysisStep(c) PROVE IInv'
  <2>1. CASE \E p \in Projects, query \in Queries : Retrieve(c, p, query)
    BY <2>1, RetrieveKeeps
  <2>2. CASE \/ \E p \in Projects, query \in Queries : RefuseQuery(c, p, query)
             \/ RefuseModelRun(c)
    BY <2>2, RefusalKeeps
  <2>3. CASE \E p \in Projects : InvokeModel(c, p)
    BY <2>3, InvokeModelKeeps
  <2>4. CASE \E p \in Projects : \E ks \in SUBSET citations \ {{}} : Analyze(c, p, ks)
    BY <2>4, AnalyzeKeeps
  <2>5. CASE \E p \in Projects : \E i \in DOMAIN runs : \E f \in runs[i].findings :
               GiveFeedback(c, p, i, f)
    BY <2>5, GiveFeedbackKeeps
  <2>6. CASE Cite(c)
    BY <2>6, CiteKeeps
  <2>7. CASE StoreModelRun(c)
    BY <2>7, StoreModelRunKeeps
  <2> QED
    BY <1>3, <2>1, <2>2, <2>3, <2>4, <2>5, <2>6, <2>7 DEF AnalysisStep
<1>4. ASSUME NEW c \in Clients, ReportStep(c) PROVE IInv'
  <2>1. CASE \E p \in Projects : BeginReport(c, p)
    BY <2>1, BeginReportKeeps
  <2>2. CASE CollectCitations(c) \/ CollectRuns(c) \/ CollectJobs(c) \/ CollectResults(c)
    BY <2>2, CollectStepKeeps
  <2>3. CASE StoreReport(c)
    BY <2>3, StoreReportKeeps
  <2>4. CASE RejectReport(c)
    BY <2>4, RejectReportKeeps
  <2>5. CASE ReturnRejection(c)
    BY <2>5, RefusalKeeps
  <2> QED
    BY <1>4, <2>1, <2>2, <2>3, <2>4, <2>5 DEF ReportStep
<1> QED
  BY <1>1, <1>2, <1>3, <1>4, ProjectStepKeeps DEF Next

\* The inductive invariant holds of every reachable state, for every number of
\* concurrent requests, projects, jobs and results.
THEOREM Invariance == Spec => []IInv
<1>1. Init => IInv
  BY InitHolds
<1>2. IInv /\ [Next]_vars => IInv'
  BY NextKeeps
<1> QED
  BY <1>1, <1>2, PTL DEF Spec

\* Every variable keeps its type.
THEOREM TypeCorrectness == Spec => []TypeOK
<1>1. IInv => TypeOK
  BY DEF IInv
<1> QED
  BY <1>1, Invariance, PTL

\* FindingsShownWhole: a stored report covers every analysis the project had
\* when its generation began, and presents exactly the stored findings of the
\* analyses it covers, each with its citations.
THEOREM ReportsShowFindings == Spec => []FindingsShownWhole
<1>1. IInv => FindingsShownWhole
  BY DEF IInv, ReportsKept, RevisionTrue, FindingsShownWhole
<1> QED
  BY <1>1, Invariance, PTL

\* EndedJobsShownWhole: a job is read before its result, and both are stored
\* in one transaction, so an ended job is answered as it is answered ever after.
THEOREM EndedJobsStay == Spec => []EndedJobsShownWhole
<1>1. IInv => EndedJobsShownWhole
  <2> SUFFICES ASSUME IInv PROVE EndedJobsShownWhole
    OBVIOUS
  <2>1. ASSUME NEW c \in Clients, request[c].op = "answered", request[c].status = "ended"
        PROVE  request[c].result = result[request[c].job] /\ job[request[c].job] = "ended"
    BY <2>1 DEF IInv, RequestsTracked, ReadTrue
  <2> QED
    BY <2>1 DEF EndedJobsShownWhole, InProgress
<1> QED
  BY <1>1, Invariance, PTL

\* RejectionExplained: the builder accepts whatever it collects, unless an
\* analysis was stored while it was collecting.
THEOREM RejectionsAreRaces == Spec => []RejectionExplained
<1>1. IInv => RejectionExplained
  BY DEF IInv, RequestsTracked, RejectionTrue, RejectionExplained, InProgress
<1> QED
  BY <1>1, Invariance, PTL

\* ReportFaithful: a stored report stays readable; the evidence it shows is that
\* of every job the project had when its generation began, counted under the
\* outcomes that are stored.
THEOREM ReportsStayTrue == Spec => []ReportFaithful
<1>1. IInv => ReportFaithful
  <2> SUFFICES ASSUME IInv PROVE ReportFaithful
    OBVIOUS
  <2>1. \A i \in DOMAIN reports : RevisionTrue(reports[i]) /\ Readable(reports[i])
    BY DEF IInv, ReportsKept, RevisionTrue
  <2>2. ASSUME NEW i \in DOMAIN reports
        PROVE  reports[i] \in ListReports(reports[i].project)
    BY <2>1 DEF ListReports, Rows
  <2>3. ASSUME NEW i \in DOMAIN reports
        PROVE  /\ reports[i].state = "complete" =>
                    /\ reports[i].known \subseteq reports[i].snapshot.provenance.jobs
                    /\ \A o \in Outcomes : reports[i].snapshot.summary.outcomes[o]
                         = Cardinality({j \in reports[i].snapshot.provenance.jobs :
                                          result[j] # NoValue /\ result[j].outcome = o})
               /\ reports[i].state = "not_run" => reports[i].known = {}
    BY <2>1 DEF RevisionTrue, CountedUnder
  <2> QED
    BY <2>2, <2>3 DEF ReportFaithful
<1> QED
  BY <1>1, Invariance, PTL

\* ProjectIsolation: what a project's routes answer cites that project only.
THEOREM ProjectsAreIsolated == Spec => []ProjectIsolation
<1>1. IInv => ProjectIsolation
  <2> SUFFICES ASSUME IInv PROVE ProjectIsolation
    OBVIOUS
  <2> SUFFICES ASSUME NEW p \in Projects
               PROVE  /\ \A k \in GetCitations(p) :
                           Chunk[k.chunk].project = p /\ k.chunk \in traces[k.trace].selected
                      /\ \A r \in GetRuns(p) :
                           /\ r.citations \subseteq GetCitations(p)
                           /\ \A f \in r.findings : f.citations \subseteq GetCitations(p)
                      /\ \A i \in DOMAIN runs : \A f \in runs[i].findings :
                           \A n \in ListFeedback(p, i, f.id) : n.citations \subseteq GetCitations(p)
                      /\ \A row \in ListReports(p) :
                           /\ ExportJson(row).catalog["citation"] \subseteq GetCitations(p)
                           /\ \A id \in ExportJson(row).catalog["finding"] :
                                id[2] \subseteq GetCitations(p)
                           /\ \A section \in ExportMarkdown(row) : \A claim \in section[3] :
                                claim.refs["citation"] \subseteq GetCitations(p)
    BY DEF ProjectIsolation
  <2>1. \A k \in GetCitations(p) : Chunk[k.chunk].project = p /\ k.chunk \in traces[k.trace].selected
    BY DEF IInv, CitationsGrounded, GetCitations, CitationFor, CitationReadable
  <2>2. \A r \in GetRuns(p) :
          /\ r.citations \subseteq GetCitations(p)
          /\ \A f \in r.findings : f.citations \subseteq GetCitations(p)
    BY DEF IInv, RunsGrounded, GetRuns, Rows
  <2>3. \A i, id : \A n \in ListFeedback(p, i, id) : n.citations \subseteq GetCitations(p)
    BY DEF IInv, FeedbackGrounded, ListFeedback, Rows
  <2>4. ASSUME NEW row \in ListReports(p)
        PROVE  /\ ExportJson(row).catalog["citation"] \subseteq GetCitations(p)
               /\ \A id \in ExportJson(row).catalog["finding"] : id[2] \subseteq GetCitations(p)
               /\ \A section \in ExportMarkdown(row) : \A claim \in section[3] :
                    claim.refs["citation"] \subseteq GetCitations(p)
    <3>1. row.project = p /\ RevisionTrue(row)
      <4>1. PICK i \in DOMAIN reports : row = reports[i] /\ reports[i].project = p
        BY DEF ListReports, Rows
      <4> QED
        BY <4>1 DEF IInv, ReportsKept
    <3>2. /\ row.snapshot.catalog["citation"] \subseteq GetCitations(p)
          /\ \A id \in row.snapshot.catalog["finding"] : id[2] \subseteq GetCitations(p)
      BY <3>1 DEF RevisionTrue
    <3>3. \A n \in SectionNames : \A claim \in row.snapshot.sections[n].claims :
            claim.refs["citation"] \subseteq row.snapshot.catalog["citation"]
      BY <3>1 DEF RevisionTrue, Readable, ValidSnapshot, ValidReport, ValidSection, ValidClaim,
                  Within, Kinds
    <3>4. ASSUME NEW section \in ExportMarkdown(row)
          PROVE  \E n \in SectionNames : section[3] = row.snapshot.sections[n].claims
      BY DEF ExportMarkdown
    <3>5. \A section \in ExportMarkdown(row) : \A claim \in section[3] :
            claim.refs["citation"] \subseteq GetCitations(p)
      BY <3>2, <3>3, <3>4
    <3> QED
      BY <3>2, <3>5 DEF ExportJson
  <2> QED
    BY <2>1, <2>2, <2>3, <2>4
<1> QED
  BY <1>1, Invariance, PTL
=============================================================================
