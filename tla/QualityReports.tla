--------------------------- MODULE QualityReports ---------------------------
(***************************************************************************)
(* The canonical quality report: what build_quality_report_snapshot makes  *)
(* of the collected evidence, and the contracts that evidence and report   *)
(* must satisfy before a revision is stored or read back.                  *)
(*                                                                         *)
(* Texts, timestamps, version strings and the canonical JSON are left out: *)
(* a report is its catalogue, its sections, its provenance and its         *)
(* summary.  A claim is its kind and the references it presents; its id is *)
(* its section and position, unique by construction.                       *)
(***************************************************************************)
EXTENDS Naturals, FiniteSets

\* QualityReportSectionName
SectionNames == {"scope", "source_inventory", "findings", "generated_tests",
                 "reviewed_tests", "traceability", "execution_evidence",
                 "failure_analysis", "metrics", "provenance", "limitations"}

\* QualityReportEvidenceKind: the five kinds the builder catalogues; no claim
\* refers to the three others.
Kinds == {"citation", "finding", "test_case", "execution_result", "failure_analysis"}

\* Sets of QualityReportEvidenceReference, by kind
NoRefs == [k \in Kinds |-> {}]
Refs(kind, ids) == [NoRefs EXCEPT ![kind] = ids]
Plus(refs, more) == [k \in Kinds |-> refs[k] \cup more[k]]
Within(refs, catalog) == \A k \in Kinds : refs[k] \subseteq catalog[k]

Outcomes == {"succeeded", "failed", "cancelled"}
Unsuccessful(evidence) == {e \in evidence : e.outcome \in {"failed", "cancelled"}}
FindingsOf(input) == UNION {r.findings : r \in input.runs}

-----------------------------------------------------------------------------
(* _validate_input, part by part.                                          *)

ValidCitations(input) ==
    \A c \in input.citations : c.project = input.project

ValidRuns(input) ==
    /\ \A r \in input.runs :
         /\ r.project = input.project
         /\ r.citations \subseteq input.citations
         /\ \A f \in r.findings : f.citations \subseteq input.citations
    /\ \A r, s \in input.runs :
         r.id # s.id => {f.id : f \in r.findings} \cap {f.id : f \in s.findings} = {}

ValidTests(input) ==
    /\ \A t, u \in input.tests : t.id = u.id => t = u
    /\ \A t \in input.tests : /\ \E f \in FindingsOf(input) : f.id = t.finding
                              /\ t.citations \subseteq input.citations

ValidEvidence(input) ==
    /\ (input.evidence # {}) <=> (input.state = "complete")
    /\ \A e \in input.evidence : e.project = input.project /\ e.outcome \in Outcomes
    /\ \A d, e \in input.evidence : d.job = e.job => d = e

\* One analysis of each unsuccessful execution, under its outcome and failure
\* code, that asserts no root cause.
ValidAnalyses(input) ==
    /\ \A a, b \in input.analyses : a.job = b.job => a = b
    /\ {<<a.job, a.outcome, a.code>> : a \in input.analyses}
         = {<<e.job, e.outcome, e.code>> : e \in Unsuccessful(input.evidence)}
    /\ \A a \in input.analyses : ~a.named

ValidInput(input) ==
    /\ ValidCitations(input) /\ ValidRuns(input) /\ ValidTests(input)
    /\ ValidEvidence(input) /\ ValidAnalyses(input)

-----------------------------------------------------------------------------
Catalog_CitedOnly(input) ==
    [k \in Kinds |->
       CASE k = "citation" -> UNION {f.citations : f \in FindingsOf(input)}
         [] k = "finding" -> {f.id : f \in FindingsOf(input)}
         [] k = "test_case" -> {t.id : t \in input.tests}
         [] k = "execution_result" -> {e.job : e \in input.evidence}
         [] k = "failure_analysis" -> {a.job : a \in input.analyses}]

\* _evidence_catalog: a failure analysis is catalogued under its result.
Catalog(input) ==
    [k \in Kinds |->
       CASE k = "citation" -> input.citations
         [] k = "finding" -> {f.id : f \in FindingsOf(input)}
         [] k = "test_case" -> {t.id : t \in input.tests}
         [] k = "execution_result" -> {e.job : e \in input.evidence}
         [] k = "failure_analysis" -> {a.job : a \in input.analyses}]

\* _summary
Summary(input) ==
    [runs |-> Cardinality(input.runs),
     findings |-> Cardinality(FindingsOf(input)),
     tests |-> Cardinality(input.tests),
     executions |-> Cardinality(input.evidence),
     outcomes |-> [o \in Outcomes |->
                     Cardinality({e \in input.evidence : e.outcome = o})],
     analyses |-> Cardinality(input.analyses)]

-----------------------------------------------------------------------------
(* The eleven sections.                                                    *)

Complete(claims) == [state |-> "complete", claims |-> claims]
Gap(state) == [state |-> state, claims |-> {}]

\* _supported_claim, _unsupported_claim
Claim(kind, refs) == [kind |-> kind, refs |-> refs]

\* One claim presenting all of refs, or none when there is nothing to present.
ClaimOver(refs) == IF refs = NoRefs THEN {} ELSE {Claim("observation", refs)}

ScopeSection(input) == Complete(ClaimOver(Refs("citation", input.citations)))

\* The selected versions are those of the citations.
SourceInventorySection(input) ==
    IF input.citations = {} THEN Gap("not_available") ELSE Complete({})

FindingsSection_NothingFound(input) ==
    IF FindingsOf(input) = {}
    THEN Gap("not_run")
    ELSE Complete({Claim("analysis", Plus(Refs("finding", {f.id}),
                                           Refs("citation", f.citations))) :
                     f \in FindingsOf(input)})

FindingsSection(input) ==
    IF input.runs = {}
    THEN Gap("not_run")
    ELSE Complete({Claim("analysis", Plus(Refs("finding", {f.id}),
                                           Refs("citation", f.citations))) :
                     f \in FindingsOf(input)})

GeneratedTestsSection(input) ==
    IF input.tests = {}
    THEN Gap("not_run")
    ELSE Complete({Claim("recommendation",
                         Plus(Refs("test_case", {t.id}),
                              Plus(Refs("finding", {t.finding}),
                                   Refs("citation", t.citations)))) : t \in input.tests})

ExecutionSection(input) ==
    IF input.evidence = {}
    THEN Gap(IF input.state = "not_run" THEN "not_run" ELSE "not_available")
    ELSE Complete({Claim("observation", Refs("execution_result", {e.job})) :
                     e \in input.evidence})

FailureSection(input) ==
    IF input.analyses # {}
    THEN Complete({Claim("hypothesis", Plus(Refs("execution_result", {a.job}),
                                             Refs("failure_analysis", {a.job}))) :
                     a \in input.analyses})
    ELSE Gap(CASE input.evidence # {} -> "not_applicable"
               [] input.evidence = {} /\ input.state = "not_run" -> "not_run"
               [] OTHER -> "not_available")

MetricsSection(input) == Complete(ClaimOver(Catalog(input)))
ProvenanceSection(input) == Complete(ClaimOver(Catalog(input)))
LimitationsSection == Complete({Claim("unsupported", NoRefs)})

Sections(input) ==
    [n \in SectionNames |->
       CASE n = "scope" -> ScopeSection(input)
         [] n = "source_inventory" -> SourceInventorySection(input)
         [] n = "findings" -> FindingsSection(input)
         [] n = "generated_tests" -> GeneratedTestsSection(input)
         [] n \in {"reviewed_tests", "traceability"} -> Gap("not_available")
         [] n = "execution_evidence" -> ExecutionSection(input)
         [] n = "failure_analysis" -> FailureSection(input)
         [] n = "metrics" -> MetricsSection(input)
         [] n = "provenance" -> ProvenanceSection(input)
         [] n = "limitations" -> LimitationsSection]

\* build_quality_report_snapshot, for an input that is valid
Snapshot(id, input) ==
    [id |-> id, project |-> input.project, catalog |-> Catalog(input),
     sections |-> Sections(input), summary |-> Summary(input),
     provenance |-> [runs |-> {r.id : r \in input.runs},
                     tests |-> {t.id : t \in input.tests},
                     jobs |-> {e.job : e \in input.evidence}]]

-----------------------------------------------------------------------------
(* validate_quality_report and validate_quality_report_evidence_snapshot.  *)

\* _claim and _validate_claim_state
ValidClaim(c, catalog) ==
    /\ Within(c.refs, catalog)
    /\ (c.kind = "unsupported") <=> (c.refs = NoRefs)

\* _section and _validate_section_state
ValidSection(section, catalog) ==
    /\ section.state = "complete" \/ section.claims = {}
    /\ \A c \in section.claims : ValidClaim(c, catalog)

\* _validate_section_set: every section exactly once
ValidReport(s) ==
    /\ DOMAIN s.sections = SectionNames
    /\ \A n \in SectionNames : ValidSection(s.sections[n], s.catalog)

\* _snapshot_summary
ValidSummary(summary) ==
    /\ summary.outcomes["succeeded"] + summary.outcomes["failed"] + summary.outcomes["cancelled"]
         = summary.executions
    /\ summary.analyses <= summary.outcomes["failed"] + summary.outcomes["cancelled"]

\* _validate_metrics_reconciliation
MetricsReconcile(s) ==
    Cardinality(s.sections["metrics"].claims) = (IF s.catalog = NoRefs THEN 0 ELSE 1)

\* validate_quality_report_evidence_snapshot
ValidSnapshot(s) == ValidReport(s) /\ ValidSummary(s.summary) /\ MetricsReconcile(s)

\* _stored_revision_from_record: what a read of a stored revision requires of
\* its row; the hashes agree because the row keeps the canonical JSON.
Readable(row) ==
    /\ ValidSnapshot(row.snapshot)
    /\ row.id = row.snapshot.id
    /\ row.project = row.snapshot.project
=============================================================================
