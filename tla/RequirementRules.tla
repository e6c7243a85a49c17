--------------------------- MODULE RequirementRules ---------------------------
(***************************************************************************)
(* The deterministic requirement-quality rules, and the contract of a      *)
(* requirement finding.                                                    *)
(*                                                                         *)
(* A passage is what the rules look for in its text: normative words,      *)
(* acceptance markers, the sets of vague and of load terms it uses, a      *)
(* digit, action, authorization and error words, and its must-statement.   *)
(***************************************************************************)
EXTENDS Naturals, FiniteSets

Categories == {"ambiguity", "contradiction", "missing_acceptance_criteria",
               "validation_gap", "authorization_gap", "error_handling_gap",
               "state_transition_gap", "requirements_contract_mismatch",
               "unmapped_requirement", "unmapped_operation", "security_risk",
               "performance_risk", "unsupported_claim"}
Severities == {"critical", "high", "medium", "low", "info"}

\* _supported_finding: the id is a hash of the rule and the cited citations,
\* and of nothing else.
Finding(rule, severity, term, cited) ==
    [id |-> <<rule, cited>>, category |-> rule, severity |-> severity, term |-> term,
     citations |-> cited, unsupported |-> FALSE]

\* The findings each rule makes of one citation k of passage t
MissingCriteria(k, t) ==
    IF t.normative /\ ~t.acceptance
    THEN {Finding("missing_acceptance_criteria", "medium", "", {k})} ELSE {}

\* One finding per vague term, unless a number bounds the statement
\* (_has_measurable_bound)
Ambiguities(k, t) ==
    IF t.measurable THEN {} ELSE {Finding("ambiguity", "medium", term, {k}) : term \in t.vague}

AuthorizationGap(k, t) ==
    IF t.action /\ ~t.authorization
    THEN {Finding("authorization_gap", "high", "", {k})} ELSE {}

ErrorHandlingGap(k, t) ==
    IF t.action /\ ~t.error THEN {Finding("error_handling_gap", "medium", "", {k})} ELSE {}

PerformanceRisks(k, t) ==
    IF t.measurable THEN {}
    ELSE {Finding("performance_risk", "medium", term, {k}) : term \in t.load}

\* _must_statement: the passages whose whole text is "<subject> must [not] <predicate>"
Opposite(t, u) ==
    /\ t.must.stated /\ u.must.stated
    /\ t.must.subject = u.must.subject /\ t.must.predicate = u.must.predicate
    /\ t.must.negative # u.must.negative

Contradictions(ks, passage) ==
    {Finding("contradiction", "high", "", pair) :
       pair \in {s \in SUBSET ks :
                   \E k, l \in ks : s = {k, l} /\ Opposite(passage[k], passage[l])}}

\* analyze_citations
AnalyzeCitations(ks, passage) ==
    Contradictions(ks, passage)
      \cup UNION {MissingCriteria(k, passage[k]) \cup Ambiguities(k, passage[k])
                    \cup AuthorizationGap(k, passage[k]) \cup ErrorHandlingGap(k, passage[k])
                    \cup PerformanceRisks(k, passage[k]) : k \in ks}

-----------------------------------------------------------------------------
(* validate_requirement_finding.                                           *)

\* _validate_evidence_state: an unsupported finding says so and shows nothing.
EvidenceStateValid(f) ==
    IF f.unsupported
    THEN f.citations = {} /\ f.category = "unsupported_claim" /\ f.severity = "info"
    ELSE f.citations # {} /\ f.category # "unsupported_claim"

\* The closed taxonomies and the evidence state; texts are non-empty.
FindingValid(f) ==
    f.category \in Categories /\ f.severity \in Severities /\ EvidenceStateValid(f)

\* validate_requirement_findings: ids are unique
FindingsValid(fs) ==
    /\ fs # {}
    /\ \A f \in fs : FindingValid(f)
    /\ \A f, g \in fs : f.id = g.id => f = g
=============================================================================
