--------------------------- MODULE ExecutionEvidence ---------------------------
(***************************************************************************)
(* What the routes make of a stored execution result: the re-redacted      *)
(* evidence view, and the failure analysis that never names a root cause.  *)
(*                                                                         *)
(* Evidence is the set of the leaves of its JSON object, each with the     *)
(* path of names that leads to it; the path of a [name, value] pair ends   *)
(* with the name.  Stored evidence is JSON the executor rendered, so it     *)
(* always parses.                                                          *)
(***************************************************************************)
EXTENDS Naturals, Sequences, SequencesExt, FiniteSets

CONSTANTS SensitiveNames,   \* names _is_sensitive_name finds a secret word in
          Redacted,         \* _REDACTED_VALUE
          NoValue           \* null

\* _redacted_mapping, _redacted_value: everything under a sensitive name
\* becomes one redacted leaf.
RedactedLeaf(leaf) ==
    LET hits == {i \in DOMAIN leaf.path : leaf.path[i] \in SensitiveNames}
        first == CHOOSE i \in hits : \A j \in hits : i <= j
    IN  IF hits = {} THEN leaf ELSE [path |-> SubSeq(leaf.path, 1, first), value |-> Redacted]

Redaction(evidence) == {RedactedLeaf(leaf) : leaf \in evidence}

\* _response_integer: absent, or a number that is not negative
ResponseInteger(response, name) ==
    IF \E leaf \in response : leaf.path = <<name>>
    THEN (CHOOSE leaf \in response : leaf.path = <<name>>).value
    ELSE NoValue

\* execution_evidence_view_from_result; assertions is the sequence of their
\* verdicts.
View(result) ==
    [outcome |-> result.outcome, failure_code |-> result.failure_code,
     assertions |-> result.assertions, sends |-> result.sends,
     response |-> Redaction(result.response),
     status |-> ResponseInteger(Redaction(result.response), "status_code")]

-----------------------------------------------------------------------------
(* failure_analysis.                                                       *)

TransportFailures == {"transport_timeout", "transport_error"}
PolicyFailures == {"invalid_claim", "approval_mismatch", "approval_expired",
                   "approval_not_consumed", "plan_invalid", "plan_limit_exceeded",
                   "target_denied", "forbidden_header"}
ResponseFailures == {"response_too_large", "redirect_response", "assertions_failed"}
FailureCodes == TransportFailures \cup PolicyFailures \cup ResponseFailures \cup {"cancelled"}

\* _validate_evidence and _failure_code
Analysable(view) ==
    /\ view.outcome \in {"failed", "cancelled"}
    /\ view.sends \in {0, 1}
    /\ view.failure_code \in FailureCodes

\* _observations: facts of the result only
FailedAssertions(view) == Len(SelectSeq(view.assertions, LAMBDA passed : ~passed))

Observations(view) ==
    {"terminal_outcome", "recorded_failure_code", "transport_send_count"}
      \cup (IF view.status # NoValue THEN {"response_status_code"} ELSE {})
      \cup (IF FailedAssertions(view) > 0 THEN {"failed_assertion_count"} ELSE {})

\* _guidance
Hypothesis(code) ==
    CASE code \in TransportFailures -> "transport_path_or_target_unavailable"
      [] code \in PolicyFailures -> "execution_policy_precondition_not_met"
      [] code = "cancelled" -> "cancellation_requested_before_completion"
      [] code \in ResponseFailures -> "target_response_did_not_match_approved_expectations"

\* analyze_execution_failure
FailureAnalysis(view) ==
    [outcome |-> view.outcome, failure_code |-> view.failure_code, root_cause |-> NoValue,
     observations |-> Observations(view), hypothesis |-> Hypothesis(view.failure_code)]

-----------------------------------------------------------------------------
(* The three routes that read a job and then its result.                   *)

NoAnswer(status) == [status |-> status]

\* get_execution_job
JobAnswer(state, result) == [status |-> 200, state |-> state, result |-> result]

\* get_execution_evidence
EvidenceAnswer(result) ==
    IF result = NoValue THEN NoAnswer(404) ELSE [status |-> 200, evidence |-> View(result)]

\* get_execution_failure_analysis
FailureAnswer(result) ==
    CASE result = NoValue -> NoAnswer(404)
      [] result # NoValue /\ ~Analysable(View(result)) -> NoAnswer(409)
      [] OTHER -> [status |-> 200, analysis |-> FailureAnalysis(View(result))]
=============================================================================
