-------------------------- MODULE RestrictedRequest --------------------------
(***************************************************************************)
(* One restricted request: what the executor checks of a claimed plan, what *)
(* the pinned transport lets out and takes in, how the assertions judge the *)
(* response, and how the evidence is redacted, converted and accepted       *)
(* before it is stored (restricted_execution.py,                            *)
(* restricted_http_transport.py, execution_worker.py, execution_results.py).*)
(*                                                                          *)
(* A response body is the JSON value it parses to.                          *)
(***************************************************************************)
EXTENDS ExecutionPlans

CONSTANTS Sensitive(_),  \* _is_sensitive_name
          PartOf(_, _),  \* `in`, of two strings
          Tokens(_),     \* the reference tokens of a JSON pointer
          Redactor,      \* "[REDACTED]"
          Missing,       \* _MISSING
          Sandbox        \* the host the transport is compiled for

-----------------------------------------------------------------------------
(* The executor's own checks.                                              *)

\* _FORBIDDEN_REQUEST_HEADERS, of the executor and of the transport
ForbiddenRequestHeaders == ForbiddenHeaderNames \cup {"x-forwarded-for"}

\* _validated_headers
HeadersPermitted(headers) ==
    \A i \in DOMAIN headers : Lower(headers[i][1].s) \notin ForbiddenRequestHeaders

\* _plan_limits_match
PlanLimitsMatch(plan) ==
    /\ plan.estimate.requests = 1
    /\ plan.estimate.assertions = Len(plan.case.assertions)
    /\ plan.estimate.assertions <= plan.limits.assertions
    /\ plan.estimate.response = plan.limits.response
    /\ plan.estimate.duration = plan.limits.timeout
    /\ plan.estimate.body = BodySize(plan.case.request.body)

\* _job_matches_plan; a job and an approval carry the plan's id and hash.
JobMatchesPlan(job, approval, plan) ==
    /\ job.plan_id = plan.id /\ job.plan_hash = plan.hash
    /\ approval.plan_id = plan.id /\ approval.plan_hash = plan.hash

\* execute, from the claim to the last check before anything is resolved
PlanRefusal(job, approval, plan, registry) ==
    FirstRefusal(<<<<~PlanValid(plan, registry), "plan_invalid">>,
                   <<~JobMatchesPlan(job, approval, plan), "approval_mismatch">>,
                   <<~PlanLimitsMatch(plan), "plan_limit_exceeded">>,
                   <<~HeadersPermitted(plan.case.request.headers), "forbidden_header">>,
                   <<BodySize(plan.case.request.body) > plan.limits.body, "plan_limit_exceeded">>>>)

\* execute: the resolved target is still the plan's.
TargetDenied(plan, registry, first, second) ==
    \/ TargetRefusal(registry, plan.target_id, first, second) # "ok"
    \/ Origin(Registered(registry, plan.target_id)) # plan.target_base_url

\* _request_url
RequestUrl(plan) == [plan.target_base_url EXCEPT !.path = plan.case.request.path]

-----------------------------------------------------------------------------
(* The pinned transport.                                                   *)

\* _validated_origin
OriginPinned(url) ==
    /\ url.scheme = "https" /\ url.host = Sandbox
    /\ url.port \in {-1, 443} /\ ~url.userinfo /\ ~url.fragment

\* _validate_request
RequestPermitted(headers, timeout, limit, address) ==
    /\ timeout > 0 /\ limit > 0
    /\ address.kind # "text"
    /\ HeadersPermitted(headers)

\* PinnedAddressNetworkBackend.connect_tcp: the address replaces the host.
ConnectsTo(host, port, address) == IF host = Sandbox /\ port = 443 THEN address ELSE Refused

\* _remaining_timeout: every operation shares the request's deadline.
RemainingTimeout(deadline, now, requested) ==
    IF deadline - now <= 0 THEN Refused
    ELSE IF requested # Null /\ requested < deadline - now THEN requested ELSE deadline - now

\* _read_bounded_raw_body, over the sizes of the chunks
ReadBounded(chunks, limit) ==
    FoldLeft(LAMBDA size, chunk : IF size + chunk > limit + 1 THEN limit + 1 ELSE size + chunk,
             0, chunks)

\* send, with what the network does: the response, or the failure it is
\* reported as
TransportSend(url, headers, timeout, limit, address, net) ==
    IF \/ ~OriginPinned(url) \/ ~RequestPermitted(headers, timeout, limit, address)
       \/ net.event = "error" \/ (net.event = "response" /\ net.encoding # "identity")
    THEN [code |-> "transport_error"]
    ELSE IF net.event = "timeout" \/ RemainingTimeout(timeout, net.elapsed, Null) = Refused
    THEN [code |-> "transport_timeout"]
    ELSE [code |-> "ok", status |-> net.status, headers |-> net.headers, elapsed |-> net.elapsed,
          body |-> net.body, size |-> ReadBounded(net.chunks, limit)]

\* _valid_transport_response, as far as a response can fail it
ResponseValid(response) == response.status \in 100..599

-----------------------------------------------------------------------------
(* Assertions.                                                             *)

\* _apply_operator; a header's value is the list of its values.
ApplyOperator(value, operator, expected) ==
    CASE operator = "exists" -> value # Missing
      [] operator # "exists" /\ value = Missing -> FALSE
      [] operator = "equals" /\ value # Missing ->
           IF value.t = "values" THEN \E i \in DOMAIN value.v : PyEqual(value.v[i], expected)
           ELSE PyEqual(value, expected)
      [] operator = "contains" /\ value # Missing ->
           \/ value.t = "text" /\ expected.t = "text" /\ PartOf(expected.v.s, value.v.s)
           \/ value.t \in {"list", "values"} /\ \E i \in DOMAIN value.v : PyEqual(value.v[i], expected)
           \/ value.t = "map" /\ \E i \in DOMAIN value.v :
                                   expected.t = "text" /\ value.v[i][1] = expected.v
      [] OTHER -> FALSE

\* _response_headers and the look-up
HeaderValues(headers, name) ==
    LET held == SelectSeq(headers, LAMBDA h : Lower(h[1].s) = Lower(name)) IN
    IF held = << >> THEN Missing
    ELSE [t |-> "values", v |-> [i \in DOMAIN held |-> [t |-> "text", v |-> held[i][2]]]]

\* _json_pointer; a token is its text and, if it is one, its array index.
Step(current, token) ==
    IF current = Missing THEN Missing
    ELSE LET members == IF current.t = "map"
                        THEN SelectSeq(current.v, LAMBDA m : m[1].s = token.s) ELSE << >>
         IN  CASE current.t = "map" /\ members # << >> -> members[1][2]
               [] current.t = "list" /\ token.index \in 0..(Len(current.v) - 1) ->
                    current.v[token.index + 1]
               [] OTHER -> Missing
JsonPointer(document, tokens) == FoldLeft(Step, document, tokens)

\* _parse_json_object_or_array
Parsed(body) == IF body.t \in {"map", "list"} THEN body ELSE Missing

\* _evaluate_assertion
Evaluate(a, response) ==
    CASE a.target = "status_code" -> PyEqual([t |-> "int", v |-> response.status], a.expected)
      [] a.target = "response_time_ms" ->
           IsPositiveInteger(a.expected) /\ response.elapsed <= a.expected.v
      [] a.target = "response_header" ->
           ApplyOperator(HeaderValues(response.headers, a.selector.s), a.operator, a.expected)
      [] a.target = "json_body" ->
           ApplyOperator(JsonPointer(Parsed(response.body), Tokens(a.selector.s)),
                         a.operator, a.expected)

AllPass(assertions, response) ==
    \A i \in DOMAIN assertions : Evaluate(assertions[i], response)

\* execute, from a transport answer to the failure code; "ok" is a success
ResponseVerdict(plan, response) ==
    FirstRefusal(<<<<~ResponseValid(response), "transport_error">>,
                   <<response.size > plan.limits.response, "response_too_large">>,
                   <<response.status \in 300..399, "redirect_response">>,
                   <<~AllPass(plan.case.assertions, response), "assertions_failed">>>>)

-----------------------------------------------------------------------------
(* Evidence.                                                               *)

RedactedText == [t |-> "text", v |-> Text(Redactor)]

\* _redact_json of the executor: values under a sensitive name
RECURSIVE RedactJson(_)
RedactJson(x) ==
    CASE x = Missing -> [t |-> "null", v |-> 0]
      [] x # Missing /\ x.t = "map" ->
           [x EXCEPT !.v = [i \in DOMAIN @ |->
              <<@[i][1], IF Sensitive(@[i][1].s) THEN RedactedText ELSE RedactJson(@[i][2])>>]]
      [] x # Missing /\ x.t = "list" -> [x EXCEPT !.v = [i \in DOMAIN @ |-> RedactJson(@[i])]]
      [] OTHER -> x

\* _redact_headers and the query of _redact_url
RedactPairs(pairs) ==
    [i \in DOMAIN pairs |->
       <<pairs[i][1], IF Sensitive(pairs[i][1].s) THEN Text(Redactor) ELSE pairs[i][2]>>]

\* RedactedRequestEvidence
RequestEvidence(plan) ==
    [method |-> plan.case.request.method, query |-> RedactPairs(plan.case.request.query),
     headers |-> RedactPairs(plan.case.request.headers),
     json |-> RedactJson(IF plan.case.request.body = Null THEN Missing ELSE plan.case.request.body)]

\* _response_evidence
ResponseEvidence(response, include_json) ==
    [status |-> response.status, headers |-> RedactPairs(response.headers),
     json |-> RedactJson(IF include_json THEN Parsed(response.body) ELSE Missing),
     size |-> response.size, elapsed |-> response.elapsed]

\* _redact_json of the worker refuses a number that is not finite.
RECURSIVE Finite(_)
Finite(x) ==
    CASE x.t = "map" -> \A i \in DOMAIN x.v : Finite(x.v[i][2])
      [] x.t = "list" -> \A i \in DOMAIN x.v : Finite(x.v[i])
      [] OTHER -> x.t # "nan"

\* execution_result_payload: headers become lists of two texts.
HeaderList(pairs) ==
    [t |-> "list", v |-> [i \in DOMAIN pairs |->
       [t |-> "list", v |-> <<[t |-> "text", v |-> pairs[i][1]], [t |-> "text", v |-> pairs[i][2]]>>]]]
EvidencePayload(evidence) ==
    IF Finite(evidence.json)
    THEN [t |-> "map", v |-> <<<<Text("headers"), HeaderList(RedactPairs(evidence.headers))>>,
                               <<Text("json_body"), RedactJson(evidence.json)>>>>]
    ELSE Refused

\* The outcome and its code agree: execution_worker._failure_code and
\* execution_results._validated_failure_code.
CodeAgrees(outcome, code) == (outcome = "succeeded") <=> (code = Null)

\* _require_redacted_sensitive_values: also a list of two that begins with a
\* sensitive name
RECURSIVE RequireRedacted(_)
RequireRedacted(x) ==
    CASE x.t = "map" ->
           \A i \in DOMAIN x.v :
             /\ Sensitive(x.v[i][1].s) => x.v[i][2] = RedactedText
             /\ RequireRedacted(x.v[i][2])
      [] x.t = "list" ->
           /\ ~(/\ Len(x.v) = 2 /\ x.v[1].t = "text" /\ Sensitive(x.v[1].v.s)
                /\ x.v[2] # RedactedText)
           /\ \A i \in DOMAIN x.v : RequireRedacted(x.v[i])
      [] OTHER -> TRUE

\* _validate_payload
PayloadAccepted(outcome, code, sends, evidence) ==
    /\ sends \in {0, 1}
    /\ CodeAgrees(outcome, code)
    /\ \A e \in evidence : e # Refused /\ RequireRedacted(e)

\* _matches_payload: recording the same result again returns the stored one,
\* another one is refused.
RecordAgain(stored, payload) == IF stored = payload THEN stored ELSE Refused
=============================================================================
