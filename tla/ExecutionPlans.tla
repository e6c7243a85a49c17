--------------------------- MODULE ExecutionPlans ---------------------------
(***************************************************************************)
(* Canonical execution plans and the approval records that bind them: how  *)
(* a plan is built from a generated test and a registered target, what     *)
(* makes it valid again wherever it is read, and what an approval row must *)
(* satisfy to be used (target_registry.py, execution_plans.py,             *)
(* execution_approvals.py).                                                *)
(*                                                                         *)
(* A URL is the record of its parts.  A hash is the value it covers and a  *)
(* plan id is its hash; the size of a body is the number of its members.   *)
(***************************************************************************)
EXTENDS GeneratedTests

CONSTANTS MaxTimeout, MaxRequestBody, MaxResponse, MaxPlanAssertions,
          MaxComment

-----------------------------------------------------------------------------
(* The target registry.                                                    *)

TargetIds == {"synthetic-order-api"}

\* The first of a sequence of <<condition, refusal>> that applies, or "ok"
FirstRefusal(checks) ==
    LET applies == SelectSeq(checks, LAMBDA c : c[1])
    IN  IF applies = << >> THEN "ok" ELSE applies[1][2]

\* `parsed.port or DEFAULT_HTTPS_PORT`: port 0 is read as no port.
PortOf(url) == IF url.port \in {-1, 0} THEN 443 ELSE url.port

\* _validate_hostname
HostRefusal(host) ==
    FirstRefusal(<<<<host.form = "metadata", "metadata_target_forbidden">>,
                   <<host.form = "ip", "literal_ip_forbidden">>,
                   <<host.form = "alternate", "alternate_ip_notation_forbidden">>>>)

\* _parse_url and _parse_target_origin: which boundary refuses the target
OriginRefusal(target) ==
    LET url == target.base_url IN
    FirstRefusal(<<<<target.schema # "target-registry/v1", "malformed_target_url">>,
                   <<target.redirects, "redirects_must_be_disabled">>,
                   <<~url.wellformed, "malformed_target_url">>,
                   <<url.scheme # "https", "https_required">>,
                   <<url.userinfo, "userinfo_forbidden">>,
                   <<url.query \/ url.fragment, "query_or_fragment_forbidden">>,
                   <<url.path \notin {"", "/"}, "target_path_forbidden">>,
                   <<HostRefusal(url.host) # "ok", HostRefusal(url.host)>>,
                   <<PortOf(url) # 443, "nonstandard_https_port">>>>)

\* f"https://{hostname}", the hostname in lower case and without a final dot
CanonicalUrl(host) ==
    [wellformed |-> TRUE, scheme |-> "https", userinfo |-> FALSE, query |-> FALSE,
     fragment |-> FALSE, path |-> "", port |-> -1, host |-> [host EXCEPT !.shouted = FALSE]]
Origin(target) == CanonicalUrl(target.base_url.host)

\* TargetRegistry.__post_init__
RegistryRefusal(targets) ==
    LET unusable == SelectSeq(targets, LAMBDA t : OriginRefusal(t) # "ok") IN
    FirstRefusal(<<<<targets = << >>, "empty_registry">>,
                   <<~Distinct([i \in DOMAIN targets |-> targets[i].id]), "duplicate_target_id">>,
                   <<unusable # << >>, IF unusable = << >> THEN "ok" ELSE OriginRefusal(unusable[1])>>>>)

\* TargetRegistry.get
Registered(registry, id) ==
    LET found == SelectSeq(registry, LAMBDA t : t.id = id)
    IN  IF id \in TargetIds /\ found # << >> THEN found[1] ELSE Refused

\* _validated_public_answers, which returns the set of addresses
AnswersRefusal(answers) ==
    FirstRefusal(<<<<answers = {}, "empty_resolver_answer">>,
                   <<\E a \in answers : a.kind = "text", "invalid_resolver_answer">>,
                   <<\E a \in answers : a.kind = "reserved", "restricted_resolver_answer">>>>)

\* validate_registered_target: both resolutions are public, and the same.
TargetRefusal(registry, id, first, second) ==
    LET target == Registered(registry, id) IN
    IF target = Refused THEN "unknown_target_id"
    ELSE FirstRefusal(<<<<OriginRefusal(target) # "ok", OriginRefusal(target)>>,
                        <<AnswersRefusal(first) # "ok", AnswersRefusal(first)>>,
                        <<AnswersRefusal(second) # "ok", AnswersRefusal(second)>>,
                        <<first # second, "dns_rebinding_detected">>>>)

-----------------------------------------------------------------------------
(* Plans.                                                                  *)

\* _require_bounded_positive_integer, _validated_limits
LimitsValid(limits) ==
    /\ limits.timeout \in 1..MaxTimeout
    /\ limits.body \in 1..MaxRequestBody
    /\ limits.response \in 1..MaxResponse
    /\ limits.assertions \in 1..MaxPlanAssertions

BodySize(body) == IF body = Null THEN 0 ELSE 1 + Len(body.v)

\* _estimate; a test larger than the limits has none.
WithinLimits(case, limits) ==
    /\ Len(case.assertions) <= limits.assertions
    /\ BodySize(case.request.body) <= limits.body
Estimate(case, limits) ==
    [requests |-> 1, body |-> BodySize(case.request.body), assertions |-> Len(case.assertions),
     response |-> limits.response, duration |-> limits.timeout]

\* _material_test_case_payload: the title is presentation.
Material(case) == [f \in CaseFields \ {"title"} |-> CanonicalCase(case)[f]]

\* _plan_hash_payload and _sha256
PlanHash(target, case, limits, estimate) ==
    <<target, Material(case), limits, estimate>>

\* build_execution_plan
BuildPlan(case, target_id, limits, registry) ==
    LET target == Registered(registry, target_id)
        kept == ValidatedCase(case)
    IN  IF CaseValid(case) /\ target # Refused /\ LimitsValid(limits) /\ WithinLimits(kept, limits)
        THEN LET hash == PlanHash(target, kept, limits, Estimate(kept, limits)) IN
             [schema |-> "execution-plan/v1", id |-> hash, target_id |-> target.id,
              target_base_url |-> target.base_url, target_schema |-> target.schema,
              case_id |-> kept.id, case |-> kept, limits |-> limits,
              estimate |-> Estimate(kept, limits), hash |-> hash]
        ELSE Refused

\* validate_execution_plan: every part is derived again and compared.
PlanValid(plan, registry) ==
    LET target == Registered(registry, plan.target_id)
        kept == ValidatedCase(plan.case) IN
    /\ plan.schema = "execution-plan/v1"
    /\ CaseValid(plan.case) /\ kept.id = plan.case_id
    /\ target # Refused
    /\ plan.target_base_url = target.base_url /\ plan.target_schema = target.schema
    /\ LimitsValid(plan.limits) /\ WithinLimits(kept, plan.limits)
    /\ plan.estimate = Estimate(kept, plan.limits)
    /\ plan.hash = PlanHash(target, kept, plan.limits, plan.estimate)
    /\ plan.id = plan.hash

\* review_execution_plan
Review(plan) ==
    [id |-> plan.id, hash |-> plan.hash, target |-> plan.target_base_url, case |-> plan.case_id,
     method |-> plan.case.request.method, path |-> plan.case.request.path,
     citations |-> plan.case.citations, limits |-> plan.limits, estimate |-> plan.estimate]

-----------------------------------------------------------------------------
(* Approval records.                                                       *)

\* approver_provenance
Provenance(approver) ==
    CASE approver.source = "cognito" -> <<approver.issuer, approver.subject>>
      [] approver.source = "local" -> <<"local-development-owner">>

\* validate_comment; a comment is a text with a length, or null.
CommentValid(comment) == comment = Null \/ comment.length \in 1..MaxComment

\* ExecutionApprovalService.approve, up to the insert
ApprovalAccepted(plan, expected, comment, registry) ==
    /\ PlanValid(plan, registry)
    /\ expected = plan.hash
    /\ CommentValid(comment)

\* _plan_snapshot and _plan_from_snapshot: every field is there, no integer
\* became a boolean; the plan it spells is validated again.
PlanFields == {"schema", "id", "target_id", "target_base_url", "target_schema", "case_id",
               "case", "limits", "estimate", "hash"}
SnapshotReadable(snapshot, registry) == DOMAIN snapshot = PlanFields /\ PlanValid(snapshot, registry)

\* create: the row that is inserted
ApprovalRow(plan, approver, now, ttl) ==
    [plan_id |-> plan.id, plan_hash |-> plan.hash, snapshot |-> plan,
     approver |-> Provenance(approver), approved |-> now, expires |-> now + ttl, consumed |-> -1]

\* _approval_from_record: a row that breaks its contract is unavailable.
ApprovalReadable(row, registry) ==
    /\ SnapshotReadable(row.snapshot, registry)
    /\ row.plan_id = row.snapshot.id /\ row.plan_hash = row.snapshot.hash
    /\ row.approver # << >>
    /\ row.expires > row.approved
    /\ row.consumed = -1 \/ row.consumed >= row.approved

\* consume: the conditional UPDATE of the approval of that very plan
Consumed(row, plan, now) ==
    IF /\ row.plan_id = plan.id /\ row.plan_hash = plan.hash
       /\ row.consumed = -1 /\ row.expires > now
    THEN [row EXCEPT !.consumed = now]
    ELSE Refused
=============================================================================
