--------------------------- MODULE GeneratedTests ---------------------------
(***************************************************************************)
(* Generated test proposals: the strict contract a payload is validated    *)
(* and normalised by, grounded generation from findings, the revision      *)
(* history of user edits, the traceability matrices with their staleness,  *)
(* and the grouping of duplicates (generated_tests.py, test_generation.py, *)
(* test_revisions.py, traceability.py, test_normalization.py).             *)
(*                                                                         *)
(* A text is what it says, whether it carries outer white space and        *)
(* whether it is too long.  A JSON value is its type and its value; an     *)
(* object is the sequence of its members.  Hashes and uuid5 identifiers    *)
(* are the canonical values they are computed from.                        *)
(***************************************************************************)
EXTENDS Integers, Sequences, SequencesExt, FiniteSets

CONSTANTS Lower(_),          \* str.lower
          RelativePath(_),   \* the path checks of _request_path
          HeaderPattern(_),  \* _HEADER_NAME_PATTERN
          PointerPattern(_), \* _JSON_POINTER_PATTERN
          Null,              \* null
          Refused,           \* the validation errors
          MaxItems,          \* MAX_REQUEST_ITEMS
          MaxJsonItems, MaxJsonDepth, MaxAssertions,
          MaxCases           \* MAX_GENERATED_TEST_CASES

-----------------------------------------------------------------------------
(* Texts and JSON values.                                                  *)

Text(s) == [s |-> s, pad |-> FALSE, long |-> FALSE]
Stripped(text) == [text EXCEPT !.pad = FALSE]
TextValid(text) == text.s # "" /\ ~text.long

\* Python's ==, for which True is 1 and 1.0 is 1
Numeric == {"bool", "int", "float"}
PyEqual(x, y) == x = y \/ ({x.t, y.t} \subseteq Numeric /\ x.v = y.v)

ScalarValid(x) ==
    /\ x.t \in Numeric \cup {"null", "text"}
    /\ x.t = "text" => ~x.v.long

\* _json_value and _json_key: what is not finite, too deep or too wide is refused.
RECURSIVE JsonValid(_, _)
JsonValid(x, depth) ==
    /\ depth <= MaxJsonDepth
    /\ CASE x.t = "list" ->
              Len(x.v) <= MaxJsonItems /\ \A i \in DOMAIN x.v : JsonValid(x.v[i], depth + 1)
         [] x.t = "map" ->
              /\ Len(x.v) <= MaxJsonItems
              /\ \A i \in DOMAIN x.v : TextValid(x.v[i][1]) /\ JsonValid(x.v[i][2], depth + 1)
         [] OTHER -> ScalarValid(x)

\* A member assigned in a dict: a key already there keeps its place.
Put(members, key, value) ==
    IF \E i \in DOMAIN members : members[i][1] = key
    THEN [i \in DOMAIN members |-> IF members[i][1] = key THEN <<key, value>> ELSE members[i]]
    ELSE Append(members, <<key, value>>)

\* Keys are stripped, and of keys that become equal the last one's value stays.
RECURSIVE JsonNormal(_)
JsonNormal(x) ==
    CASE x.t = "list" -> [x EXCEPT !.v = [i \in DOMAIN @ |-> JsonNormal(@[i])]]
      [] x.t = "map" ->
           [x EXCEPT !.v = FoldLeft(LAMBDA done, member :
                                      Put(done, Stripped(member[1]), JsonNormal(member[2])),
                                    << >>, @)]
      [] OTHER -> x

\* _canonical_json sorts an object's keys.
RECURSIVE Canonical(_)
Canonical(x) ==
    CASE x.t = "list" -> [x EXCEPT !.v = [i \in DOMAIN @ |-> Canonical(@[i])]]
      [] x.t = "map" -> [x EXCEPT !.v = {<<@[i][1], Canonical(@[i][2])>> : i \in DOMAIN @}]
      [] OTHER -> x

-----------------------------------------------------------------------------
(* The contract of a test case.                                            *)

CaseFields == {"schema", "id", "title", "kind", "finding", "citations", "request", "assertions"}
TestKinds == {"positive", "negative", "boundary", "authorization", "contract", "state"}
Methods == {"GET", "POST", "PUT", "PATCH", "DELETE"}
ForbiddenHeaderNames == {"authorization", "cookie", "host", "proxy-authorization", "set-cookie"}

Distinct(values) == IsInjective(values)

\* _query_parameters: items are <<name, value>>.
QueryValid(query) ==
    /\ Len(query) <= MaxItems
    /\ \A i \in DOMAIN query : TextValid(query[i][1]) /\ TextValid(query[i][2])
    /\ Distinct([i \in DOMAIN query |-> query[i][1].s])

\* _request_headers and _header_name
HeadersValid(headers) ==
    /\ Len(headers) <= MaxItems
    /\ \A i \in DOMAIN headers :
         LET name == headers[i][1] IN
         /\ TextValid(name) /\ TextValid(headers[i][2])
         /\ HeaderPattern(name.s) /\ Lower(name.s) \notin ForbiddenHeaderNames
    /\ Distinct([i \in DOMAIN headers |-> Lower(headers[i][1].s)])

\* _json_body
BodyValid(body) == body = Null \/ (body.t = "map" /\ JsonValid(body, -1))

\* _request_template
RequestTemplateValid(r) ==
    /\ r.method \in Methods
    /\ TextValid(r.path) /\ RelativePath(r.path.s)
    /\ QueryValid(r.query) /\ HeadersValid(r.headers) /\ BodyValid(r.body)

IsStatusCode(x) == x.t = "int" /\ x.v \in 100..599
IsPositiveInteger(x) == x.t = "int" /\ x.v > 0

\* _validate_assertion_contract
AssertionContract(a) ==
    \/ /\ a.target = "status_code"
       /\ a.selector = Null /\ a.operator = "equals" /\ IsStatusCode(a.expected)
    \/ /\ a.target = "response_header"
       /\ a.selector # Null /\ HeaderPattern(a.selector.s)
       /\ \/ a.operator = "exists" /\ a.expected.t = "null"
          \/ a.operator = "equals" /\ a.expected.t = "text"
    \/ /\ a.target = "json_body"
       /\ a.selector # Null /\ PointerPattern(a.selector.s)
       /\ \/ a.operator = "exists" /\ a.expected.t = "null"
          \/ a.operator = "equals"
          \/ a.operator = "contains" /\ a.expected.t = "text"
    \/ /\ a.target = "response_time_ms"
       /\ a.selector = Null /\ a.operator = "less_than_or_equal" /\ IsPositiveInteger(a.expected)

NormalAssertion(a) ==
    [a EXCEPT !.selector = IF a.selector = Null THEN Null ELSE Stripped(a.selector)]

\* The set of frozen dataclasses compares expected values with ==.
SameAssertion(a, b) ==
    /\ <<a.target, a.selector, a.operator>> = <<b.target, b.selector, b.operator>>
    /\ PyEqual(a.expected, b.expected)

\* _assertions
AssertionsValid(assertions) ==
    /\ Len(assertions) \in 1..MaxAssertions
    /\ \A i \in DOMAIN assertions :
         /\ assertions[i].selector # Null => TextValid(assertions[i].selector)
         /\ ScalarValid(assertions[i].expected)
         /\ AssertionContract(assertions[i])
    /\ \A i, j \in DOMAIN assertions :
         SameAssertion(NormalAssertion(assertions[i]), NormalAssertion(assertions[j])) => i = j

\* _citation_ids
CitationIdsValid(ids) == Len(ids) > 0 /\ Distinct(ids)

\* validate_generated_test_case: whether the payload is accepted
CaseValid(payload) ==
    /\ DOMAIN payload = CaseFields
    /\ payload.schema = "generated-test-case/v1"
    /\ TextValid(payload.title)
    /\ payload.kind \in TestKinds
    /\ CitationIdsValid(payload.citations)
    /\ RequestTemplateValid(payload.request)
    /\ AssertionsValid(payload.assertions)

StrippedPairs(pairs) == [i \in DOMAIN pairs |-> <<Stripped(pairs[i][1]), Stripped(pairs[i][2])>>]

NormalRequest(r) ==
    [r EXCEPT !.path = Stripped(@), !.query = StrippedPairs(@), !.headers = StrippedPairs(@),
              !.body = IF r.body = Null THEN Null ELSE JsonNormal(r.body)]

\* validate_generated_test_case: the case it returns; as_payload renders it.
ValidatedCase(payload) ==
    [payload EXCEPT !.title = Stripped(@), !.request = NormalRequest(@),
                    !.assertions = [i \in DOMAIN @ |-> NormalAssertion(@[i])]]

\* validate_generated_test_cases
CasesValid(payloads) ==
    /\ Len(payloads) > 0
    /\ \A i \in DOMAIN payloads : CaseValid(payloads[i])
    /\ Distinct([i \in DOMAIN payloads |-> payloads[i].id])

-----------------------------------------------------------------------------
(* Grounded generation.  live: the <<project, citation>> that can be read.  *)

\* validate_test_generation_eligibility
Eligible(project, seed, live) ==
    /\ ~seed.finding.unsupported
    /\ Len(seed.finding.evidence) > 0
    /\ Len(seed.assertions) > 0
    /\ Distinct(seed.finding.evidence)
    /\ \A i \in DOMAIN seed.finding.evidence : <<project, seed.finding.evidence[i]>> \in live

\* _canonical_seed_payload, which is also what the id is derived from
CanonicalRequest(r) == [r EXCEPT !.body = IF r.body = Null THEN Null ELSE Canonical(r.body)]
SeedIdentity(seed) ==
    <<seed.finding.id, seed.kind, seed.finding.evidence, CanonicalRequest(seed.request),
      seed.assertions>>

\* _generated_test_case, before it is validated
CandidateOf(seed) ==
    [schema |-> "generated-test-case/v1", id |-> SeedIdentity(seed), title |-> Text(seed.kind),
     kind |-> seed.kind, finding |-> seed.finding.id, citations |-> seed.finding.evidence,
     request |-> seed.request, assertions |-> seed.assertions]

\* GroundedTestGenerationService.generate: one seed that is not eligible, or
\* two with one identity, and nothing is generated.
GenerateTests(project, seeds, live) ==
    IF /\ Len(seeds) \in 1..MaxCases
       /\ \A i \in DOMAIN seeds :
            Eligible(project, seeds[i], live) /\ CaseValid(CandidateOf(seeds[i]))
       /\ Distinct([i \in DOMAIN seeds |-> SeedIdentity(seeds[i])])
    THEN {ValidatedCase(CandidateOf(seeds[i])) : i \in DOMAIN seeds}
    ELSE Refused

-----------------------------------------------------------------------------
(* Revision histories: sequences of immutable snapshots.                   *)

CanonicalCase(c) == [c EXCEPT !.request = CanonicalRequest(@)]
Revision(id, number, parent, kind, editor, at, case) ==
    [id |-> id, case_id |-> case.id, number |-> number, parent |-> parent, kind |-> kind,
     editor |-> editor, at |-> at, case |-> case]

\* _validate_history; `case_id` is the history's own.
HistoryValid(case_id, history) ==
    /\ Len(history) > 0
    /\ Distinct([n \in DOMAIN history |-> history[n].id])
    /\ \A n \in DOMAIN history :
         LET r == history[n] IN
         /\ r.case_id = case_id /\ r.case.id = case_id
         /\ r.number = n
         /\ CaseValid(r.case)
         /\ n = 1 => r.kind = "generated" /\ r.parent = Null /\ r.editor = Null
         /\ n > 1 => /\ r.kind = "user_edit" /\ r.parent = history[n - 1].id
                     /\ r.editor # Null /\ TextValid(r.editor)
                     /\ r.at >= history[n - 1].at

\* create_test_revision_history
CreateHistory(case, at, id) ==
    IF CaseValid(case)
    THEN <<Revision(id, 1, Null, "generated", Null, at, ValidatedCase(case))>>
    ELSE Refused

\* append_user_test_revision, to a history that is valid
AppendEdit(case_id, history, edited, editor, at, id) ==
    LET parent == Last(history) IN
    IF /\ TextValid(editor)
       /\ CaseValid(edited)
       /\ edited.id = case_id
       /\ CanonicalCase(ValidatedCase(edited)) # CanonicalCase(parent.case)
       /\ at >= parent.at
       /\ \A n \in DOMAIN history : history[n].id # id
    THEN Append(history, Revision(id, parent.number + 1, parent.id, "user_edit",
                                  Stripped(editor), at, ValidatedCase(edited)))
    ELSE Refused

-----------------------------------------------------------------------------
(* Traceability.  Sources and links are sets: their order is presentation. *)

\* operation_id_for_test_case
OperationId(c) == <<c.request.method, c.request.path>>

\* _index_requirement_sources, _index_operation_sources
Indexed(sources) ==
    /\ \A s \in sources : s.revision # ""
    /\ \A s, t \in sources : s.key = t.key => s = t

Link(source, key, c) ==
    [key |-> key, name |-> source.name, revision |-> source.revision, case |-> c.id,
     state |-> "current"]

\* build_traceability_matrices; a requirement source has the finding as key
\* and a requirement as name, an operation source has one for both.
BuildMatrices(requirements, operations, cases) ==
    [requirement |-> {Link(s, s.key, c) : <<s, c>> \in
                        {sc \in requirements \X cases : sc[1].key = sc[2].finding}},
     operation |-> {Link(s, s.key, c) : <<s, c>> \in
                      {sc \in operations \X cases : sc[1].key = OperationId(sc[2])}}]

\* _refresh_requirement_link, _refresh_operation_link: the link is kept.
RefreshLink(link, sources) ==
    [link EXCEPT !.state =
       IF \E s \in sources : /\ s.key = link.key /\ s.name = link.name
                             /\ s.revision = link.revision
       THEN "current" ELSE "stale"]

\* refresh_traceability_staleness
RefreshStaleness(matrices, requirements, operations) ==
    [requirement |-> {RefreshLink(l, requirements) : l \in matrices.requirement},
     operation |-> {RefreshLink(l, operations) : l \in matrices.operation}]

-----------------------------------------------------------------------------
(* Duplicates.                                                             *)

\* A sorted list, as a multiset
Sorted(values) ==
    [x \in ToSet(values) |-> Cardinality({i \in DOMAIN values : values[i] = x})]

\* _normalized_selector
NormalizedSelector(a) ==
    IF a.target = "response_header" /\ a.selector # Null THEN Lower(a.selector.s) ELSE a.selector

\* _semantic_payload: what the proposal does, without identity and provenance
SemanticKey(c) ==
    LET r == c.request IN
    <<c.kind, r.method, r.path, Sorted(r.query),
      Sorted([i \in DOMAIN r.headers |-> <<Lower(r.headers[i][1].s), Stripped(r.headers[i][2])>>]),
      IF r.body = Null THEN Null ELSE Canonical(r.body),
      Sorted([i \in DOMAIN c.assertions |->
                <<c.assertions[i].target, NormalizedSelector(c.assertions[i]),
                  c.assertions[i].operator, c.assertions[i].expected>>])>>

\* group_duplicate_candidates: groups of at least two, every id kept
DuplicateGroups(cases) ==
    LET Group(key) == {c.id : c \in {d \in cases : SemanticKey(d) = key}}
    IN  {g \in {Group(SemanticKey(c)) : c \in cases} : Cardinality(g) >= 2}
=============================================================================
