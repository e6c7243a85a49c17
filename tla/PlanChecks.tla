----------------------------- MODULE PlanChecks -----------------------------
(* The pure parts of the execution path, checked over bounded inputs: each  *)
(* assumption compares what the code computes with what it is for.          *)
EXTENDS RestrictedRequest

\* The texts of the instance, as the regular expressions and str.lower see them
CheckLower(s) == CASE s = "X-Id" -> "x-id" [] s = "Host" -> "host" [] OTHER -> s
CheckRelativePath(s) == s \in {"/orders", "/order"}
CheckHeaderPattern(s) == s \in {"x-id", "X-Id", "host", "Host", "x-forwarded-for", "set-cookie"}
CheckPointerPattern(s) == s \in {"/a", "/0"}
CheckSensitive(s) == s \in {"token", "set-cookie"}
CheckPartOf(part, whole) == part = whole \/ (part = "a" /\ whole = "token a")
CheckTokens(pointer) == IF pointer = "/0" THEN <<[s |-> "0", index |-> 0]>>
                        ELSE <<[s |-> "a", index |-> -1]>>
CheckSandbox == [name |-> "sandbox", form |-> "name", shouted |-> FALSE]

Padded(s) == [Text(s) EXCEPT !.pad = TRUE]
JText(s) == [t |-> "text", v |-> Text(s)]
JInt(n) == [t |-> "int", v |-> n]
JNull == [t |-> "null", v |-> 0]
JNan == [t |-> "nan", v |-> 0]
JBool(n) == [t |-> "bool", v |-> n]
JList(s) == [t |-> "list", v |-> s]
JMap(s) == [t |-> "map", v |-> s]
UpTo(n, S) == UNION {[1..k -> S] : k \in 0..n}

Scalars == {JNull, JText("a"), JText("token"), JInt(1), JBool(1), JNan}
Keys == {Text("a"), Padded("a"), Text("token")}
Flat == {JList(s) : s \in UpTo(2, Scalars)}
          \cup {JMap(s) : s \in {t \in UpTo(2, Keys \X Scalars) : IsInjective([i \in DOMAIN t |-> t[i][1]])}}
Nested == {JList(<<x>>) : x \in Flat} \cup {JMap(<<<<k, x>>>>) : k \in {Text("a"), Text("token")}, x \in Flat}
Documents == Flat \cup Nested

Assertion(target, selector, operator, expected) ==
    [target |-> target, selector |-> selector, operator |-> operator, expected |-> expected]
Status(n) == Assertion("status_code", Null, "equals", JInt(n))
Asserted == {Status(200), Assertion("response_time_ms", Null, "less_than_or_equal", JInt(9))}
   \cup {Assertion("response_header", n, "equals", JText("a")) : n \in {Text("x-id"), Text("X-Id"), Padded("x-id")}}
   \cup {Assertion("json_body", Text(p), o, e) : p \in {"/a", "/0"}, o \in {"equals", "contains"},
                                               e \in Scalars \ {JNan}}
   \cup {Assertion("json_body", Text(p), "exists", JNull) : p \in {"/a", "/0"}}

Template(body, headers, query) ==
    [method |-> "GET", path |-> Text("/orders"), query |-> query, headers |-> headers, body |-> body]
Bare == Template(Null, << >>, << >>)
Headers2 == {<<Text(n), v>> : n \in {"x-id", "X-Id", "Host", "x-forwarded-for"}, v \in {Text("a"), Padded("a")}}
Case(id, request, assertions) ==
    [schema |-> "generated-test-case/v1", id |-> id, title |-> Padded("t"), kind |-> "positive",
     finding |-> "f", citations |-> <<"k">>, request |-> request, assertions |-> assertions]
Requests2 == {Template(body, << >>, << >>) : body \in {Null} \cup {d \in Documents : d.t = "map"}}
   \cup {Template(Null, h, << >>) : h \in UpTo(2, Headers2)}
   \cup {Template(Null, << >>, q) : q \in UpTo(2, {<<Text("a"), Text("v")>>, <<Padded("a"), Text("w")>>,
                                                    <<Text("b"), Text("v")>>})}
Payloads2 == {Case("c", r, <<Status(200)>>) : r \in Requests2}
   \cup {Case("c", Bare, as) : as \in UpTo(2, Asserted)}
Proposals == {ValidatedCase(p) : p \in {q \in Payloads2 : CaseValid(q)}}

\* A validated proposal rendered again is accepted as it is: snapshots, plans
\* and revisions, which validate on every read, keep saying the same.
ASSUME ValidationStable ==
    \A c \in Proposals : CaseValid(c) /\ ValidatedCase(c) = c

\* Two assertions of one proposal that differ only as 1 and True are a repeat.
ASSUME RepeatsArePython ==
    ~CaseValid(Case("c", Bare, <<Assertion("json_body", Text("/a"), "equals", JInt(1)),
                                  Assertion("json_body", Padded("/a"), "equals", JBool(1))>>))

-----------------------------------------------------------------------------
Seeds == {[finding |-> [id |-> "f", unsupported |-> u, evidence |-> e], kind |-> k,
           request |-> Bare, assertions |-> as] :
            u \in BOOLEAN, e \in UpTo(2, {"k", "l", "gone"}), k \in {"positive", "state"},
            as \in {<<Status(200)>>, << >>}}

\* Whatever the seeds, each generated proposal is valid and grounded in
\* citations the project can read, and one bad seed stops all of them.
ASSUME Grounded ==
    \A seeds \in UpTo(2, Seeds) :
      LET live == {<<"p", "k">>, <<"p", "l">>, <<"q", "gone">>}
          made == GenerateTests("p", seeds, live) IN
      made # Refused =>
        /\ Cardinality(made) = Len(seeds)
        /\ \A c \in made : CaseValid(c) /\ "gone" \notin ToSet(c.citations)

Edits == [edited : {Case("c", Bare, <<Status(n)>>) : n \in {200, 404, 999}}
                     \cup {Case("d", Bare, <<Status(200)>>)},
          editor : {Padded("me"), Text("")}, at : 0..2, id : 1..3]
Applied(history, e) ==
    LET next == AppendEdit("c", history, e.edited, e.editor, e.at, e.id)
    IN  IF next = Refused THEN history ELSE next

\* However edits are submitted, the history stays one valid chain that starts
\* with the generated output and only grows.
ASSUME HistoriesChain ==
    LET first == CreateHistory(Case("c", Bare, <<Status(200)>>), 0, 1) IN
    \A e, f \in Edits :
      LET one == Applied(first, e)
          two == Applied(one, f) IN
      /\ HistoryValid("c", one) /\ HistoryValid("c", two)
      /\ IsPrefix(first, one) /\ IsPrefix(one, two)

Sources == {s \in SUBSET [key : {"f", "g"}, name : {"r1", "r2"}, revision : {"1", "2"}] :
              Indexed(s)}
Traced == {[Case(i, Bare, <<Status(200)>>) EXCEPT !.finding = f] : i \in {1, 2}, f \in {"f", "g"}}

\* A refreshed matrix keeps every link and marks stale exactly those whose
\* source changed since they were recorded; when it changes back they are
\* current again.
ASSUME StalenessExact ==
    \A old, new \in Sources :
      LET built == BuildMatrices(old, {}, Traced)
          now == RefreshStaleness(built, new, {}) IN
      /\ RefreshStaleness(now, old, {}) = built
      /\ {l.key : l \in {m \in now.requirement : m.state = "stale"}}
           = {s.key : s \in old \ new} \cap {c.finding : c \in Traced}

Answers == {[status |-> 200, headers |-> h, elapsed |-> 5, body |-> b, size |-> 1] :
              h \in {<< >>, <<<<Text("X-Id"), Text("a")>>>>, <<<<Text("x-id"), Text("b")>>, <<Text("X-Id"), Text("a")>>>>},
              b \in {JText("a"), JList(<<JInt(1), JNan>>)} \cup {JMap(<<<<Text("a"), x>>>>) : x \in Scalars \cup {JList(<<JBool(1)>>)}}}

\* Proposals grouped as duplicates judge every response alike, and the groups
\* are disjoint.
ASSUME DuplicatesAgree ==
    LET cases == {c \in Proposals : c.request = Bare}
        Numbered(c) == [c EXCEPT !.id = c.assertions]
        groups == DuplicateGroups({Numbered(c) : c \in cases}) IN
    /\ groups # {} /\ \A g, h \in groups : g = h \/ g \cap h = {}
    /\ \A g \in groups : \A as, bs \in g : \A r \in Answers :
         AllPass(as, r) = AllPass(bs, r)

\* Every assertion the contract accepts can be judged, and a value that equals
\* or contains something exists.
ASSUME JudgedConsistently ==
    \A a \in Asserted : \A r \in Answers :
      a.target \in {"response_header", "json_body"} /\ AssertionContract(a) /\ Evaluate(a, r)
        => Evaluate([a EXCEPT !.operator = "exists", !.expected = JNull], r)

-----------------------------------------------------------------------------
Urls == [wellformed : BOOLEAN, scheme : {"https", "http"}, userinfo : BOOLEAN, query : BOOLEAN,
         fragment : {FALSE}, path : {"", "/", "/x"}, port : {-1, 0, 443, 8443},
         host : [name : {"sandbox", "other"}, form : {"name", "ip", "metadata"}, shouted : BOOLEAN]]
Target(url) == [id |-> "synthetic-order-api", base_url |-> url, redirects |-> FALSE,
                schema |-> "target-registry/v1"]
Public(n) == [kind |-> "public", n |-> n]
Resolutions == SUBSET {Public(1), Public(2), [kind |-> "reserved", n |-> 3]}
Limits == [timeout |-> 5, body |-> 2, response |-> 3, assertions |-> 1]
PlanFor(url, case) == BuildPlan(case, "synthetic-order-api", Limits, <<Target(url)>>)
Simple == Case("c", Bare, <<Status(200)>>)

\* A plan for a target the registry accepts is executed only at a public
\* address, and only if its URL is the canonical origin; what passes for the
\* sandbox the transport accepts and pins to that address.
ASSUME TargetsPinned ==
    \A url \in {u \in Urls : RegistryRefusal(<<Target(u)>>) = "ok"} :
      LET plan == PlanFor(url, Simple)
          registry == <<Target(url)>> IN
      /\ plan # Refused
      /\ \A first, second \in Resolutions :
           ~TargetDenied(plan, registry, first, second) <=>
             /\ url = CanonicalUrl(url.host)
             /\ first = second /\ first # {} /\ first \subseteq {Public(1), Public(2)}
      /\ url = CanonicalUrl(url.host) =>
           (OriginPinned(RequestUrl(plan)) <=> url.host = CheckSandbox)
      /\ ConnectsTo(url.host, 443, 7) = 7 <=> url.host = CheckSandbox

SandboxPlan(case) == PlanFor(CanonicalUrl(CheckSandbox), case)
SandboxRegistry == <<Target(CanonicalUrl(CheckSandbox))>>
BuiltPlans == {SandboxPlan(c) : c \in {d \in Proposals : WithinLimits(d, Limits)}}

\* A built plan is valid, and so is an approval row of it before and after its
\* consumption; no field of it can be exchanged for another plan's, except a
\* snapshot that says the same.
ASSUME PlansBound ==
    LET few == {SandboxPlan([Case(i, Bare, <<Status(n)>>) EXCEPT !.title = Text(t)]) :
                  i \in {"c", "d"}, n \in {200, 404}, t \in {"t", "u"}} IN
    /\ \A p \in BuiltPlans \cup few :
         LET row == ApprovalRow(p, [source |-> "local"], 3, 2) IN
         /\ PlanValid(p, SandboxRegistry)
         /\ ApprovalReadable(row, SandboxRegistry)
         /\ \A now \in 3..6 :
              LET spent == Consumed(row, p, now) IN
              IF now < 5 THEN ApprovalReadable(spent, SandboxRegistry) ELSE spent = Refused
    /\ \A p, q \in few : \A f \in PlanFields :
         LET forged == [p EXCEPT ![f] = q[f]] IN
         PlanValid(forged, SandboxRegistry) <=>
           (p[f] = q[f] \/ (f = "case" /\ Material(p.case) = Material(q.case)))

\* An approved plan is refused before its target is resolved only for a header
\* the executor forbids and the contract of generated tests does not.
ASSUME ApprovedPlansRun ==
    \A p \in BuiltPlans :
      LET bound == [plan_id |-> p.id, plan_hash |-> p.hash]
          refusal == PlanRefusal(bound, bound, p, SandboxRegistry)
          headers == p.case.request.headers IN
      /\ refusal \in {"ok", "forbidden_header"}
      /\ refusal = "forbidden_header" <=>
           \E i \in DOMAIN headers : headers[i][1].s = "x-forwarded-for"
      /\ refusal = "ok" => RequestPermitted(headers, p.limits.timeout, p.limits.response, Public(1))

\* The body is read to one byte past the limit, which is how a body that is
\* too large is told from one that just fits.
ASSUME BodyBounded ==
    \A chunks \in UpTo(3, 0..3), limit \in 1..4 :
      LET total == FoldLeft(LAMBDA x, y : x + y, 0, chunks) IN
      /\ ReadBounded(chunks, limit) <= limit + 1
      /\ (ReadBounded(chunks, limit) > limit) <=> (total > limit)

\* No network operation is given time past the deadline of the request.
ASSUME DeadlineShared ==
    \A deadline, now \in 0..4, requested \in {Null} \cup 1..3 :
      LET left == RemainingTimeout(deadline, now, requested) IN
      IF now >= deadline THEN left = Refused ELSE left > 0 /\ now + left <= deadline

Nets == [event : {"response", "error", "timeout"}, status : {200, 302, 700}, headers : {<< >>},
         elapsed : {1, 9}, body : {JMap(<< >>)}, chunks : {<<3>>, <<2, 2>>}, encoding : {"identity", "gzip"}]

\* A success is a complete, identity encoded, unredirected answer in time.
ASSUME SuccessEarned ==
    LET p == SandboxPlan(Simple) IN
    \A net \in Nets :
      LET r == TransportSend(RequestUrl(p), << >>, p.limits.timeout, p.limits.response, Public(1), net) IN
      (r.code = "ok" /\ ResponseVerdict(p, r) = "ok") <=>
        /\ net.event = "response" /\ net.encoding = "identity" /\ net.elapsed < 5
        /\ net.status = 200 /\ net.chunks = <<3>>

-----------------------------------------------------------------------------
\* The values of a document that are not under a sensitive name
RECURSIVE Exposed(_)
Exposed(x) ==
    {x} \cup CASE x.t = "map" -> UNION {Exposed(m[2]) : m \in {n \in ToSet(x.v) : ~CheckSensitive(n[1].s)}}
               [] x.t = "list" -> UNION {Exposed(y) : y \in ToSet(x.v)}
               [] OTHER -> {}
NamesItsValue(x) == x.t = "list" /\ Len(x.v) = 2 /\ x.v[1] = JText("token")

\* Redaction leaves nothing under a sensitive name and is stable; what it
\* leaves is accepted for storage exactly if no exposed list pairs a sensitive
\* name with a value and every exposed number is finite.  Other responses
\* leave their job running: RecordRejected of ExecutionPipeline.
ASSUME RedactionAndStorage ==
    \A d \in Documents :
      LET response == [status |-> 200, headers |-> <<<<Text("set-cookie"), Text("a")>>>>,
                       elapsed |-> 1, body |-> d, size |-> 1]
          evidence == ResponseEvidence(response, TRUE) IN
      /\ RedactJson(evidence.json) = evidence.json
      /\ PayloadAccepted("succeeded", Null, 1, {EvidencePayload(evidence)}) <=>
           \A x \in Exposed(d) : ~NamesItsValue(x) /\ x # JNan
=============================================================================
