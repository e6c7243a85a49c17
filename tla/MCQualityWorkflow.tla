-------------------------- MODULE MCQualityWorkflow --------------------------
(* Small instances of QualityWorkflow for TLC, and the checks of the pure   *)
(* modules it is built from over bounded inputs.                            *)
EXTENDS QualityWorkflow

\* Two passages of project p that contradict each other, the first with a
\* vague term and not embedded yet; q has none.  The third chunk is of no
\* project: it is for the checks of the ranking.
MCChunk == [x \in 1..3 |-> [project |-> IF x = 3 THEN "none" ELSE "p", version |-> 1,
                            type |-> "requirements", chunking |-> "v1", ordinal |-> x,
                            embedding |-> IF x = 1 THEN "" ELSE "e1"]]
Plain == [normative |-> TRUE, acceptance |-> TRUE, vague |-> {}, measurable |-> FALSE,
          action |-> FALSE, authorization |-> FALSE, error |-> FALSE, load |-> {},
          must |-> [stated |-> TRUE, subject |-> "s", predicate |-> "v", negative |-> FALSE]]
MCPassage == <<[Plain EXCEPT !.vague = {"fast"}], [Plain EXCEPT !.must.negative = TRUE], Plain>>

Query(searchable) ==
    [searchable |-> searchable, dimensions |-> 3, finite |-> TRUE,
     result_limit |-> 2, candidate_limit |-> 2,
     filters |-> [embedding |-> "e1", versions |-> {}, types |-> {}, chunking |-> "v1"]]
MCQueries == {Query(TRUE), Query(FALSE)}

MCAuthConfig == [app_env |-> "production", bypass |-> FALSE,
                 cognito |-> [issuer |-> "https", client_id |-> "app", owner |-> "owner"]]
OwnerToken == [alg |-> "RS256", kid |-> TRUE, key |-> "RS256", verified |-> TRUE,
               iss |-> "https", sub |-> "owner", client_id |-> "app", token_use |-> "access"]
Bearer(token) == [scheme |-> "bearer", words |-> 1, token |-> token]
MCHeaders == {None, Bearer(OwnerToken), Bearer([OwnerToken EXCEPT !.sub = "someone"])}

MCGatewayConfig == [provider |-> "anthropic", openai_key |-> "", anthropic_key |-> "key"]
Message(stop, content) ==
    [assistant |-> TRUE, id |-> "m", model |-> C1Model, stop |-> stop, content |-> content,
     usage |-> [input |-> 2, output |-> 1, cached |-> 0]]
Text(kind) == [type |-> "text", text |-> kind]
MCWires == {[event |-> "timeout"],
            [event |-> "payload", payload |-> Message("end_turn", <<Text("object")>>)],
            [event |-> "payload", payload |-> Message("max_tokens", <<Text("object")>>)]}

Leaf(path, value) == [path |-> path, value |-> value]
Result(outcome, code) ==
    [outcome |-> outcome, failure_code |-> code, assertions |-> <<outcome = "succeeded">>,
     sends |-> 1, response |-> {Leaf(<<"status_code">>, 200), Leaf(<<"headers", "set-cookie">>, 7)}]
MCRecorded == {Result("succeeded", NoValue), Result("failed", "assertions_failed")}

Symmetric == Permutations(Jobs)

-----------------------------------------------------------------------------
(* Access control, over every shape of environment, token and header.      *)

Environs == [app_env : {"", "local", "preview"}, bypass : {"true", "false", "yes"},
             issuer : {"", "https", "http"}, client_id : {"", "app"},
             owner_subject : {"", "owner"}]
AllSettings == {AuthSettings(e) : e \in Environs} \ {Rejected}
Tokens == [alg : {"RS256", "none"}, kid : BOOLEAN, key : {"RS256", "EC"}, verified : BOOLEAN,
           iss : {"https", "other"}, sub : {"", "owner", "someone"}, client_id : {"app", "web"},
           token_use : {"access", "id"}]
AllHeaders == {None} \cup [scheme : {"bearer", "basic"}, words : {0, 1, 2}, token : Tokens]

\* The bypass exists only locally, and apart from it the owner is exactly who
\* presents a token that the issuer signed for this client and this subject.
ASSUME OwnerIsProved ==
    \A s \in AllSettings :
      /\ s.bypass => s.app_env = "local"
      /\ \A h \in AllHeaders :
           (ResolveOwner(s, h).principal = "owner") <=>
             \/ s.bypass
             \/ s.cognito # None /\ h = Bearer([OwnerToken EXCEPT !.iss = s.cognito.issuer])

Whos == {Guest, LocalOwner, CognitoOwner([subject |-> "owner"]), Unauthenticated,
         Failure(403, "valid_non_owner", "someone")}

\* Only an owner is allowed anything of a project, within its own scope, and
\* each decision is recorded with an actor the audit event accepts.
ASSUME DecisionsAudited ==
    \A s \in AllSettings, h \in {None, Bearer(OwnerToken)}, action \in Actions,
       p, q \in {"p", "q"}, type \in ResourceTypes, version \in {0, 1} :
      LET d == AuthorizeRequest(s, h, action, p, Resource(q, type, version)) IN
      /\ (d.status = 200) <=> (d.event.result = "allowed")
      /\ d.status = 200 => /\ ResolveOwner(s, h).principal = "owner" /\ p = q
                           /\ (type = "raw_object") <=> (action = "read_raw_object")
      /\ ActorValid(d.event.actor_type, d.event.actor)

Publications == [selection : {<<"a", "1">>, <<"a", "2">>}, excerpts : {<< >>, <<1>>, <<1, 1>>},
                 references : BOOLEAN, text : BOOLEAN, hash_matches : BOOLEAN,
                 classification : {"public", "private"}, state : {"draft", "published"},
                 sanitized : BOOLEAN, immutable : BOOLEAN]

\* The public route answers only with the selected publication, sanitized and
\* published, to guests and to the owner alike, and never writes.
ASSUME DemoIsPublic ==
    \A h \in {None, Bearer(OwnerToken), [scheme |-> "basic", words |-> 1, token |-> OwnerToken]},
       method \in {"GET", "POST"}, selection \in {None, <<"a", "1">>},
       stored \in {None, Rejected} \cup Publications :
      PublicDemo(MCAuthConfig, h, method, selection, stored).status = 200 =>
        /\ method = "GET" /\ h # [scheme |-> "basic", words |-> 1, token |-> OwnerToken]
        /\ stored.selection = selection /\ selection # None
        /\ stored.state = "published" /\ stored.sanitized /\ stored.classification = "public"

ASSUME DemoSelectedWhole ==
    \A e \in [publication : {"", "0", "a"}, revision : {"", "0", "1"}] :
      DemoSelection(e) \notin {None, Rejected} => DemoSelection(e) = <<e.publication, e.revision>>
                                                   /\ e.publication = "a" /\ e.revision = "1"

-----------------------------------------------------------------------------
(* Retrieval.                                                              *)

Rank(x, ranking) == IF Contains(ranking, x) THEN RankIn(x, ranking) ELSE 4

\* A candidate no worse in either ranking and better in one is never left out
\* for the other, for every pair of rankings of up to three passages.
ASSUME FusionRespectsRankings ==
    \A lexical, semantic \in RankingsOf(1..3, 3) : \A limit \in 1..3 : \A x, y \in 1..3 :
        /\ Rank(x, lexical) <= Rank(y, lexical)
        /\ Rank(x, semantic) <= Rank(y, semantic)
        /\ <<Rank(x, lexical), Rank(x, semantic)>> # <<Rank(y, lexical), Rank(y, semantic)>>
        /\ Contains(Fuse(lexical, semantic, limit), y)
        => Contains(Fuse(lexical, semantic, limit), x)

-----------------------------------------------------------------------------
(* The model gateway and its accounting.                                   *)

Payloads == [assistant : BOOLEAN, id : {"", "m"}, model : {B1Model, C1Model},
             stop : {"end_turn", "refusal", "max_tokens", "tool_use"},
             content : {<< >>, <<Text("object")>>, <<Text("text")>>, <<Text("object"), Text("object")>>,
                        <<[type |-> "thinking"], Text("object")>>, <<[type |-> "tool_use"]>>},
             output : {<< >>, <<[type |-> "reasoning"]>>,
                       <<[type |-> "reasoning"], [type |-> "message", content |->
                            <<[type |-> "refusal"], [type |-> "output_text", text |-> "object"]>>]>>},
             usage : [input : {-1, 2}, output : {1}, total : {3}, cached : {0, 1}]]
GatewayEnvirons == [provider : {"", "openai", "anthropic", "other"}, openai_key : {"", "k"},
                    anthropic_key : {"", "k"}]

\* A response comes from the configured provider's own pinned model with a
\* usage that adds up, and every provider failure is one the callers catch.
ASSUME ResponsesTyped ==
    \A e \in GatewayEnvirons : Adapter(e).ok =>
      \A payload \in Payloads :
        LET r == Generate(Adapter(e), [event |-> "payload", payload |-> payload]) IN
        IF r.ok THEN /\ r.provider = ProviderOf(e)
                     /\ r.model = (IF ProviderOf(e) = "anthropic" THEN C1Model ELSE B1Model)
                     /\ r.usage.total = r.usage.input + r.usage.output
        ELSE r.error \in Unavailables

Pricing == [provider |-> "anthropic", model |-> C1Model, input_rate |-> 700000, output_rate |-> 900000]
Succeeded(n) == [ok |-> TRUE, provider |-> "anthropic", model |-> C1Model,
                 usage |-> [input |-> n, output |-> n, total |-> 2 * n]]
MeasuredSeqs ==
    UNION {[1..n -> UNION {Measurements(Pricing, d, r) :
                             d \in {1, 5}, r \in {Fails("timeout"), Succeeded(1), Succeeded(3)}}] :
             n \in 1..3}

\* A report never prices calls above what they cost one by one, nor below
\* their exact price, and its percentiles are the smallest durations that so
\* many calls did not exceed.
ASSUME SummaryAddsUp ==
    \A ms \in MeasuredSeqs :
      LET r == CostSuccessReport(ms)[Pricing]
          Cost(m) == IF m.tokens = << >> THEN 0 ELSE CostMicrousd(Pricing, m.tokens[1], m.tokens[2])
          NoLonger(d) == Cardinality({i \in DOMAIN ms : ms[i].duration <= d})
      IN  /\ \A i \in DOMAIN ms : MeasurementValid(ms[i])
          /\ r.successes + r.failures = Len(ms)
          /\ r.cost <= FoldLeft(LAMBDA sum, m : sum + Cost(m), 0, ms)
          /\ r.cost * 1000000 >= r.tokens[1] * Pricing.input_rate + r.tokens[2] * Pricing.output_rate
          /\ 100 * NoLonger(r.p95) >= 95 * Len(ms) /\ 100 * NoLonger(r.p95 - 1) < 95 * Len(ms)
          /\ 100 * NoLonger(r.p50) >= 50 * Len(ms) /\ 100 * NoLonger(r.p50 - 1) < 50 * Len(ms)

-----------------------------------------------------------------------------
(* The analysis rules and the evidence view.                               *)

Texts == [normative : BOOLEAN, acceptance : BOOLEAN, vague : SUBSET {"fast", "reasonable"},
          measurable : BOOLEAN, action : BOOLEAN, authorization : BOOLEAN, error : BOOLEAN,
          load : SUBSET {"many", "large"}, must : {Plain.must}]

\* Whatever a passage says, each finding satisfies the finding contract, and
\* ids repeat only where two terms of one rule match.
ASSUME RulesMeetContract ==
    \A t \in Texts :
      LET found == AnalyzeCitations({1}, [k \in {1} |-> t]) IN
      /\ \A f \in found : FindingValid(f)
      /\ \/ found = {}
         \/ FindingsValid(found)
         \/ ~t.measurable /\ (Cardinality(t.vague) > 1 \/ Cardinality(t.load) > 1)

Leaves == {Leaf(path, 1) : path \in UNION {[1..n -> {"id", "token"}] : n \in 1..3}}

\* No leaf under a sensitive name survives, redacting twice is redacting once
\* (the executor redacted before it stored), and every failure code has a
\* hypothesis and no root cause.
ASSUME EvidenceRedacted ==
    /\ \A leaf \in Leaves :
         /\ RedactedLeaf(RedactedLeaf(leaf)) = RedactedLeaf(leaf)
         /\ RedactedLeaf(leaf).value # Redacted =>
              \A i \in DOMAIN leaf.path : leaf.path[i] \notin SensitiveNames
    /\ \A code \in FailureCodes :
         FailureAnswer(Result("failed", code)).analysis.root_cause = NoValue
=============================================================================
