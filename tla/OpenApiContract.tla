-------------------------- MODULE OpenApiContract --------------------------
(* What the product reads from an OpenAPI document: the fail-closed parser   *)
(* (openapi_parser.py), the facts extracted from an accepted document and    *)
(* the difference of two extractions (openapi_facts.py), and the comparison  *)
(* of cited requirements with the facts (openapi_consistency.py).            *)
(*                                                                           *)
(* A JSON value is [is, holds]; an object holds a sequence of <<key, value>>.*)
(* A text is a sequence of tokens, so that the identifiers the code glues    *)
(* together from names are concatenations here too, and as ambiguous; a JSON *)
(* pointer is the sequence of its unescaped steps, which _escape keeps apart;*)
(* each step is a text.                                                      *)
EXTENDS Integers, Sequences, SequencesExt, FiniteSets, FiniteSetsExt

CONSTANTS LowerCase(_), UpperCase(_),   \* str.lower, str.upper of a key
          LocalReference(_),            \* starts with "#/" and has no "%"
          Position(_),                  \* the place of a name in the order of texts
          Rejected,                     \* the raised validation errors
          MaxDepth, MaxNodes, MaxMembers, MaxScalar, MaxReferences,
          MaxOperations, MaxComponents, MaxFacts

NoMember == [is |-> "absent", holds |-> << >>]
EmptyObject == [is |-> "map", holds |-> << >>]
IsObject(x) == x.is = "map"
Keys(x) == {x.holds[i][1] : i \in DOMAIN x.holds}

\* _mapping: what is not an object reads as an empty one.
Mapping(x) == IF IsObject(x) THEN x ELSE EmptyObject

\* value.get(key, default)
Get(x, key, default) ==
    LET held == SelectSeq(x.holds, LAMBDA m : m[1] = key)
    IN  IF held = << >> THEN default ELSE held[1][2]

-----------------------------------------------------------------------------
(* The parser.                                                             *)

Items(x) ==
    CASE x.is = "map" -> [i \in DOMAIN x.holds |-> x.holds[i][2]]
      [] x.is = "list" -> x.holds
      [] OTHER -> << >>

\* Scalars the loaders refuse: a constant JSON does not have, a YAML scalar
\* JSON does not spell, a merge key.
RefusedScalars(document_type) ==
    IF document_type = "openapi-json" THEN {"constant"} ELSE {"constant", "yaml", "merge"}

\* _load_json with _reject_duplicate_pairs and _reject_json_constant;
\* _yaml_node_to_json, which refuses the same and the keys that are not text
RECURSIVE Loads(_, _)
Loads(document_type, x) ==
    /\ x.is \notin RefusedScalars(document_type)
    /\ IsObject(x) => IsInjective([i \in DOMAIN x.holds |-> x.holds[i][1]])
    /\ \A i \in DOMAIN Items(x) : Loads(document_type, Items(x)[i])

\* The YAML features that _load_yaml refuses from the tokens
YamlFeatures == {"directive", "documents", "anchor", "alias", "tag"}

\* _validate_value; a key counts as a node one level down.
RECURSIVE Nodes(_)
Nodes(x) ==
    1 + (IF IsObject(x) THEN Len(x.holds) ELSE 0)
      + FoldLeft(LAMBDA n, child : n + Nodes(child), 0, Items(x))
RECURSIVE Bounded(_, _)
Bounded(x, depth) ==
    /\ depth <= MaxDepth
    /\ x.is = "text" => Len(x.holds) <= MaxScalar
    /\ x.is \in {"map", "list"} => Len(x.holds) <= MaxMembers
    /\ IsObject(x) /\ x.holds # << >> =>
         depth < MaxDepth /\ \A key \in Keys(x) : Len(key) <= MaxScalar
    /\ \A i \in DOMAIN Items(x) : Bounded(Items(x)[i], depth + 1)

\* _validate_references, with the references it counts
RECURSIVE ReferencesLocal(_)
ReferencesLocal(x) ==
    /\ IsObject(x) =>
         /\ <<"$dynamicRef">> \notin Keys(x)
         /\ <<"$ref">> \in Keys(x) =>
              LET target == Get(x, <<"$ref">>, NoMember)
              IN  target.is = "text" /\ LocalReference(target.holds)
    /\ \A i \in DOMAIN Items(x) : ReferencesLocal(Items(x)[i])
RECURSIVE References(_)
References(x) ==
    (IF IsObject(x) /\ <<"$ref">> \in Keys(x) THEN 1 ELSE 0)
    + FoldLeft(LAMBDA n, child : n + References(child), 0, Items(x))

\* The document's parts
Part(root, key) == Get(root, <<key>>, EmptyObject)
Schemas(root) == Get(Part(root, "components"), <<"schemas">>, EmptyObject)

\* "3.0." and "3.1." begin a version.
SupportedVersion(x) == x.is = "text" /\ x.holds # << >> /\ x.holds[1] \in {"3.0.", "3.1."}

\* _parse_openapi_root: every check raises the same terminal rejection, and
\* only its code tells which one it was.
RootAccepted(document) ==
    LET root == document.value IN
    /\ document.type \in {"openapi-json", "openapi-yaml"}
    /\ document.utf8 /\ document.syntax
    /\ document.type = "openapi-yaml" => document.features \cap YamlFeatures = {}
    /\ Loads(document.type, root)
    /\ Bounded(root, 0) /\ Nodes(root) <= MaxNodes
    /\ IsObject(root)
    /\ SupportedVersion(Get(root, <<"openapi">>, NoMember))
    /\ ReferencesLocal(root) /\ References(root) <= MaxReferences
    /\ IsObject(Part(root, "paths"))
    /\ IsObject(Part(root, "components"))
    /\ IsObject(Schemas(root)) /\ Len(Schemas(root).holds) <= MaxComponents

Methods == {<<m>> : m \in {"get", "put", "post", "delete", "options", "head", "patch", "trace"}}
IsMethod(key) == LowerCase(key) \in Methods

\* The <<path, method>> pairs of the document, the method as it is written
PathItem(root, path) == Get(Part(root, "paths"), path, EmptyObject)
Operations(root) ==
    UNION {{<<path, k>> : k \in {j \in Keys(PathItem(root, path)) : IsMethod(j)}}
             : path \in Keys(Part(root, "paths"))}
OperationAt(root, path, method) == Get(PathItem(root, path), method, EmptyObject)

\* _security: a list becomes a tuple, anything else the empty tuple.
SecurityTuple(x) == [is |-> "tuple", holds |-> IF x.is = "list" THEN x.holds ELSE << >>]

\* parse_openapi
Parsable(document) ==
    /\ RootAccepted(document)
    /\ \A path \in Keys(Part(document.value, "paths")) :
         /\ path # << >> /\ path[1] = "/"
         /\ IsObject(PathItem(document.value, path))
         /\ \A k \in Keys(PathItem(document.value, path)) :
              IsMethod(k) => IsObject(OperationAt(document.value, path, k))
    /\ Cardinality(Operations(document.value)) <= MaxOperations
ParsedOperation(root, path, method) ==
    [path |-> path, method |-> LowerCase(method), pointer |-> <<<<"paths">>, path, method>>,
     security |-> SecurityTuple(Get(OperationAt(root, path, method), <<"security">>,
                                    Get(root, <<"security">>, NoMember)))]
ParseOpenApi(document) ==
    IF Parsable(document)
    THEN LET root == document.value IN
         [operations |-> {ParsedOperation(root, o[1], o[2]) : o \in Operations(root)},
          schemas |-> Keys(Schemas(root)),
          security |-> SecurityTuple(Get(root, <<"security">>, NoMember))]
    ELSE Rejected

-----------------------------------------------------------------------------
(* The facts.  Two facts of one document never agree in everything, so a     *)
(* set holds what the sorted tuple holds.                                    *)

\* _canonical: json.dumps with sorted keys
RECURSIVE CanonicalJson(_)
CanonicalJson(x) ==
    CASE x.is \in {"list", "tuple"} ->
           [is |-> "list", holds |-> [i \in DOMAIN x.holds |-> CanonicalJson(x.holds[i])]]
      [] x.is = "map" ->
           [is |-> "map",
            holds |-> {<<x.holds[i][1], CanonicalJson(x.holds[i][2])>> : i \in DOMAIN x.holds}]
      [] OTHER -> x
Flag(b) == [is |-> "bool", holds |-> b]

\* _attributes
Attributes(x, fields) ==
    [f \in {g \in fields : <<g>> \in Keys(x)} |-> CanonicalJson(Get(x, <<f>>, NoMember))]

\* _append
Fact(kind, identifier, pointer, attributes) ==
    [kind |-> kind, identifier |-> identifier, pointer |-> pointer, attributes |-> attributes]

LimitFields == {"minimum", "maximum", "exclusiveMinimum", "exclusiveMaximum", "multipleOf",
                "minLength", "maxLength", "minItems", "maxItems", "minProperties", "maxProperties"}

\* The members of an object whose values are non-empty objects
Nested(x) == {m \in ToSet(Mapping(x).holds) : IsObject(m[2]) /\ m[2].holds # << >>}

\* _extract_schema
RECURSIVE SchemaFacts(_, _, _)
SchemaFacts(identifier, pointer, schema) ==
    LET items == Mapping(Get(schema, <<"items">>, EmptyObject)) IN
    {Fact("schema", identifier, pointer, Attributes(schema, {"type", "format", "nullable", "$ref"}))}
    \cup {Fact("enum", identifier \o <<"::", "enum">>, pointer,
               [values |-> CanonicalJson(Get(schema, k, NoMember))])
            : k \in Keys(schema) \cap {<<"enum">>}}
    \cup {Fact("limit", identifier \o <<"::">> \o k, pointer,
               [value |-> CanonicalJson(Get(schema, k, NoMember))])
            : k \in Keys(schema) \cap {<<f>> : f \in LimitFields}}
    \cup UNION {SchemaFacts(identifier \o <<".">> \o m[1], pointer \o <<<<"properties">>, m[1]>>, m[2])
                  : m \in Nested(Get(schema, <<"properties">>, EmptyObject))}
    \cup (IF items.holds = << >> THEN {}
          ELSE SchemaFacts(identifier \o <<"[]">>, Append(pointer, <<"items">>), items))

\* _extract_parameters
ParameterIdentifier(scope, parameter, index) ==
    LET name == Get(parameter, <<"name">>, NoMember)
        location == Get(parameter, <<"in">>, NoMember)
    IN  IF name.is = "text" /\ location.is = "text"
        THEN scope \o <<"::">> \o location.holds \o <<":">> \o name.holds
        ELSE scope \o <<"::", "parameter[", ToString(index), "]">>
ParameterFacts(scope, pointer, parameters) ==
    UNION {LET parameter == Mapping(parameters.holds[i])
               identifier == ParameterIdentifier(scope, parameter, i)
               at == pointer \o <<<<"parameters">>, <<ToString(i)>>>>
               schema == Mapping(Get(parameter, <<"schema">>, EmptyObject))
           IN  {Fact("parameter", identifier, at,
                     Attributes(parameter, {"name", "in", "required", "$ref"}))}
               \cup (IF schema.holds = << >> THEN {}
                     ELSE SchemaFacts(<<"parameter:">> \o identifier, Append(at, <<"schema">>), schema))
             : i \in IF parameters.is = "list" THEN DOMAIN parameters.holds ELSE {}}

\* _extract_responses
ResponseFacts(operation_key, pointer, responses) ==
    UNION {LET response == Mapping(r[2])
               identifier == operation_key \o <<"::">> \o r[1]
               at == pointer \o <<<<"responses">>, r[1]>>
               content == Mapping(Get(response, <<"content">>, EmptyObject))
           IN  {Fact("response", identifier, at,
                     [f \in DOMAIN Attributes(response, {"$ref"})
                              \cup (IF content.holds = << >> THEN {} ELSE {"media_types"}) |->
                        IF f = "media_types" THEN Keys(content)
                        ELSE Attributes(response, {"$ref"})[f]])}
               \cup UNION {LET schema == Mapping(Get(Mapping(c[2]), <<"schema">>, EmptyObject)) IN
                           IF schema.holds = << >> THEN {}
                           ELSE SchemaFacts(<<"response:">> \o identifier \o <<":">> \o c[1],
                                            at \o <<<<"content">>, c[1], <<"schema">>>>, schema)
                             : c \in ToSet(content.holds)}
             : r \in ToSet(Mapping(responses).holds)}

\* _extract_security_requirements: only a list is recorded.
RequirementFacts(scope, pointer, requirements, inherited) ==
    IF requirements.is # "list" THEN {}
    ELSE {Fact("security", <<"requirement:">> \o scope, pointer,
               [requirements |-> CanonicalJson(requirements), inherited |-> Flag(inherited)])}

\* _extract_security_schemes, _extract_component_schemas
SchemeFacts(schemes) ==
    {Fact("security", <<"scheme:">> \o m[1], <<<<"components">>, <<"securitySchemes">>, m[1]>>,
          Attributes(Mapping(m[2]), {"type", "scheme", "bearerFormat", "openIdConnectUrl", "$ref"}))
       : m \in ToSet(schemes.holds)}
ComponentFacts(schemas) ==
    UNION {SchemaFacts(<<"component:">> \o m[1], <<<<"components">>, <<"schemas">>, m[1]>>, m[2])
             : m \in Nested(schemas)}

\* _extract_operations; an operation without its own security is handed the
\* parser's tuple.
OperationFacts(root, inherited) ==
    UNION {ParameterFacts(<<"path:">> \o path, <<<<"paths">>, path>>,
                          Get(PathItem(root, path), <<"parameters">>, NoMember))
             : path \in Keys(Part(root, "paths"))}
    \cup UNION {LET operation == OperationAt(root, o[1], o[2])
                    key == UpperCase(o[2]) \o <<" ">> \o o[1]
                    at == <<<<"paths">>, o[1], o[2]>>
                IN  {Fact("operation", key, at, Attributes(operation, {"operationId", "deprecated"}))}
                    \cup ParameterFacts(key, at, Get(operation, <<"parameters">>, NoMember))
                    \cup ResponseFacts(key, at, Get(operation, <<"responses">>, NoMember))
                    \cup RequirementFacts(key, Append(at, <<"security">>),
                                          Get(operation, <<"security">>, inherited),
                                          <<"security">> \notin Keys(operation))
                  : o \in Operations(root)}

\* extract_openapi_facts
ExtractFacts(document) ==
    LET root == document.value
        components == Part(root, "components")
        facts == RequirementFacts(<<"global">>, <<<<"security">>>>,
                                  Get(root, <<"security">>, NoMember), FALSE)
                 \cup SchemeFacts(Mapping(Get(components, <<"securitySchemes">>, EmptyObject)))
                 \cup ComponentFacts(Schemas(root))
                 \cup OperationFacts(root, ParseOpenApi(document).security)
    IN  IF Parsable(document) /\ Cardinality(facts) <= MaxFacts THEN facts ELSE Rejected

\* _index_facts
KeyOf(fact) == <<fact.kind, fact.identifier>>
Indexed(facts) == \A f, g \in facts : KeyOf(f) = KeyOf(g) => f = g
Lookup(facts, key) == {f \in facts : KeyOf(f) = key}

\* diff_openapi_facts; a fact or none is a set of at most one.
Difference(key, before, after) ==
    [key |-> key, before |-> Lookup(before, key), after |-> Lookup(after, key),
     kind |-> CASE Lookup(before, key) = {} -> "added"
                [] Lookup(after, key) = {} -> "removed"
                [] OTHER -> "changed"]
DiffFacts(before, after) ==
    IF Indexed(before) /\ Indexed(after)
    THEN LET keys == {KeyOf(f) : f \in before \cup after}
         IN  {d \in {Difference(k, before, after) : k \in keys} : d.before # d.after}
    ELSE Rejected

-----------------------------------------------------------------------------
(* Consistency with cited requirements.  An expectation names one fact and a *)
(* sequence of <<attribute, value, canonical>>, the last telling whether the *)
(* value is spelled canonically.                                             *)

\* expected_fact_kind
ExpectedFactKind(kind) == IF kind = "field" THEN "schema" ELSE kind

ExpectedAttributes(e) == [i \in DOMAIN e.expected |-> <<e.expected[i][1], e.expected[i][2]>>]
ExpectationKey(e) == <<e.citation, e.kind, e.identifier, ExpectedAttributes(e)>>

\* _validate_expectations and _require_canonical_json
ExpectationsValid(expectations) ==
    /\ \A i \in DOMAIN expectations :
         LET e == expectations[i] IN
         /\ e.identifier # << >> /\ Len(e.identifier) <= MaxScalar
         /\ e.kind # "operation" => e.expected # << >>
         /\ \A j, k \in DOMAIN e.expected :
              j < k => Position(e.expected[j][1]) < Position(e.expected[k][1])
         /\ \A j \in DOMAIN e.expected : e.expected[j][3]
    /\ IsInjective([i \in DOMAIN expectations |-> ExpectationKey(expectations[i])])

\* _matches_expectation
MatchesExpectation(e, held) ==
    \E f \in held : \A i \in DOMAIN e.expected :
       e.expected[i][1] \in DOMAIN f.attributes /\ f.attributes[e.expected[i][1]] = e.expected[i][2]

\* _finding_for_mismatch, with _finding_identity
MismatchFinding(e, actual) ==
    [id |-> <<ExpectationKey(e), actual>>, category |-> "requirements_contract_mismatch",
     severity |-> IF e.kind = "security" THEN "high" ELSE "medium", evidence |-> e.citation]
Mismatch(e, facts) ==
    LET actual == {f.attributes : f \in Lookup(facts, <<ExpectedFactKind(e.kind), e.identifier>>)}
    IN  [key |-> ExpectationKey(e), actual |-> actual, finding |-> MismatchFinding(e, actual)]

\* analyze_openapi_consistency; a mismatch whose passage is blank refuses all.
Mismatching(expectations, facts) ==
    {e \in ToSet(expectations) :
       ~MatchesExpectation(e, Lookup(facts, <<ExpectedFactKind(e.kind), e.identifier>>))}
AnalyzeConsistency(expectations, facts) ==
    IF /\ ExpectationsValid(expectations) /\ Indexed(facts)
       /\ \A e \in Mismatching(expectations, facts) : ~e.blank
    THEN {Mismatch(e, facts) : e \in Mismatching(expectations, facts)}
    ELSE Rejected

\* measure_seeded_consistency_baseline
MeasureBaseline(seeded, mismatches) ==
    LET expected == {ExpectationKey(e) : e \in seeded}
        detected == {m.key : m \in mismatches}
    IN  IF seeded = {} THEN Rejected
        ELSE [total |-> Cardinality(expected), detected |-> Cardinality(expected \cap detected),
              false_positives |-> Cardinality(detected \ expected)]
=============================================================================
