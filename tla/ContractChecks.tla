-------------------------- MODULE ContractChecks ---------------------------
(* OpenApiContract over small documents.  TLC evaluates the assumptions in   *)
(* the runs of the parser queue, where documents of these types wait.        *)
EXTENDS OpenApiContract

CheckLowerCase(key) == IF key = <<"GET">> THEN <<"get">> ELSE key
CheckUpperCase(key) == IF key = <<"get">> THEN <<"GET">> ELSE key
CheckLocalReference(text) == text # << >> /\ text[1] = "#/"
CheckPosition(name) == CASE name = "inherited" -> 1 [] name = "operationId" -> 2
                         [] name = "requirements" -> 3 [] name = "type" -> 4 [] OTHER -> 5

-----------------------------------------------------------------------------
(* Documents.                                                              *)

S(s) == [is |-> "text", holds |-> <<s>>]
N(n) == [is |-> "int", holds |-> n]
L(items) == [is |-> "list", holds |-> items]
O(members) == [is |-> "map", holds |-> members]
M(key, value) == <<<<key>>, value>>

Bearer == L(<<O(<<M("bearer", L(<< >>))>>)>>)
Version == M("openapi", S("3.0."))

\* A schema with a property, bounded or not, and the dotted name that spells it
Bound(schema) == O(Append(schema.holds, M("minimum", N(1))))
Total == O(<<M("type", S("number"))>>)
Order(total) == O(<<M("type", S("object")), M("properties", O(<<M("total", total)>>))>>)
SchemaSets ==
    {<< >>, <<M("Order", Order(Total))>>, <<M("Order", Order(Bound(Total)))>>,
     <<M("Order", Order(Total)), <<<<"Order", ".", "total">>, Total>>>>,
     <<M("Order", O(<<M("$ref", S("#/"))>>)), M("List", O(<<M("items", Total), M("enum", L(<<S("a")>>))>>))>>}

Parameter(name) == O(<<M("name", S(name)), M("in", S("query")), M("schema", Total)>>)
ParameterLists == {<< >>, <<Parameter("a")>>, <<Parameter("a"), Parameter("a")>>, <<Parameter("a"), S("x")>>}
Responses == O(<<M("200", O(<<M("content", O(<<M("json", O(<<M("schema", Total)>>))>>))>>))>>)
OperationOf(parameters, security) ==
    O(<<M("operationId", S("read")), M("parameters", L(parameters)), M("responses", Responses)>> \o security)
Securities == {<< >>, <<M("security", Bearer)>>, <<M("security", L(<< >>))>>}

Document(schemas, methods, global) ==
    [type |-> "openapi-json", utf8 |-> TRUE, syntax |-> TRUE, features |-> {},
     value |-> O(<<Version, M("components", O(<<M("schemas", O(schemas))>>)),
                   M("paths", O(<<<<<<"/", "orders">>, O(methods)>>>>))>> \o global)]
MethodSets ==
    {<<M("get", OperationOf(ps, << >>))>> : ps \in ParameterLists}
    \cup {<<M("get", OperationOf(<< >>, s))>> : s \in Securities}
    \cup {<<M("get", OperationOf(<< >>, << >>)), M("GET", OperationOf(<< >>, << >>))>>,
          <<M("summary", S("x"))>>, << >>}
Documents == {Document(s, m, g) : <<s, m, g>> \in SchemaSets \X MethodSets \X Securities}

Faulty ==
    LET base == Document(<< >>, << >>, << >>)
        With(members) == [base EXCEPT !.value = O(@.holds \o members)]
    IN  {[base EXCEPT !.type = "markdown"], [base EXCEPT !.utf8 = FALSE], [base EXCEPT !.syntax = FALSE],
         [base EXCEPT !.value = L(<< >>)], [base EXCEPT !.value = O(<<M("openapi", S("2.0"))>>)],
         [base EXCEPT !.value = O(<<Version, M("paths", L(<< >>))>>)],
         [base EXCEPT !.value = O(<<Version, M("components", O(<<M("schemas", S("x"))>>))>>)],
         [base EXCEPT !.type = "openapi-yaml", !.features = {"anchor"}],
         [base EXCEPT !.type = "openapi-yaml", !.value = O(@.holds \o <<M("x", [is |-> "yaml", holds |-> 0])>>)],
         With(<<Version>>), With(<<M("x", [is |-> "constant", holds |-> 0])>>),
         With(<<M("x", O(<<M("$ref", S("http://"))>>))>>), With(<<M("x", O(<<M("$dynamicRef", S("#/"))>>))>>),
         With(<<M("x", S("a")), M("y", L([i \in 1..(MaxMembers + 1) |-> N(i)]))>>),
         Document(<< >>, <<M("get", S("x"))>>, << >>)}

\* Every document of the instance but the faulty ones is read, and the
\* operation facts are the parsed operations, pointer by pointer.
ParsedOperationsAreFacts ==
    /\ \A d \in Faulty : ParseOpenApi(d) = Rejected /\ ExtractFacts(d) = Rejected
    /\ \A d \in Documents :
         /\ ParseOpenApi(d) # Rejected /\ ExtractFacts(d) # Rejected
         /\ {f.pointer : f \in {g \in ExtractFacts(d) : g.kind = "operation"}}
              = {o.pointer : o \in ParseOpenApi(d).operations}
ASSUME ParsedOperationsAreFacts

Repeats(d) ==
    LET item == d.value.holds[3][2].holds[1][2]
        schemas == Keys(Schemas(d.value))
    IN  \/ Len(item.holds) = 2
        \/ \E i \in DOMAIN item.holds :
             IsObject(item.holds[i][2]) /\ Get(item.holds[i][2], <<"parameters">>, L(<< >>)).holds = <<Parameter("a"), Parameter("a")>>
        \/ <<"Order", ".", "total">> \in schemas

\* An accepted document has facts that cannot be compared exactly when it
\* spells a method twice, repeats a parameter, or names a schema like a property.
IncomparableExplained == \A d \in Documents : Indexed(ExtractFacts(d)) <=> ~Repeats(d)
ASSUME IncomparableExplained

\* The tuple handed to an operation without security of its own is not a list:
\* no fact is ever marked inherited, and the operation's protection shows in
\* the global fact only.
InheritanceNeverRecorded ==
    \A d \in Documents : \A f \in ExtractFacts(d) :
       f.kind = "security" /\ "inherited" \in DOMAIN f.attributes => f.attributes.inherited = Flag(FALSE)
ASSUME InheritanceNeverRecorded

Comparable == {ExtractFacts(d) : d \in {e \in Documents : ~Repeats(e)}}

\* A difference is empty for equal facts only, reads the same backwards, and
\* carries one extraction over to the other.
Backwards(d) ==
    [d EXCEPT !.before = d.after, !.after = d.before,
              !.kind = CASE d.kind = "added" -> "removed" [] d.kind = "removed" -> "added" [] OTHER -> "changed"]
DifferencesExact ==
    \A a, b \in Comparable :
       LET diff == DiffFacts(a, b) IN
       /\ diff = {} <=> a = b
       /\ DiffFacts(b, a) = {Backwards(d) : d \in diff}
       /\ b = (a \ UNION {d.before : d \in diff}) \cup UNION {d.after : d \in diff}
ASSUME DifferencesExact

\* Expectations that spell the facts of one extraction
KindOf(fact) == IF fact.kind = "schema" THEN "field" ELSE fact.kind
Expected(attributes) ==
    LET names == SetToSortSeq({n \in DOMAIN attributes : CheckPosition(n) < 5},
                              LAMBDA x, y : CheckPosition(x) < CheckPosition(y))
    IN  [i \in DOMAIN names |-> <<names[i], attributes[names[i]], TRUE>>]
Expect(fact) ==
    [citation |-> fact.pointer, blank |-> FALSE, kind |-> KindOf(fact), identifier |-> fact.identifier,
     expected |-> Expected(fact.attributes)]
Expectations(facts) ==
    {e \in {Expect(f) : f \in {g \in facts : g.kind \in {"schema", "operation", "security"}}} :
       e.kind # "operation" => e.expected # << >>}

\* What one revision says is met by itself, and another revision misses it only
\* where the difference of the two reports that fact removed or changed.
MismatchesAreDifferences ==
    \A a, b \in {c \in Comparable : Cardinality(c) <= 8} :
       LET es == SetToSeq(Expectations(a))
           found == AnalyzeConsistency(es, b)
       IN  /\ AnalyzeConsistency(es, a) = {}
           /\ \A m \in found : \E d \in DiffFacts(a, b) :
                d.key = <<ExpectedFactKind(m.key[2]), m.key[3]>> /\ d.kind # "added"
           /\ \A d \in DiffFacts(a, b) :
                d.kind = "removed" /\ (\E i \in DOMAIN es : <<ExpectedFactKind(es[i].kind), es[i].identifier>> = d.key)
                  => \E m \in found : <<ExpectedFactKind(m.key[2]), m.key[3]>> = d.key
           /\ es # << >> =>
                LET measured == MeasureBaseline(ToSet(es), found)
                IN  measured.false_positives = 0 /\ (measured.detected = measured.total <=> Cardinality(found) = Len(es))
ASSUME MismatchesAreDifferences
=============================================================================
