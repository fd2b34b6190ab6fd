---------------------------- MODULE MCContractRelease ----------------------------
(* One capability whose input, output or error details vary over a family  *)
(* of schemas, and one whose other fields do.                              *)
EXTENDS ContractRelease, TLC

Of(keyword, values) == {Anything} \cup {keyword :> v : v \in values}
With(A, B) == {a @@ b : a \in A, b \in B}

Number(n) == <<"number", n>>
String(n) == <<"string", n>>
IsString == [type |-> {"string"}]
IsNumber == [type |-> {"number"}]

Numbers ==
    With(Of("type", {{"number"}, {"integer"}}),
    With(Of("minimum", {0}),
    With(Of("exclusiveMinimum", {0}),
    With(Of("maximum", {2}), Of("multipleOf", {1, 2})))))

Strings ==
    With(Of("type", {{"string"}, {"string", "number"}}),
    With(Of("minLength", {1}),
    With(Of("maxLength", {1}),
    With(Of("pattern", {"odd", "even"}), Of("format", {"date"})))))

Enumerations ==
    With(Of("type", {{"string"}, {"string", "null"}, {"null"}, Invalid}),
    With(Of("enum", {{String(1)}, {String(1), String(2)}, {String(1), NullValue}}),
         Of("const", {String(1), NullValue})))

Nullables ==
    LET inner == {Anything, Never, IsString, [type |-> {"string", "null"}],
                  [type |-> {"string"}, minLength |-> 1], [enum |-> {String(1)}]}
        pairs == {<<s, NullSchema>> : s \in inner} \cup {<<NullSchema, s>> : s \in inner}
                 \cup {<<IsString, IsNumber>>}
    IN  With(Of("anyOf", pairs), Of("default", {NullValue}))
        \cup (inner \ {Never})
        \cup {[type |-> {"string", "null"}, enum |-> {String(1), NullValue}],
              [type |-> {"null"}], [const |-> NullValue],
              [not |-> IsString], [not |-> IsNumber],
              [type |-> {"string", "null"}, title |-> "t"]}

(* Every property a schema requires is one it names, as Zod emits it.      *)
Objects ==
    {s \in With({[type |-> {"object"}]},
           With(Of("properties", {[a |-> IsString], [a |-> IsNumber], [x |-> IsString],
                                  [a |-> IsString, x |-> IsString]}),
           With(Of("required", {{"a"}}),
           With(Of("additionalProperties", {Anything, Never, IsString, IsNumber}),
                Of("patternProperties", {[caret |-> IsString]}))))) :
        ReadRequired(s) \subseteq DOMAIN ReadProperties(s)}

Arrays ==
    With({[type |-> {"array"}]},
    With(Of("items", {IsString, Never, [type |-> {"string", "null"}], Invalid}),
    With(Of("uniqueItems", {TRUE, FALSE}),
    With(Of("minItems", {1}), Of("maxItems", {1})))))

(* The same objects, with a count, or behind a nullable anyOf.             *)
Counted ==
    With({[type |-> {"object"}], [type |-> {"object", "null"}]},
    With(Of("properties", {[a |-> IsString]}),
    With(Of("minProperties", {1}), Of("maxProperties", {1}))))
    \cup {[anyOf |-> <<s, NullSchema>>] :
             s \in With({[type |-> {"object"}]}, Of("properties", {[a |-> IsString]}))}

(* Objects inside objects, arrays and nullable anyOfs.                     *)
Deep ==
    LET inner == With({[type |-> {"object"}]},
                 With(Of("properties", {[a |-> IsString], [a |-> IsString, x |-> IsString]}),
                      Of("additionalProperties", {Never, IsString})))
    IN  UNION {{[type |-> {"object"}, properties |-> [a |-> s]],
                [type |-> {"array"}, items |-> s],
                [anyOf |-> <<s, NullSchema>>]} : s \in inner}
        \cup {[type |-> {"array"}]}

SchemaFamilies ==
    {Numbers, Strings, Enumerations, Nullables, Objects, Arrays, Counted, Deep}

Scalars == {NullValue} \cup {Number(n) : n \in 0..5} \cup {String(n) : n \in 0..2}
Members == {String(1), Number(0), NullValue}

RecordsOf(S) == {<<"object", o>> : o \in UNION {[D -> S] : D \in SUBSET {"a", "x"}}}

MCValues ==
    Scalars \cup RecordsOf(Members)
    \cup {<<"array", s>> : s \in UNION {[1..n -> Members] : n \in 0..2}}
    \cup {<<"array", <<o>>>> : o \in RecordsOf({String(1), Number(0)})}
    \cup {<<"object", [a |-> o]>> : o \in RecordsOf({String(1), Number(0)})}

(* With the schemas inside, and what they leave without null.              *)
WithNested(S) ==
    LET inner == UNION {Nested(s) : s \in S} \ {Invalid}
        nonNull == {NonNull(s) : s \in {t \in S : Invalid \notin {Own(t, "type"), Own(t, "enum")}}}
    IN  S \cup inner \cup nonNull

MCKinds ==
    {WithNested(WithNested(S \cup {Anything, Never, IsString})) : S \in SchemaFamilies}

RECURSIVE HeightOf(_)

HeightOf(schema) ==
    LET heights == {0} \cup {1 + HeightOf(s) : s \in Nested(schema) \ {Invalid}}
    IN  CHOOSE h \in heights : \A g \in heights : g <= h

MCHeight == [s \in UNION MCKinds |-> HeightOf(s)]

(* The schemas and values inside are treated as those outside.             *)
RECURSIVE MCCompared(_, _, _), MCAccepted(_, _), MCSent(_, _, _)

MCCompared(direction, previous, next) == CompareSchema(direction, previous, next)
MCAccepted(schema, value) == Accepts(schema, value)
MCSent(value, before, after) == Sends(value, before, after)

MCLengthsOf == [odd |-> {1}, even |-> {0, 2}]
MCNamesOf == [caret |-> {"x"}]

Plain ==
    [description |-> "d", access |-> "public", timeoutMs |-> Undefined,
     annotations |-> Anything, deprecated |-> Undefined, inputSchema |-> IsString,
     outputSchema |-> IsString, errors |-> Anything]

Engine(capabilities) == [engine |-> "e", capabilities |-> capabilities]
Only(capability) == Engine([c |-> capability])

Fails(details) == [FULL |-> [retryable |-> TRUE, details |-> details]]

Described ==
    {[Plain EXCEPT !.access = a, !.timeoutMs = t, !.deprecated = d, !.annotations = h] :
        a \in {"public", "authenticated", "function"}, t \in {Undefined, 1, 2},
        d \in {Undefined, "use another"}, h \in Of("readOnly", BOOLEAN)}

Failing ==
    {[Plain EXCEPT !.errors = e] :
        e \in {Anything, [FULL |-> [retryable |-> FALSE, details |-> IsString]]}
              \cup {Fails(s) : s \in Numbers \cup {Undefined}}}

MCFamilies ==
    {{Only([Plain EXCEPT !.inputSchema = s]) : s \in S} : S \in SchemaFamilies}
    \cup {{Only([Plain EXCEPT !.outputSchema = s]) : s \in S} : S \in SchemaFamilies}
    \cup {{Only(c) : c \in Described}, {Only(c) : c \in Failing},
          {Engine(Anything), Only(Plain), Engine([c |-> Plain, d |-> Plain]),
           [Engine(Anything) EXCEPT !.engine = "f"]}}
=============================================================================
