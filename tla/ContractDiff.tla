------------------------------ MODULE ContractDiff ------------------------------
(***************************************************************************)
(* The rest of packages/tooling/src/contract-diff.ts: objects, arrays,     *)
(* nullable schemas, capabilities and engines; and the exit code of the    *)
(* command, from contract.ts.                                              *)
(*                                                                         *)
(* compareSchema calls itself for the schemas inside a schema.  What those *)
(* calls report is a parameter, so that the definitions can be reasoned    *)
(* about; the model gives it CompareSchema, and ContractRelease assumes    *)
(* no more than that it is.                                                *)
(***************************************************************************)
EXTENDS ContractKeywords, Sequences, FiniteSets

CONSTANT Compared(_, _, _)  \* CompareSchema, of the schemas inside a schema

-----------------------------------------------------------------------------
(* Objects and arrays.                                                     *)

AdditionalKind(value) ==
    CASE value = Undefined -> "open"
      [] value = Invalid -> "invalid"
      [] value = Never -> "closed"
      [] OTHER -> IF DOMAIN value = {} THEN "open" ELSE "schema"

(* A closed output that opens is a widening only clients with a cached     *)
(* copy of the closed schema notice: for review, whatever it opens to.     *)
CompareAdditionalProperties(direction, previous, next) ==
    LET before == Own(previous, "additionalProperties")
        after == Own(next, "additionalProperties")
        was == AdditionalKind(before)
        is == AdditionalKind(after)
        narrowed == is = "closed" \/ (was = "open" /\ is = "schema")
    IN  CASE before = after -> {}
          [] before # after /\ "invalid" \in {was, is} -> Undecidable(direction)
          [] before # after /\ was = "schema" /\ is = "schema" ->
                 Compared(direction, before, after)
          [] was = is /\ was \in {"open", "closed"} -> {}
          [] was # is /\ "invalid" \notin {was, is} ->
                 IF direction = "output" /\ was = "closed"
                 THEN Change("ADDITIONAL_PROPERTIES_CHANGED", "potentially-breaking")
                 ELSE Effect(direction, "ADDITIONAL_PROPERTIES_CHANGED",
                             IF narrowed THEN "narrowed" ELSE "widened")

ReadRequired(schema) ==
    IF "required" \in DOMAIN schema THEN schema["required"] ELSE {}

ReadProperties(schema) ==
    IF "properties" \in DOMAIN schema THEN schema["properties"] ELSE Anything

HasPatternProperties(schema) ==
    LET patterns == Own(schema, "patternProperties")
    IN  patterns = Invalid \/ (patterns # Undefined /\ DOMAIN patterns # {})

PropertyRemoved(direction, next) ==
    Change("PROPERTY_REMOVED",
           IF direction = "output" \/ Own(next, "additionalProperties") = Never
           THEN "breaking" ELSE "potentially-breaking")

(* Before it was named, the property was checked by another schema.        *)
GovernedOtherwise(previous, schema) ==
    LET additional == Own(previous, "additionalProperties")
    IN  \/ HasPatternProperties(previous)
        \/ AdditionalKind(additional) = "invalid"
        \/ AdditionalKind(additional) = "schema" /\ additional # schema

CompareAddedProperty(direction, schema, required, previous) ==
    CASE direction = "input" /\ required -> Change("PROPERTY_ADDED", "breaking")
      [] ~(direction = "input" /\ required) /\ GovernedOtherwise(previous, schema) ->
             Change("PROPERTY_ADDED", "potentially-breaking")
      [] OTHER ->
             IF direction = "output" /\ Own(previous, "additionalProperties") = Never
             THEN Change("CLOSED_OUTPUT_PROPERTY_ADDED", "potentially-breaking")
             ELSE Change("PROPERTY_ADDED", "compatible")

(* Mutant of CompareRequired: a property made optional goes unnoticed.     *)
CompareRequiredAdded(direction, name, previous, next) ==
    Effect(direction, "REQUIRED_CHANGED",
           EffectOf(name \in ReadRequired(next) => name \in ReadRequired(previous), TRUE))

CompareRequired(direction, name, previous, next) ==
    Effect(direction, "REQUIRED_CHANGED",
           EffectOf(name \in ReadRequired(next) => name \in ReadRequired(previous),
                    name \in ReadRequired(previous) => name \in ReadRequired(next)))

(* A property only one side names is reported by its name alone: whether   *)
(* it was required, or still is, is not looked at.                         *)
CompareProperty(direction, name, previous, next) ==
    LET before == ReadProperties(previous)
        after == ReadProperties(next)
    IN  CASE name \in DOMAIN before \ DOMAIN after -> PropertyRemoved(direction, next)
          [] name \in DOMAIN after \ DOMAIN before ->
                 CompareAddedProperty(direction, after[name],
                                      name \in ReadRequired(next), previous)
          [] name \in DOMAIN before \cap DOMAIN after ->
                 Compared(direction, before[name], after[name])
                 \cup CompareRequired(direction, name, previous, next)
          [] OTHER -> CompareRequired(direction, name, previous, next)

CompareObject(direction, previous, next) ==
    (IF Invalid \in {ReadProperties(previous), ReadProperties(next),
                     ReadRequired(previous), ReadRequired(next)}
     THEN Undecidable(direction)
     ELSE LET names == DOMAIN ReadProperties(previous) \cup DOMAIN ReadProperties(next)
                       \cup ReadRequired(previous) \cup ReadRequired(next)
          IN  UNION {CompareProperty(direction, name, previous, next) : name \in names})
    \cup CompareAdditionalProperties(direction, previous, next)

OrAnything(items) == IF items = Undefined THEN Anything ELSE items

(* Invalid stands for the array form of items as well.                     *)
CompareItems(direction, previous, next) ==
    LET before == Own(previous, "items")
        after == Own(next, "items")
    IN  CASE before = after -> {}
          [] before # after /\ Invalid \in {before, after} -> Undecidable(direction)
          [] OTHER -> Compared(direction, OrAnything(before), OrAnything(after))

-----------------------------------------------------------------------------
(* Nullable schemas: `type: [T, "null"]` and `anyOf: [S, {type: "null"}]`. *)

NullValue == <<"null", 0>>
NullSchema == [type |-> {"null"}]

(* What is left without null, and whether null is accepted.                *)
View(inner, siblings, nullable) ==
    <<[inner |-> inner, siblings |-> siblings, nullable |-> nullable]>>

NoView == <<>>

Without(schema, keywords) ==
    [k \in DOMAIN schema \ keywords |-> schema[k]]

NullableSiblings == Documentation \cup {"default"}

NullableAnyOf(schema) ==
    LET branches == Own(schema, "anyOf")
        siblings == Without(schema, {"anyOf"})
        isNull == {i \in DOMAIN branches : branches[i] = NullSchema}
        inner == branches[CHOOSE i \in {1, 2} : i \notin isNull]
    IN  CASE branches \in {Undefined, Invalid} -> NoView
          [] branches \notin {Undefined, Invalid} ->
                 IF /\ Len(branches) = 2
                    /\ Cardinality(isNull) = 1
                    /\ inner # Invalid
                    /\ DOMAIN siblings \subseteq NullableSiblings
                 THEN View(inner, siblings, TRUE)
                 ELSE NoView

NullOpaque == {"$ref", "allOf", "anyOf", "if", "not", "oneOf"}

AcceptsNull(types, enumeration, schema) ==
    /\ types = Undefined \/ "null" \in types
    /\ enumeration = Undefined \/ NullValue \in enumeration
    /\ "const" \in DOMAIN schema => schema["const"] = NullValue

(* Mutant of NonNull: null is taken out of the type alone.                 *)
NonNullType(schema) ==
    [k \in DOMAIN schema |-> IF k = "type" THEN schema[k] \ {"null"} ELSE schema[k]]

NonNull(schema) ==
    [k \in DOMAIN schema |->
        CASE k = "type" -> schema[k] \ {"null"}
          [] k = "enum" -> schema[k] \ {NullValue}
          [] OTHER -> schema[k]]

PlainView(schema) ==
    LET types == Own(schema, "type")
        enumeration == Own(schema, "enum")
        onlyNull == \/ types # Undefined /\ types \ {"null"} = {}
                    \/ enumeration # Undefined /\ enumeration \ {NullValue} = {}
                    \/ Own(schema, "const") = NullValue
    IN  IF DOMAIN schema \cap NullOpaque # {} \/ Invalid \in {types, enumeration}
        THEN NoView
        ELSE View(IF onlyNull THEN Never ELSE NonNull(schema), Anything,
                  AcceptsNull(types, enumeration, schema))

CompareNullable(direction, before, after) ==
    Effect(direction, "TYPE_CHANGED",
           EffectOf(before.nullable => after.nullable, after.nullable => before.nullable))
    \cup CompareDocumentation(before.siblings, after.siblings)
    \cup (IF Keeps(before.siblings, after.siblings, "default") THEN {}
          ELSE Undecidable(direction))
    \cup Compared(direction, before.inner, after.inner)

-----------------------------------------------------------------------------
Classified ==
    Documentation \cup LowerCounts \cup UpperCounts \cup
    {"type", "enum", "const", "minimum", "exclusiveMinimum", "maximum",
     "exclusiveMaximum", "multipleOf", "pattern", "uniqueItems", "format",
     "properties", "required", "additionalProperties", "items"}

(* Composition, references, conditions: never guessed.                     *)
CompareOthers(direction, previous, next) ==
    IF \A k \in (DOMAIN previous \cup DOMAIN next) \ Classified : Keeps(previous, next, k)
    THEN {} ELSE Undecidable(direction)

CompareKeywords(direction, previous, next) ==
    CompareDocumentation(previous, next)
    \cup CompareScalars(direction, previous, next)
    \cup CompareObject(direction, previous, next)
    \cup CompareItems(direction, previous, next)
    \cup CompareOthers(direction, previous, next)

ViewOf(schema) ==
    IF NullableAnyOf(schema) # NoView THEN NullableAnyOf(schema) ELSE PlainView(schema)

(* An anyOf against a type, or another anyOf.                              *)
ComparesViews(previous, next) ==
    /\ {NullableAnyOf(previous), NullableAnyOf(next)} # {NoView}
    /\ NoView \notin {ViewOf(previous), ViewOf(next)}

(* compareSchema of previous and next.                                     *)
CompareSchema(direction, previous, next) ==
    CASE previous = next -> {}
      [] previous # next /\ Invalid \in {previous, next} -> Undecidable(direction)
      [] previous # next /\ Invalid \notin {previous, next} /\ Never \in {previous, next} ->
             Effect(direction, "TYPE_CHANGED",
                    IF previous = Never THEN "widened" ELSE "narrowed")
      [] OTHER ->
             IF ComparesViews(previous, next)
             THEN CompareNullable(direction, ViewOf(previous)[1], ViewOf(next)[1])
             ELSE CompareKeywords(direction, previous, next)

-----------------------------------------------------------------------------
(* Capabilities and engines.                                               *)

AccessSeverity(before, after) ==
    CASE after = "public" -> "compatible"
      [] after # "public" /\ before = "public" -> "breaking"
      [] OTHER -> "potentially-breaking"

ShorterTimeout(before, after) ==
    after # Undefined /\ (before = Undefined \/ after < before)

(* The value of a hint a consumer may rely on, and its default.            *)
Guarantee == [readOnly |-> TRUE, destructive |-> FALSE,
              idempotent |-> TRUE, openWorld |-> FALSE]

LostGuarantee(hint, before, after) ==
    LET Meant(value) == IF value = Undefined THEN ~Guarantee[hint] ELSE value
    IN  Meant(before) = Guarantee[hint] /\ Meant(after) # Guarantee[hint]

CompareErrors(previous, next) ==
    LET CompareError(code) ==
            LET before == previous[code]
                after == next[code]
            IN  (IF before.retryable = after.retryable THEN {}
                 ELSE Change("ERROR_RETRYABLE_CHANGED", "potentially-breaking"))
                \cup
                (CASE before.details = after.details -> {}
                   [] before.details # after.details /\ before.details = Undefined ->
                          Change("ERROR_DETAILS_CHANGED", "compatible")
                   [] before.details # after.details /\ after.details = Undefined ->
                          Change("ERROR_DETAILS_CHANGED", "breaking")
                   [] OTHER -> CompareSchema("output", before.details, after.details))
    IN  UNION ({Change("ERROR_REMOVED", "breaking") : code \in DOMAIN previous \ DOMAIN next}
               \cup {Change("ERROR_ADDED", "compatible") : code \in DOMAIN next \ DOMAIN previous}
               \cup {CompareError(code) : code \in DOMAIN previous \cap DOMAIN next})

CompareCapability(before, after) ==
    (IF before.description = after.description THEN {}
     ELSE Change("METADATA_CHANGED", "compatible"))
    \cup (IF before.access = after.access THEN {}
          ELSE Change("ACCESS_CHANGED", AccessSeverity(before.access, after.access)))
    \cup (IF before.timeoutMs = after.timeoutMs THEN {}
          ELSE Change("TIMEOUT_CHANGED",
                      IF ShorterTimeout(before.timeoutMs, after.timeoutMs)
                      THEN "potentially-breaking" ELSE "compatible"))
    \cup (UNION {IF Keeps(before.annotations, after.annotations, hint) THEN {}
                 ELSE Change("ANNOTATIONS_CHANGED",
                             IF LostGuarantee(hint, Own(before.annotations, hint),
                                              Own(after.annotations, hint))
                             THEN "potentially-breaking" ELSE "compatible") :
                     hint \in DOMAIN Guarantee})
    \cup (IF before.deprecated = after.deprecated THEN {}
          ELSE Change("DEPRECATION_CHANGED", "compatible"))
    \cup CompareSchema("input", before.inputSchema, after.inputSchema)
    \cup CompareSchema("output", before.outputSchema, after.outputSchema)
    \cup CompareErrors(before.errors, after.errors)

(* A snapshot is the engine's name and its capabilities by ID.             *)
DiffContractSnapshots(before, after) ==
    (IF before.engine = after.engine THEN {}
     ELSE Change("ENGINE_NAME_CHANGED", "potentially-breaking"))
    \cup (UNION {Change("CAPABILITY_REMOVED", "breaking") :
                     id \in DOMAIN before.capabilities \ DOMAIN after.capabilities})
    \cup (UNION {Change("CAPABILITY_ADDED", "compatible") :
                     id \in DOMAIN after.capabilities \ DOMAIN before.capabilities})
    \cup (UNION {CompareCapability(before.capabilities[id], after.capabilities[id]) :
                     id \in DOMAIN before.capabilities \cap DOMAIN after.capabilities})

(* diffCommand of packages/tooling/src/contract.ts.                        *)
ExitCode(diff, failOnPotentiallyBreaking) ==
    IF \E change \in diff :
           \/ change.severity = "breaking"
           \/ change.severity = "potentially-breaking" /\ failOnPotentiallyBreaking
    THEN 1 ELSE 0
=============================================================================
