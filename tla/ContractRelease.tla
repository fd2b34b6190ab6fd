----------------------------- MODULE ContractRelease -----------------------------
(***************************************************************************)
(* An engine that releases its contract through `invokta contract diff     *)
(* --fail-on-potentially-breaking`: a new snapshot becomes the baseline    *)
(* only when the command exits with 0.  built is the contract some client  *)
(* was written against, releases ago.                                      *)
(***************************************************************************)
EXTENDS Integers, Sequences, FiniteSets

CONSTANTS
    Families,   \* sets of snapshots; a release stays in its family
    Kinds,      \* sets of schemas, those inside their members included
    Height,     \* how deep a schema is nested
    Values,     \* the JSON values that are sent, and the values inside them
    Undefined, Invalid, LengthsOf, NamesOf,          \* see ContractKeywords,
    Compared(_, _, _), Accepted(_, _), Sent(_, _, _) \* and ContractMeaning

ASSUME DiffAssumption == Undefined # Invalid

INSTANCE ContractMeaning

VARIABLES built, baseline

vars == <<built, baseline>>

-----------------------------------------------------------------------------
(* What the two sides of a contract expect of the next one.                *)
CallerServed(before, after) ==
    /\ after.access = before.access \/ after.access = "public"
    /\ ShorterTimeout(before.timeoutMs, after.timeoutMs) = FALSE
    /\ \A value \in Values :
          Accepts(before.inputSchema, value)
          /\ Sends(value, before.inputSchema, after.inputSchema)
              => Accepts(after.inputSchema, value)

Promises(before, after) ==
    \A value \in Values : Accepts(after, value) => Accepts(before, value)

ConsumerServed(before, after) ==
    /\ Promises(before.outputSchema, after.outputSchema)
    /\ \A code \in DOMAIN before.errors :
          /\ code \in DOMAIN after.errors
          /\ after.errors[code].retryable = before.errors[code].retryable
          /\ before.errors[code].details # Undefined =>
                /\ after.errors[code].details # Undefined
                /\ Promises(before.errors[code].details, after.errors[code].details)

-----------------------------------------------------------------------------
(* What is assumed of the schemas and the values: JSON documents, nested   *)
(* finitely deep.  A keyword may have any shape, Invalid if it is not the  *)
(* one JSON Schema gives it.  As schema libraries emit them, schemas name  *)
(* the properties they require: of one that is required but not named the  *)
(* comparison does not notice when it is no longer required.               *)
Bounds == {"minimum", "exclusiveMinimum", "maximum", "exclusiveMaximum"}

Nested(schema) ==
    LET rules(keywords) == {schema[k] : k \in keywords \cap DOMAIN schema} \ {Invalid}
    IN  rules({"items", "additionalProperties", "not"}) \cup
        UNION {{rule[k] : k \in DOMAIN rule} :
                   rule \in rules({"properties", "patternProperties", "anyOf"})}

WellFormed(schema, kind) ==
    /\ schema = [k \in DOMAIN schema |-> schema[k]]
    /\ \A k \in DOMAIN schema :
          /\ schema[k] # Undefined
          /\ schema[k] # Invalid =>
                /\ k = "enum" => schema[k] \subseteq Values
                /\ k \in Bounds => schema[k] \in Int
                /\ k \in LowerCounts \cup UpperCounts => schema[k] \in Nat
                /\ k = "uniqueItems" => schema[k] \in BOOLEAN
                /\ k = "anyOf" => schema[k] \in Seq(kind \cup {Invalid})
    /\ "const" \in DOMAIN schema => schema["const"] \in Values
    /\ "const" \in DOMAIN schema /\ Own(schema, "enum") # Invalid =>
          ReadValues(schema) \notin {Undefined, Invalid}
    /\ \A k \in (Bounds \cup LowerCounts \cup UpperCounts) \cap DOMAIN schema :
          \A exclusive \in BOOLEAN :
              [value |-> schema[k], exclusive |-> exclusive] \notin {Undefined, Invalid}
    /\ Invalid \notin {ReadRequired(schema), ReadProperties(schema)} =>
          ReadRequired(schema) \subseteq DOMAIN ReadProperties(schema)

SchemaAssumption ==
    \A kind \in Kinds :
        /\ {Anything, Never} \subseteq kind
        /\ {Undefined, Invalid} \cap (kind \cup {NullSchema}) = {}
        /\ NullSchema["type"] \notin {Undefined, Invalid}
        /\ Height[Anything] = 0 /\ Height[Never] = 0
        /\ \A schema \in kind :
              /\ WellFormed(schema, kind)
              /\ Height[schema] \in Nat
              /\ \A inner \in Nested(schema) \ {Invalid} :
                    inner \in kind /\ Height[inner] < Height[schema]
              /\ Invalid \notin {Own(schema, "type"), Own(schema, "enum")} =>
                    LET nonNull == NonNull(schema)
                        branches == <<NullSchema, nonNull>>
                    IN  /\ nonNull \in kind /\ Height[nonNull] <= Height[schema]
                        /\ Invalid \notin {Own(nonNull, "type"), Own(nonNull, "enum")}
                        /\ {Undefined, Invalid} \cap {branches, [anyOf |-> branches]} = {}

ValueAssumption ==
    /\ {Undefined, Invalid} \cap ({NullValue} \cup Values) = {}
    /\ \A value \in Values :
          /\ value[1] \in {"null", "boolean", "number", "string", "array", "object"}
          /\ value[1] = "null" => value = NullValue
          /\ value[1] \in {"number", "string"} => value[2] \in Int
          /\ value[1] = "array" => value[2] \in Seq(Values)
          /\ value[1] = "object" =>
                /\ IsFiniteSet(DOMAIN value[2])
                /\ \A name \in DOMAIN value[2] : value[2][name] \in Values

(* What the operators say of a schema inside a schema, and of a value      *)
(* inside a value, is what they say of it at the top.                      *)
RecursionAssumption ==
    \A kind \in Kinds : \A schema \in kind \cup {Invalid} :
        /\ \A value \in Values : Accepted(schema, value) = Accepts(schema, value)
        /\ \A next \in kind \cup {Invalid} :
              /\ \A direction \in {"input", "output"} :
                    Compared(direction, schema, next) = CompareSchema(direction, schema, next)
              /\ \A value \in Values : Sent(value, schema, next) = Sends(value, schema, next)

Fields ==
    {"description", "access", "timeoutMs", "annotations", "deprecated",
     "inputSchema", "outputSchema", "errors"}

SnapshotAssumption ==
    \A F \in Families : \E kind \in Kinds :
        \A snapshot \in F : \A id \in DOMAIN snapshot.capabilities :
            LET capability == snapshot.capabilities[id]
            IN  /\ DOMAIN capability = Fields
                /\ capability.timeoutMs \in Nat \cup {Undefined}
                /\ {capability.inputSchema, capability.outputSchema} \subseteq kind
                /\ \A code \in DOMAIN capability.errors :
                      capability.errors[code].details \in kind \cup {Undefined}

ASSUME ContractAssumption ==
    SchemaAssumption /\ ValueAssumption /\ RecursionAssumption /\ SnapshotAssumption

-----------------------------------------------------------------------------
(* The two snapshots of a family that the command lets follow each other.  *)
Compatible ==
    UNION {{pair \in F \X F :
               ExitCode(DiffContractSnapshots(pair[1], pair[2]), TRUE) = 0} : F \in Families}

Init ==
    /\ built \in UNION Families
    /\ baseline = built

(* The accepted snapshot replaces contract.json.                           *)
Release(next) ==
    /\ <<baseline, next>> \in Compatible
    /\ baseline' = next
    /\ UNCHANGED built

Next == \E F \in {G \in Families : baseline \in G} : \E next \in F : Release(next)

Spec == Init /\ [][Next]_vars

-----------------------------------------------------------------------------
Served(before, after, WellServed(_, _)) ==
    \A id \in DOMAIN before.capabilities :
        /\ id \in DOMAIN after.capabilities
        /\ WellServed(before.capabilities[id], after.capabilities[id])

(* diffContractSnapshots: "A change the JSON Schema comparison cannot      *)
(* decide is potentially breaking, never guessed compatible": a release    *)
(* that is let through rejects nothing the one before it accepted, asks    *)
(* nobody for more, and gives no call less time.                           *)
CallersKeepWorking == [][Served(baseline, baseline', CallerServed)]_vars

(* However many releases were let through since, whatever the engine now   *)
(* returns is what the contract a client was written against promised.     *)
ConsumersKeepWorking == Served(built, baseline, ConsumerServed)

(* Schema libraries write a nullable value as a type or as an anyOf; "both *)
(* decompose to the same view".                                            *)
Respelled(schema) ==
    IF /\ "type" \in DOMAIN schema
       /\ Invalid \notin {schema["type"], Own(schema, "enum")}
       /\ DOMAIN schema \cap (NullOpaque \cup Documentation) = {}
       /\ Accepts(schema, NullValue)
       /\ schema["type"] # {"null"} /\ Own(schema, "enum") # {NullValue}
       /\ "const" \notin DOMAIN schema
    THEN [anyOf |-> <<NullSchema,
                      [k \in DOMAIN schema |->
                          CASE k = "type" -> schema["type"] \ {"null"}
                            [] k = "enum" -> schema["enum"] \ {NullValue}
                            [] OTHER -> schema[k]]>>]
    ELSE schema

(* A library that spells nulls the other way changes no contract.          *)
SpellingIsFree ==
    \A id \in DOMAIN baseline.capabilities :
        LET c == baseline.capabilities[id]
            d == [c EXCEPT !.inputSchema = Respelled(@), !.outputSchema = Respelled(@)]
        IN  CompareCapability(c, d) = {} /\ CompareCapability(d, c) = {}
=============================================================================
