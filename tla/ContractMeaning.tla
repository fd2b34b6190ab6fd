-------------------------- MODULE ContractMeaning --------------------------
(***************************************************************************)
(* What a schema accepts, from the meaning JSON Schema gives to its        *)
(* keywords, and not from the code that compares schemas; and what         *)
(* contract-evolution.mdx takes a caller to send.                          *)
(*                                                                         *)
(* A JSON value is <<type, content>>: a number is twice itself, a string   *)
(* its length.                                                             *)
(***************************************************************************)
EXTENDS ContractDiff, Integers

CONSTANTS
    LengthsOf,       \* the lengths a pattern matches
    NamesOf,         \* the property names a pattern matches
    Accepted(_, _),  \* Accepts, of the schemas inside a schema
    Sent(_, _, _)    \* Sends, of the values inside a value

-----------------------------------------------------------------------------
(* The meaning of a schema.                                                *)

HasType(value, type) ==
    \/ value[1] = type
    \/ type = "integer" /\ value[1] = "number" /\ value[2] % 2 = 0

(* The names patternProperties governs, and every schema for one name.     *)
Patterns(schema) ==
    IF "patternProperties" \in DOMAIN schema THEN schema["patternProperties"] ELSE Anything

Governing(schema, name) ==
    LET named == {ReadProperties(schema)[n] : n \in DOMAIN ReadProperties(schema) \cap {name}}
        matched == {Patterns(schema)[p] :
                        p \in {q \in DOMAIN Patterns(schema) : name \in NamesOf[q]}}
    IN  IF named \cup matched # {} THEN named \cup matched
        ELSE {Own(schema, "additionalProperties")} \ {Undefined}

Meets(schema, keyword, value) ==
    LET rule == schema[keyword]
        type == value[1]
        content == value[2]
    IN  \/ rule = Invalid
        \/ CASE keyword = "type" -> \E t \in rule : HasType(value, t)
             [] keyword = "enum" -> value \in rule
             [] keyword = "const" -> value = rule
             [] keyword = "minimum" -> type = "number" => content >= 2 * rule
             [] keyword = "maximum" -> type = "number" => content <= 2 * rule
             [] keyword = "exclusiveMinimum" -> type = "number" => content > 2 * rule
             [] keyword = "exclusiveMaximum" -> type = "number" => content < 2 * rule
             [] keyword = "multipleOf" -> type = "number" => content % (2 * rule) = 0
             [] keyword = "minLength" -> type = "string" => content >= rule
             [] keyword = "maxLength" -> type = "string" => content <= rule
             [] keyword = "pattern" -> type = "string" => content \in LengthsOf[rule]
             [] keyword = "minItems" -> type = "array" => Len(content) >= rule
             [] keyword = "maxItems" -> type = "array" => Len(content) <= rule
             [] keyword = "uniqueItems" ->
                    type = "array" /\ rule =>
                        \A i, j \in DOMAIN content : content[i] = content[j] => i = j
             [] keyword = "items" ->
                    type = "array" => \A i \in DOMAIN content : Accepted(rule, content[i])
             [] keyword = "minProperties" ->
                    type = "object" => Cardinality(DOMAIN content) >= rule
             [] keyword = "maxProperties" ->
                    type = "object" => Cardinality(DOMAIN content) <= rule
             [] keyword = "required" -> type = "object" => rule \subseteq DOMAIN content
             [] keyword = "anyOf" -> \E i \in DOMAIN rule : Accepted(rule[i], value)
             [] keyword = "not" -> ~Accepted(rule, value)
             [] OTHER -> TRUE

Accepts(schema, value) ==
    CASE schema = Invalid -> TRUE
      [] schema = Never -> FALSE
      [] OTHER ->
             /\ \A k \in DOMAIN schema : Meets(schema, k, value)
             /\ value[1] = "object" =>
                    \A name \in DOMAIN value[2] :
                        \A s \in Governing(schema, name) : Accepted(s, value[2][name])

-----------------------------------------------------------------------------
(* What a caller does: contract-evolution.mdx calls a new optional input   *)
(* property compatible "assuming callers did not already send that         *)
(* property with another type".                                            *)

LeavesOpen(schema) ==
    AdditionalKind(Own(schema, "additionalProperties")) = "open"
    /\ ~HasPatternProperties(schema)

(* The schemas that compareSchema compares for the properties of a name.   *)
Counterparts(before, after, name) ==
    LET was == ReadProperties(before)
        is == ReadProperties(after)
    IN  {<<was[n], is[n]>> : n \in DOMAIN was \cap DOMAIN is \cap {name}}
        \cup {<<before[k], after[k]>> :
                k \in {x \in {"additionalProperties"} \cap DOMAIN before \cap DOMAIN after :
                           name \notin DOMAIN was \cup DOMAIN is}}

SendsInside(value, before, after) ==
    /\ value[1] = "object" =>
           /\ LeavesOpen(before) =>
                 DOMAIN value[2] \cap (DOMAIN ReadProperties(after)
                                       \ DOMAIN ReadProperties(before)) = {}
           /\ \A name \in DOMAIN value[2] :
                 \A pair \in Counterparts(before, after, name) :
                     Sent(value[2][name], pair[1], pair[2])
    /\ value[1] = "array" =>
           \A i \in DOMAIN value[2] :
               Sent(value[2][i], OrAnything(Own(before, "items")), OrAnything(Own(after, "items")))

Sends(value, before, after) ==
    CASE before = after \/ Invalid \in {before, after} -> TRUE
      [] OTHER ->
             IF ComparesViews(before, after)
             THEN Sent(value, ViewOf(before)[1].inner, ViewOf(after)[1].inner)
             ELSE SendsInside(value, before, after)
=============================================================================
