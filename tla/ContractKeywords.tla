---------------------------- MODULE ContractKeywords ----------------------------
(***************************************************************************)
(* packages/tooling/src/contract-diff.ts: how `invokta contract diff`      *)
(* classifies a change of the keywords that restrict a value on their own. *)
(*                                                                         *)
(* A schema is the function from the keywords it has to their values, as   *)
(* contract-snapshot.ts reads it: required, type and enum are sets, since  *)
(* a snapshot holds them sorted.  The schema true is Anything, the schema  *)
(* false is Never.  A change is its code and its severity; its path and    *)
(* message are left out, so equal changes at two places are one.           *)
(***************************************************************************)
EXTENDS Naturals

CONSTANTS
    Undefined, \* a keyword that is absent
    Invalid    \* a value of a shape JSON Schema does not allow

Anything == [k \in {} |-> Undefined]
Never == [never |-> TRUE]

Own(schema, keyword) ==
    IF keyword \in DOMAIN schema THEN schema[keyword] ELSE Undefined

Keeps(previous, next, keyword) == Own(previous, keyword) = Own(next, keyword)

Change(code, severity) == {[code |-> code, severity |-> severity]}

-----------------------------------------------------------------------------
(* An input must accept what it accepted, an output promise what it did.   *)
SeverityOf(direction, effect) ==
    CASE effect = "incompatible" -> "breaking"
      [] effect = "unknown" -> "potentially-breaking"
      [] effect = (IF direction = "input" THEN "narrowed" ELSE "widened") -> "breaking"
      [] OTHER -> "compatible"

Effect(direction, code, effect) ==
    IF effect = "none" THEN {} ELSE Change(code, SeverityOf(direction, effect))

Undecidable(direction) == Effect(direction, "KEYWORD_CHANGED", "unknown")

(* From what the new restriction lets through of the old, and back.        *)
EffectOf(widened, narrowed) ==
    CASE widened /\ narrowed -> "none"
      [] widened /\ ~narrowed -> "widened"
      [] ~widened /\ narrowed -> "narrowed"
      [] OTHER -> "incompatible"

Documentation == {"description", "title"}

CompareDocumentation(previous, next) ==
    IF \A k \in Documentation : Keeps(previous, next, k) THEN {}
    ELSE Change("METADATA_CHANGED", "compatible")

-----------------------------------------------------------------------------
(* Keywords that restrict a value on their own.                            *)

CoversType(types, type) == type \in types \/ (type = "integer" /\ "number" \in types)

ContainsTypes(outer, inner) ==
    \/ outer = Undefined
    \/ inner # Undefined /\ \A type \in inner : CoversType(outer, type)

CompareType(direction, previous, next) ==
    LET before == Own(previous, "type")
        after == Own(next, "type")
    IN  IF Invalid \in {before, after}
        THEN IF before = after THEN {} ELSE Undecidable(direction)
        ELSE Effect(direction, "TYPE_CHANGED",
                    EffectOf(ContainsTypes(after, before), ContainsTypes(before, after)))

(* The values that const and enum leave.                                   *)
ReadValues(schema) ==
    LET enumeration == Own(schema, "enum")
    IN  IF enumeration = Invalid \/ "const" \notin DOMAIN schema
        THEN enumeration
        ELSE {v \in {schema["const"]} : enumeration = Undefined \/ v \in enumeration}

ContainsValues(outer, inner) ==
    \/ outer = Undefined
    \/ inner # Undefined /\ inner \subseteq outer

CompareValues(direction, previous, next) ==
    LET before == ReadValues(previous)
        after == ReadValues(next)
    IN  IF Invalid \in {before, after}
        THEN IF Keeps(previous, next, "enum") /\ Keeps(previous, next, "const")
             THEN {} ELSE Undecidable(direction)
        ELSE Effect(direction, "VALUES_CHANGED",
                    EffectOf(ContainsValues(after, before), ContainsValues(before, after)))

Stricter(side, left, right) ==
    IF left.value = right.value
    THEN left.exclusive /\ ~right.exclusive
    ELSE IF side = "lower" THEN left.value > right.value ELSE left.value < right.value

BoundEffect(side, before, after) ==
    EffectOf(after = Undefined \/ (before # Undefined /\ ~Stricter(side, after, before)),
             before = Undefined \/ (after # Undefined /\ ~Stricter(side, before, after)))

Inclusive(value) == [value |-> value, exclusive |-> FALSE]

(* The stricter of the inclusive and the exclusive bound.                  *)
NumericBound(schema, side) ==
    LET inclusive == Own(schema, IF side = "lower" THEN "minimum" ELSE "maximum")
        exclusive == Own(schema, IF side = "lower" THEN "exclusiveMinimum"
                                                   ELSE "exclusiveMaximum")
        candidates ==
            {Inclusive(v) : v \in {inclusive} \ {Undefined}} \cup
            {[value |-> v, exclusive |-> TRUE] : v \in {exclusive} \ {Undefined}}
    IN  CASE Invalid \in {inclusive, exclusive} -> Invalid
          [] candidates = {} -> Undefined
          [] OTHER -> CHOOSE b \in candidates :
                          \A c \in candidates : ~Stricter(side, c, b)

CompareNumericBound(direction, previous, next, side) ==
    LET before == NumericBound(previous, side)
        after == NumericBound(next, side)
    IN  IF Invalid \in {before, after} THEN Undecidable(direction)
        ELSE Effect(direction, "CONSTRAINT_CHANGED", BoundEffect(side, before, after))

LowerCounts == {"minLength", "minItems", "minProperties"}
UpperCounts == {"maxLength", "maxItems", "maxProperties"}

CompareCountBound(direction, previous, next, keyword) ==
    LET before == Own(previous, keyword)
        after == Own(next, keyword)
        AsBound(count) == IF count = Undefined THEN Undefined ELSE Inclusive(count)
        side == IF keyword \in LowerCounts THEN "lower" ELSE "upper"
    IN  CASE before = after -> {}
          [] before # after /\ Invalid \in {before, after} -> Undecidable(direction)
          [] OTHER -> Effect(direction, "CONSTRAINT_CHANGED",
                             BoundEffect(side, AsBound(before), AsBound(after)))

(* Mutant of CompareRestriction: a replaced pattern is taken to be wider.  *)
CompareRestrictionGuessed(direction, previous, next, keyword) ==
    IF Keeps(previous, next, keyword) THEN {}
    ELSE Effect(direction, "CONSTRAINT_CHANGED",
                IF Own(previous, keyword) = Undefined THEN "narrowed" ELSE "widened")

(* pattern, multipleOf: their replacement cannot be compared.              *)
CompareRestriction(direction, previous, next, keyword) ==
    IF Keeps(previous, next, keyword) THEN {}
    ELSE Effect(direction, "CONSTRAINT_CHANGED",
                CASE Own(previous, keyword) = Undefined -> "narrowed"
                  [] Own(next, keyword) = Undefined -> "widened"
                  [] OTHER -> "unknown")

CompareUniqueItems(direction, previous, next) ==
    LET before == Own(previous, "uniqueItems")
        after == Own(next, "uniqueItems")
    IN  CASE before = after -> {}
          [] before # after /\ Invalid \in {before, after} -> Undecidable(direction)
          [] OTHER -> Effect(direction, "CONSTRAINT_CHANGED",
                             EffectOf(after # TRUE, before # TRUE))

CompareFormat(direction, previous, next) ==
    IF Keeps(previous, next, "format") THEN {}
    ELSE Effect(direction, "CONSTRAINT_CHANGED", "unknown")

CompareScalars(direction, previous, next) ==
    CompareType(direction, previous, next)
    \cup CompareValues(direction, previous, next)
    \cup (UNION {CompareNumericBound(direction, previous, next, side) :
                     side \in {"lower", "upper"}})
    \cup (UNION {CompareCountBound(direction, previous, next, k) :
                     k \in LowerCounts \cup UpperCounts})
    \cup (UNION {CompareRestriction(direction, previous, next, k) :
                     k \in {"multipleOf", "pattern"}})
    \cup CompareUniqueItems(direction, previous, next)
    \cup CompareFormat(direction, previous, next)
=============================================================================
