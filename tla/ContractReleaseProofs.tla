-------------------------- MODULE ContractReleaseProofs --------------------------
(***************************************************************************)
(* Proofs about the comparison of contracts, for every set of schemas of   *)
(* any depth and every set of values.                                      *)
(*                                                                         *)
(* One direction of the comparison is the other with the two schemas       *)
(* exchanged: what is compared must let through, by the wider of the two,  *)
(* what the narrower one accepts.  This is shown keyword by keyword, then  *)
(* for objects, arrays and nullable schemas if it is so for the schemas    *)
(* inside them, and so for all by induction on how deep they are nested.   *)
(***************************************************************************)
EXTENDS ContractRelease, FiniteSetTheorems, WellFoundedInduction, TLAPS

-----------------------------------------------------------------------------
(* Changes.                                                                *)

Alarms == {"breaking", "potentially-breaking"}

Harmless(changes) == \A change \in changes : change.severity \notin Alarms

Directions == {"input", "output"}

(* The schema that must accept what the other one does.                    *)
Wider(direction, previous, next) == IF direction = "input" THEN next ELSE previous
Narrower(direction, previous, next) == IF direction = "input" THEN previous ELSE next

LEMMA HarmlessChange ==
    ASSUME NEW code, NEW severity
    PROVE  Harmless(Change(code, severity)) <=> severity \notin Alarms
BY DEF Harmless, Change

LEMMA HarmlessUnion ==
    /\ \A A, B : Harmless(A \cup B) <=> Harmless(A) /\ Harmless(B)
    /\ \A S : Harmless(UNION S) <=> \A A \in S : Harmless(A)
BY DEF Harmless

LEMMA UndecidableAlarms ==
    ASSUME NEW direction
    PROVE  ~Harmless(Undecidable(direction))
BY HarmlessChange DEF Undecidable, Effect, SeverityOf, Alarms

LEMMA HarmlessEffect ==
    ASSUME NEW direction \in Directions, NEW code,
           NEW effect \in {"none", "widened", "narrowed", "incompatible", "unknown"},
           Harmless(Effect(direction, code, effect))
    PROVE  effect \in {"none", IF direction = "input" THEN "widened" ELSE "narrowed"}
<1>1. CASE effect = "none"
  BY <1>1
<1>2. CASE effect # "none"
  <2>1. SeverityOf(direction, effect) \notin Alarms
    BY <1>2, HarmlessChange DEF Effect
  <2>2. CASE direction = "input"
    BY <1>2, <2>1, <2>2 DEF SeverityOf, Alarms
  <2>3. CASE direction = "output"
    BY <1>2, <2>1, <2>3 DEF SeverityOf, Alarms
  <2> QED BY <2>2, <2>3 DEF Directions
<1> QED BY <1>1, <1>2

(* What the effect of a comparison of two restrictions says of them.       *)
LEMMA HarmlessRestriction ==
    ASSUME NEW direction \in Directions, NEW code,
           NEW widened \in BOOLEAN, NEW narrowed \in BOOLEAN,
           Harmless(Effect(direction, code, EffectOf(widened, narrowed)))
    PROVE  IF direction = "input" THEN widened ELSE narrowed
<1>1. EffectOf(widened, narrowed) \in {"none", "widened", "narrowed", "incompatible"}
  BY Zenon DEF EffectOf
<1>2. EffectOf(widened, narrowed)
          \in {"none", IF direction = "input" THEN "widened" ELSE "narrowed"}
  BY <1>1, HarmlessEffect
<1>3. CASE widened /\ narrowed
  BY <1>3
<1>4. CASE widened /\ ~narrowed
  <2>1. EffectOf(widened, narrowed) = "widened"
    BY <1>4 DEF EffectOf
  <2> QED BY <1>2, <1>4, <2>1 DEF Directions
<1>5. CASE ~widened /\ narrowed
  <2>1. EffectOf(widened, narrowed) = "narrowed"
    BY <1>5 DEF EffectOf
  <2> QED BY <1>2, <1>5, <2>1 DEF Directions
<1>6. CASE ~widened /\ ~narrowed
  <2>1. EffectOf(widened, narrowed) = "incompatible"
    BY <1>6 DEF EffectOf
  <2> QED BY <1>2, <2>1 DEF Directions
<1> QED BY <1>3, <1>4, <1>5, <1>6

-----------------------------------------------------------------------------
(* Keywords.                                                               *)

IsSchema(schema) == \E kind \in Kinds : schema \in kind

LEMMA Absent ==
    ASSUME NEW schema, NEW keyword
    PROVE  /\ keyword \in DOMAIN schema => Own(schema, keyword) = schema[keyword]
           /\ keyword \notin DOMAIN schema => Own(schema, keyword) = Undefined
BY DEF Own

LEMMA KeywordPresent ==
    ASSUME NEW schema, IsSchema(schema), NEW keyword
    PROVE  keyword \in DOMAIN schema <=> Own(schema, keyword) # Undefined
<1>1. PICK kind \in Kinds : schema \in kind
  BY DEF IsSchema
<1>2. WellFormed(schema, kind)
  BY <1>1, ContractAssumption DEF SchemaAssumption
<1> QED BY <1>2 DEF WellFormed, Own

(* The keyword, if the schema has it, lets the value through.              *)
MeetsOwn(schema, keyword, value) == keyword \in DOMAIN schema => Meets(schema, keyword, value)

LEMMA MeetsSame ==
    ASSUME NEW s, NEW t, IsSchema(s), IsSchema(t), NEW keyword, NEW value,
           Own(s, keyword) = Own(t, keyword), MeetsOwn(s, keyword, value)
    PROVE  MeetsOwn(t, keyword, value)
<1> SUFFICES ASSUME keyword \in DOMAIN t PROVE Meets(t, keyword, value)
  BY DEF MeetsOwn
<1>1. keyword \in DOMAIN s /\ s[keyword] = t[keyword]
  BY KeywordPresent, Absent
<1>2. Meets(s, keyword, value)
  BY <1>1 DEF MeetsOwn
<1> QED BY <1>1, <1>2 DEF Meets

LEMMA MeetsInvalid ==
    ASSUME NEW schema, NEW keyword, NEW value,
           Own(schema, keyword) \in {Undefined, Invalid}, IsSchema(schema)
    PROVE  MeetsOwn(schema, keyword, value)
BY KeywordPresent, Absent DEF MeetsOwn, Meets

(* Each keyword, one at a time.                                            *)
LEMMA MeetsType ==
    ASSUME NEW s, NEW v, "type" \in DOMAIN s
    PROVE  Meets(s, "type", v) <=> s["type"] = Invalid \/ \E t \in s["type"] : HasType(v, t)
BY DEF Meets

LEMMA MeetsValues ==
    ASSUME NEW s, NEW v
    PROVE  /\ Meets(s, "enum", v) <=> s["enum"] = Invalid \/ v \in s["enum"]
           /\ Meets(s, "const", v) <=> s["const"] = Invalid \/ v = s["const"]
BY DEF Meets

LEMMA MeetsBounds ==
    ASSUME NEW s, NEW v
    PROVE  /\ Meets(s, "minimum", v) <=>
                 s["minimum"] = Invalid \/ (v[1] = "number" => v[2] >= 2 * s["minimum"])
           /\ Meets(s, "maximum", v) <=>
                 s["maximum"] = Invalid \/ (v[1] = "number" => v[2] <= 2 * s["maximum"])
           /\ Meets(s, "exclusiveMinimum", v) <=>
                 s["exclusiveMinimum"] = Invalid
                 \/ (v[1] = "number" => v[2] > 2 * s["exclusiveMinimum"])
           /\ Meets(s, "exclusiveMaximum", v) <=>
                 s["exclusiveMaximum"] = Invalid
                 \/ (v[1] = "number" => v[2] < 2 * s["exclusiveMaximum"])
<1>1. Meets(s, "minimum", v) <=>
          s["minimum"] = Invalid \/ (v[1] = "number" => v[2] >= 2 * s["minimum"])
  BY DEF Meets
<1>2. Meets(s, "maximum", v) <=>
          s["maximum"] = Invalid \/ (v[1] = "number" => v[2] <= 2 * s["maximum"])
  BY DEF Meets
<1>3. Meets(s, "exclusiveMinimum", v) <=>
          s["exclusiveMinimum"] = Invalid
          \/ (v[1] = "number" => v[2] > 2 * s["exclusiveMinimum"])
  BY DEF Meets
<1>4. Meets(s, "exclusiveMaximum", v) <=>
          s["exclusiveMaximum"] = Invalid
          \/ (v[1] = "number" => v[2] < 2 * s["exclusiveMaximum"])
  BY DEF Meets
<1> QED BY <1>1, <1>2, <1>3, <1>4

-----------------------------------------------------------------------------
(* Type, enum and const.                                                   *)

LEMMA CoveredType ==
    ASSUME NEW types, NEW type, CoversType(types, type),
           NEW value \in Values, HasType(value, type)
    PROVE  \E t \in types : HasType(value, t)
<1>1. value[1] # "integer"
  BY ContractAssumption DEF ValueAssumption
<1>2. CASE type \in types
  BY <1>2
<1>3. CASE type = "integer" /\ "number" \in types
  BY <1>1, <1>3 DEF HasType
<1> QED BY <1>2, <1>3 DEF CoversType

LEMMA TypeKept ==
    ASSUME NEW direction \in Directions, NEW p, NEW n, IsSchema(p), IsSchema(n),
           Harmless(CompareType(direction, p, n)), NEW v \in Values,
           MeetsOwn(Narrower(direction, p, n), "type", v)
    PROVE  MeetsOwn(Wider(direction, p, n), "type", v)
<1> DEFINE w == Wider(direction, p, n)
           i == Narrower(direction, p, n)
           before == Own(p, "type")
           after == Own(n, "type")
<1>1. IsSchema(w) /\ IsSchema(i)
  BY DEF Wider, Narrower
<1>2. CASE before = after
  <2>1. Own(w, "type") = Own(i, "type")
    BY <1>2 DEF Wider, Narrower
  <2> QED BY <1>1, <2>1, MeetsSame
<1>3. CASE before # after
  <2>1. Invalid \notin {before, after}
    BY <1>3, UndecidableAlarms DEF CompareType
  <2>2. Harmless(Effect(direction, "TYPE_CHANGED",
                        EffectOf(ContainsTypes(after, before), ContainsTypes(before, after))))
    BY <2>1 DEF CompareType
  <2>3. ContainsTypes(after, before) \in BOOLEAN /\ ContainsTypes(before, after) \in BOOLEAN
    BY DEF ContainsTypes
  <2>4. ContainsTypes(Own(w, "type"), Own(i, "type"))
    BY <2>2, <2>3, HarmlessRestriction DEF Wider, Narrower
  <2> SUFFICES ASSUME "type" \in DOMAIN w PROVE Meets(w, "type", v)
    BY DEF MeetsOwn
  <2>5. Own(w, "type") = w["type"] /\ Own(w, "type") # Undefined
    BY <1>1, KeywordPresent, Absent
  <2>6. /\ "type" \in DOMAIN i /\ Own(i, "type") = i["type"]
        /\ \A type \in i["type"] : CoversType(w["type"], type)
    BY <1>1, <2>4, <2>5, KeywordPresent, Absent DEF ContainsTypes
  <2>7. i["type"] # Invalid
    BY <2>1, <2>6 DEF Narrower
  <2>8. PICK t \in i["type"] : HasType(v, t)
    BY <2>6, <2>7, MeetsType DEF MeetsOwn
  <2>9. \E t2 \in w["type"] : HasType(v, t2)
    BY <2>6, <2>8, CoveredType
  <2> QED BY <2>9, MeetsType
<1> QED BY <1>2, <1>3

(* The values that const and enum leave are those that meet both.          *)
LEMMA ReadValuesMeans ==
    ASSUME NEW s, IsSchema(s), NEW v, ReadValues(s) # Invalid
    PROVE  MeetsOwn(s, "enum", v) /\ MeetsOwn(s, "const", v)
           <=> ReadValues(s) = Undefined \/ v \in ReadValues(s)
<1> DEFINE enumeration == Own(s, "enum")
<1>1. PICK kind \in Kinds : s \in kind
  BY DEF IsSchema
<1>2. WellFormed(s, kind) /\ {Undefined, Invalid} \cap Values = {}
  BY <1>1, ContractAssumption DEF SchemaAssumption, ValueAssumption
<1>3. "const" \in DOMAIN s => s["const"] # Invalid
  BY <1>2 DEF WellFormed
<1>4. CASE "const" \notin DOMAIN s
  <2>1. ReadValues(s) = enumeration
    BY <1>4 DEF ReadValues
  <2>2. MeetsOwn(s, "const", v)
    BY <1>4 DEF MeetsOwn
  <2>3. CASE "enum" \in DOMAIN s
    <3>1. enumeration = s["enum"] /\ enumeration # Undefined
      BY <2>3, KeywordPresent, Absent
    <3> QED BY <2>1, <2>2, <2>3, <3>1, MeetsValues DEF MeetsOwn
  <2>4. CASE "enum" \notin DOMAIN s
    BY <2>1, <2>2, <2>4, Absent DEF MeetsOwn
  <2> QED BY <2>3, <2>4
<1>5. CASE "const" \in DOMAIN s /\ enumeration # Invalid
  <2>1. ReadValues(s) = {x \in {s["const"]} : enumeration = Undefined \/ x \in enumeration}
    BY <1>5 DEF ReadValues
  <2>2. ReadValues(s) # Undefined
    BY <1>2, <1>5 DEF WellFormed
  <2>3. MeetsOwn(s, "const", v) <=> v = s["const"]
    BY <1>3, <1>5, MeetsValues DEF MeetsOwn
  <2>4. MeetsOwn(s, "enum", v) <=> enumeration = Undefined \/ v \in enumeration
    BY <1>5, KeywordPresent, Absent, MeetsValues DEF MeetsOwn
  <2> QED BY <2>1, <2>2, <2>3, <2>4
<1>6. CASE enumeration = Invalid
  BY <1>6 DEF ReadValues
<1> QED BY <1>4, <1>5, <1>6

LEMMA ValuesKept ==
    ASSUME NEW direction \in Directions, NEW p, NEW n, IsSchema(p), IsSchema(n),
           Harmless(CompareValues(direction, p, n)), NEW v \in Values,
           MeetsOwn(Narrower(direction, p, n), "enum", v),
           MeetsOwn(Narrower(direction, p, n), "const", v)
    PROVE  /\ MeetsOwn(Wider(direction, p, n), "enum", v)
           /\ MeetsOwn(Wider(direction, p, n), "const", v)
<1> DEFINE w == Wider(direction, p, n)
           i == Narrower(direction, p, n)
           before == ReadValues(p)
           after == ReadValues(n)
<1>1. IsSchema(w) /\ IsSchema(i)
  BY DEF Wider, Narrower
<1>2. CASE Invalid \in {before, after}
  <2>1. Keeps(p, n, "enum") /\ Keeps(p, n, "const")
    BY <1>2, UndecidableAlarms DEF CompareValues
  <2>2. Own(w, "enum") = Own(i, "enum") /\ Own(w, "const") = Own(i, "const")
    BY <2>1 DEF Keeps, Wider, Narrower
  <2> QED BY <1>1, <2>2, MeetsSame
<1>3. CASE Invalid \notin {before, after}
  <2>1. Harmless(Effect(direction, "VALUES_CHANGED",
                        EffectOf(ContainsValues(after, before), ContainsValues(before, after))))
    BY <1>3 DEF CompareValues
  <2>2. ContainsValues(after, before) \in BOOLEAN /\ ContainsValues(before, after) \in BOOLEAN
    BY DEF ContainsValues
  <2>3. ContainsValues(ReadValues(w), ReadValues(i))
    BY <2>1, <2>2, HarmlessRestriction DEF Wider, Narrower
  <2>4. ReadValues(w) # Invalid /\ ReadValues(i) # Invalid
    BY <1>3 DEF Wider, Narrower
  <2>5. ReadValues(i) = Undefined \/ v \in ReadValues(i)
    BY <1>1, <2>4, ReadValuesMeans
  <2>6. ReadValues(w) = Undefined \/ v \in ReadValues(w)
    BY <2>3, <2>5 DEF ContainsValues
  <2> QED BY <1>1, <2>4, <2>6, ReadValuesMeans
<1> QED BY <1>2, <1>3

-----------------------------------------------------------------------------
(* Bounds of numbers.                                                      *)

Sides == {"lower", "upper"}
Bound == [value : Int, exclusive : BOOLEAN]

(* The bound lets the number x/2 through.                                  *)
Lets(side, bound, x) ==
    \/ x = 2 * bound.value /\ ~bound.exclusive
    \/ side = "lower" /\ x > 2 * bound.value
    \/ side = "upper" /\ x < 2 * bound.value

LetsOwn(side, bound, x) == bound = Undefined \/ Lets(side, bound, x)

LEMMA StricterLets ==
    ASSUME NEW side \in Sides, NEW a \in Bound, NEW b \in Bound, NEW x \in Int,
           ~Stricter(side, a, b), Lets(side, b, x)
    PROVE  Lets(side, a, x)
<1>1. /\ a.value \in Int /\ a.exclusive \in BOOLEAN
      /\ b.value \in Int /\ b.exclusive \in BOOLEAN
  BY DEF Bound
<1>2. CASE side = "lower"
  <2>1. IF a.value = b.value THEN a.exclusive => b.exclusive ELSE a.value < b.value
    BY <1>1, <1>2 DEF Stricter
  <2>2. (x = 2 * b.value /\ ~b.exclusive) \/ x > 2 * b.value
    BY <1>2 DEF Lets
  <2>3. (x = 2 * a.value /\ ~a.exclusive) \/ x > 2 * a.value
    BY <1>1, <2>1, <2>2
  <2> QED BY <1>2, <2>3 DEF Lets
<1>3. CASE side = "upper"
  <2>1. IF a.value = b.value THEN a.exclusive => b.exclusive ELSE a.value > b.value
    BY <1>1, <1>3 DEF Stricter
  <2>2. (x = 2 * b.value /\ ~b.exclusive) \/ x < 2 * b.value
    BY <1>3 DEF Lets
  <2>3. (x = 2 * a.value /\ ~a.exclusive) \/ x < 2 * a.value
    BY <1>1, <2>1, <2>2
  <2> QED BY <1>3, <2>3 DEF Lets
<1> QED BY <1>2, <1>3 DEF Sides

LEMMA BoundKept ==
    ASSUME NEW direction \in Directions, NEW side \in Sides, NEW code, NEW x \in Int,
           NEW before \in Bound \cup {Undefined}, NEW after \in Bound \cup {Undefined},
           Harmless(Effect(direction, code, BoundEffect(side, before, after))),
           LetsOwn(side, Narrower(direction, before, after), x)
    PROVE  LetsOwn(side, Wider(direction, before, after), x)
<1> DEFINE w == Wider(direction, before, after)
           i == Narrower(direction, before, after)
           widened == after = Undefined
                      \/ (before # Undefined /\ ~Stricter(side, after, before))
           narrowed == before = Undefined
                       \/ (after # Undefined /\ ~Stricter(side, before, after))
<1>1. Harmless(Effect(direction, code, EffectOf(widened, narrowed)))
  BY DEF BoundEffect
<1>2. widened \in BOOLEAN /\ narrowed \in BOOLEAN
  OBVIOUS
<1>3. IF direction = "input" THEN widened ELSE narrowed
  BY <1>1, <1>2, HarmlessRestriction
<1>4. w = Undefined \/ (i # Undefined /\ ~Stricter(side, w, i))
  BY <1>3 DEF Wider, Narrower
<1>5. w \in Bound \cup {Undefined} /\ i \in Bound \cup {Undefined}
  BY DEF Wider, Narrower
<1> QED BY <1>4, <1>5, StricterLets DEF LetsOwn

InclusiveOf(side) == IF side = "lower" THEN "minimum" ELSE "maximum"
ExclusiveOf(side) == IF side = "lower" THEN "exclusiveMinimum" ELSE "exclusiveMaximum"

LEMMA BoundShapes ==
    ASSUME NEW s, IsSchema(s), NEW k \in Bounds \cup LowerCounts \cup UpperCounts,
           Own(s, k) \notin {Undefined, Invalid}
    PROVE  /\ k \in DOMAIN s /\ Own(s, k) = s[k]
           /\ s[k] \in Int
           /\ k \in LowerCounts \cup UpperCounts => s[k] \in Nat
           /\ \A exclusive \in BOOLEAN :
                 [value |-> s[k], exclusive |-> exclusive] \notin {Undefined, Invalid}
<1>1. PICK kind \in Kinds : s \in kind
  BY DEF IsSchema
<1>2. WellFormed(s, kind)
  BY <1>1, ContractAssumption DEF SchemaAssumption
<1>3. k \in DOMAIN s /\ Own(s, k) = s[k]
  BY Absent
<1>4. s[k] # Invalid
  BY <1>3
<1>5. k \in Bounds => s[k] \in Int
  BY <1>2, <1>3, <1>4 DEF WellFormed
<1>6. k \in LowerCounts \cup UpperCounts => s[k] \in Nat
  BY <1>2, <1>3, <1>4 DEF WellFormed
<1>7. \A exclusive \in BOOLEAN :
          [value |-> s[k], exclusive |-> exclusive] \notin {Undefined, Invalid}
  BY <1>2, <1>3 DEF WellFormed
<1> QED BY <1>3, <1>5, <1>6, <1>7

(* What a schema's bound of one side lets through is what its two keywords *)
(* do.                                                                     *)
LEMMA NumericBoundMeans ==
    ASSUME NEW s, IsSchema(s), NEW side \in Sides, NumericBound(s, side) # Invalid,
           NEW v \in Values, v[1] = "number"
    PROVE  /\ NumericBound(s, side) \in Bound \cup {Undefined}
           /\ MeetsOwn(s, InclusiveOf(side), v) /\ MeetsOwn(s, ExclusiveOf(side), v)
              <=> LetsOwn(side, NumericBound(s, side), v[2])
<1> DEFINE inclusive == Own(s, InclusiveOf(side))
           exclusive == Own(s, ExclusiveOf(side))
           closed == [value |-> inclusive, exclusive |-> FALSE]
           open == [value |-> exclusive, exclusive |-> TRUE]
           candidates == {Inclusive(x) : x \in {inclusive} \ {Undefined}} \cup
                         {[value |-> x, exclusive |-> TRUE] : x \in {exclusive} \ {Undefined}}
           Strictest(b) == \A c \in candidates : ~Stricter(side, c, b)
<1>1. v[2] \in Int
  BY ContractAssumption DEF ValueAssumption
<1>2. NumericBound(s, side) =
         CASE Invalid \in {inclusive, exclusive} -> Invalid
           [] candidates = {} -> Undefined
           [] OTHER -> CHOOSE b \in candidates : Strictest(b)
  BY DEF NumericBound, InclusiveOf, ExclusiveOf
<1>3. InclusiveOf(side) \in Bounds /\ ExclusiveOf(side) \in Bounds
  BY DEF InclusiveOf, ExclusiveOf, Bounds
<1>4. Invalid # Undefined
  BY DiffAssumption
<1>5. Invalid \notin {inclusive, exclusive}
  <2> SUFFICES ASSUME Invalid \in {inclusive, exclusive} PROVE NumericBound(s, side) = Invalid
    OBVIOUS
  <2>1. candidates # {}
    BY <1>4
  <2> HIDE DEF candidates, inclusive, exclusive
  <2> QED BY <1>2, <2>1
<1>6. ASSUME inclusive # Undefined
      PROVE  /\ closed \in Bound /\ closed # Undefined
             /\ InclusiveOf(side) \in DOMAIN s /\ inclusive = s[InclusiveOf(side)]
  <2>1. inclusive \notin {Undefined, Invalid}
    BY <1>5, <1>6
  <2>2. /\ InclusiveOf(side) \in DOMAIN s /\ inclusive = s[InclusiveOf(side)] /\ inclusive \in Int
    BY <1>3, <2>1, BoundShapes
  <2>3. [value |-> s[InclusiveOf(side)], exclusive |-> FALSE] # Undefined
    BY <1>3, <2>1, BoundShapes
  <2>4. closed \in Bound
    BY <2>2 DEF Bound
  <2> QED BY <2>2, <2>3, <2>4
<1>7. ASSUME exclusive # Undefined
      PROVE  /\ open \in Bound /\ open # Undefined
             /\ ExclusiveOf(side) \in DOMAIN s /\ exclusive = s[ExclusiveOf(side)]
  <2>1. exclusive \notin {Undefined, Invalid}
    BY <1>5, <1>7
  <2>2. /\ ExclusiveOf(side) \in DOMAIN s /\ exclusive = s[ExclusiveOf(side)] /\ exclusive \in Int
    BY <1>3, <2>1, BoundShapes
  <2>3. [value |-> s[ExclusiveOf(side)], exclusive |-> TRUE] # Undefined
    BY <1>3, <2>1, BoundShapes
  <2>4. open \in Bound
    BY <2>2 DEF Bound
  <2> QED BY <2>2, <2>3, <2>4
<1>8. MeetsOwn(s, InclusiveOf(side), v) <=> inclusive = Undefined \/ Lets(side, closed, v[2])
  <2>1. CASE inclusive = Undefined
    BY <2>1, KeywordPresent DEF MeetsOwn
  <2>2. CASE inclusive # Undefined
    <3>1. inclusive \in Int
      BY <1>6, <2>2 DEF Bound
    <3>2. MeetsOwn(s, InclusiveOf(side), v) <=> Meets(s, InclusiveOf(side), v)
      BY <1>6, <2>2 DEF MeetsOwn
    <3>3. CASE side = "lower"
      BY <1>1, <1>5, <1>6, <2>2, <3>1, <3>2, <3>3, MeetsBounds DEF InclusiveOf, Lets
    <3>4. CASE side = "upper"
      BY <1>1, <1>5, <1>6, <2>2, <3>1, <3>2, <3>4, MeetsBounds DEF InclusiveOf, Lets
    <3> QED BY <3>3, <3>4 DEF Sides
  <2> QED BY <2>1, <2>2
<1>9. MeetsOwn(s, ExclusiveOf(side), v) <=> exclusive = Undefined \/ Lets(side, open, v[2])
  <2>1. CASE exclusive = Undefined
    BY <2>1, KeywordPresent DEF MeetsOwn
  <2>2. CASE exclusive # Undefined
    <3>1. exclusive \in Int
      BY <1>7, <2>2 DEF Bound
    <3>2. MeetsOwn(s, ExclusiveOf(side), v) <=> Meets(s, ExclusiveOf(side), v)
      BY <1>7, <2>2 DEF MeetsOwn
    <3>3. CASE side = "lower"
      BY <1>1, <1>5, <1>7, <2>2, <3>1, <3>2, <3>3, MeetsBounds DEF ExclusiveOf, Lets
    <3>4. CASE side = "upper"
      BY <1>1, <1>5, <1>7, <2>2, <3>1, <3>2, <3>4, MeetsBounds DEF ExclusiveOf, Lets
    <3> QED BY <3>3, <3>4 DEF Sides
  <2> QED BY <2>1, <2>2
<1>10. candidates = (IF inclusive = Undefined THEN {} ELSE {closed})
                    \cup (IF exclusive = Undefined THEN {} ELSE {open})
  BY DEF Inclusive
<1> HIDE DEF candidates, inclusive, exclusive, closed, open
<1>11. CASE candidates = {}
  <2>1. inclusive = Undefined /\ exclusive = Undefined
    BY <1>10, <1>11
  <2>2. NumericBound(s, side) = Undefined
    BY <1>2, <1>5, <1>11
  <2> QED BY <1>8, <1>9, <2>1, <2>2 DEF LetsOwn
<1>12. CASE candidates # {}
  <2>1. \E b \in candidates : Strictest(b)
    <3>1. \A b \in candidates : b \in Bound
      BY <1>6, <1>7, <1>10
    <3>2. \A b \in candidates : ~Stricter(side, b, b)
      BY <3>1 DEF Stricter, Bound
    <3>3. \A b, c \in candidates : ~Stricter(side, b, c) \/ ~Stricter(side, c, b)
      BY <3>1 DEF Stricter, Bound, Sides
    <3>4. \E b, c : candidates = {b, c}
      BY <1>10, <1>12
    <3> QED BY <3>2, <3>3, <3>4
  <2>2. NumericBound(s, side) = CHOOSE b \in candidates : Strictest(b)
    BY <1>2, <1>5, <1>12
  <2> DEFINE bound == NumericBound(s, side)
  <2>3. bound \in candidates /\ Strictest(bound)
    BY <2>1, <2>2
  <2> HIDE DEF bound
  <2>4. bound \in Bound /\ bound # Undefined
    BY <1>6, <1>7, <1>10, <2>3
  <2>5. ASSUME Lets(side, bound, v[2])
        PROVE  \A c \in candidates : Lets(side, c, v[2])
    BY <1>1, <1>6, <1>7, <1>10, <2>3, <2>4, <2>5, StricterLets
  <2>6. (\A c \in candidates : Lets(side, c, v[2])) <=> Lets(side, bound, v[2])
    BY <2>3, <2>5
  <2>7. (\A c \in candidates : Lets(side, c, v[2])) <=>
            /\ inclusive = Undefined \/ Lets(side, closed, v[2])
            /\ exclusive = Undefined \/ Lets(side, open, v[2])
    BY <1>10
  <2>8. LetsOwn(side, bound, v[2]) <=> Lets(side, bound, v[2])
    BY <2>4 DEF LetsOwn
  <2>9. bound = NumericBound(s, side)
    BY DEF bound
  <2> QED BY <1>8, <1>9, <2>4, <2>6, <2>7, <2>8, <2>9
<1> QED BY <1>11, <1>12

LEMMA BoundsKept ==
    ASSUME NEW direction \in Directions, NEW p, NEW n, IsSchema(p), IsSchema(n),
           NEW side \in Sides, Harmless(CompareNumericBound(direction, p, n, side)),
           NEW v \in Values,
           MeetsOwn(Narrower(direction, p, n), InclusiveOf(side), v),
           MeetsOwn(Narrower(direction, p, n), ExclusiveOf(side), v)
    PROVE  /\ MeetsOwn(Wider(direction, p, n), InclusiveOf(side), v)
           /\ MeetsOwn(Wider(direction, p, n), ExclusiveOf(side), v)
<1> DEFINE w == Wider(direction, p, n)
           i == Narrower(direction, p, n)
           before == NumericBound(p, side)
           after == NumericBound(n, side)
<1>1. IsSchema(w) /\ IsSchema(i)
  BY DEF Wider, Narrower
<1>2. Invalid \notin {before, after}
  BY UndecidableAlarms DEF CompareNumericBound
<1>3. NumericBound(w, side) = Wider(direction, before, after)
      /\ NumericBound(i, side) = Narrower(direction, before, after)
  BY DEF Wider, Narrower
<1>4. CASE v[1] # "number"
  BY <1>4, MeetsBounds, Zenon DEF MeetsOwn, InclusiveOf, ExclusiveOf
<1>5. CASE v[1] = "number"
  <2>1. v[2] \in Int
    BY <1>5, ContractAssumption DEF ValueAssumption
  <2>2. /\ before \in Bound \cup {Undefined} /\ after \in Bound \cup {Undefined}
    BY <1>2, <1>5, NumericBoundMeans
  <2>3. Harmless(Effect(direction, "CONSTRAINT_CHANGED", BoundEffect(side, before, after)))
    BY <1>2 DEF CompareNumericBound
  <2>4. NumericBound(w, side) # Invalid /\ NumericBound(i, side) # Invalid
    BY <1>2 DEF Wider, Narrower
  <2>5. LetsOwn(side, NumericBound(i, side), v[2])
    BY <1>1, <1>5, <2>4, NumericBoundMeans
  <2>6. LetsOwn(side, NumericBound(w, side), v[2])
    BY <1>3, <2>1, <2>2, <2>3, <2>5, BoundKept
  <2> QED BY <1>1, <1>5, <2>4, <2>6, NumericBoundMeans
<1> QED BY <1>4, <1>5

-----------------------------------------------------------------------------
(* Counts, patterns and the rest.                                          *)

Counts == LowerCounts \cup UpperCounts

CountedType(keyword) ==
    IF keyword \in {"minLength", "maxLength"} THEN "string"
    ELSE IF keyword \in {"minItems", "maxItems"} THEN "array" ELSE "object"

Size(v) ==
    IF v[1] = "string" THEN v[2]
    ELSE IF v[1] = "array" THEN Len(v[2]) ELSE Cardinality(DOMAIN v[2])

SideOf(keyword) == IF keyword \in LowerCounts THEN "lower" ELSE "upper"

LEMMA SizeIsInteger ==
    ASSUME NEW v \in Values, v[1] \in {"string", "array", "object"}
    PROVE  Size(v) \in Int
<1>1. v[1] = "string" => v[2] \in Int
  BY ContractAssumption DEF ValueAssumption
<1>2. v[1] = "array" => Len(v[2]) \in Int
  <2>1. v[1] = "array" => v[2] \in Seq(Values)
    BY ContractAssumption DEF ValueAssumption
  <2> QED BY <2>1
<1>3. v[1] = "object" => Cardinality(DOMAIN v[2]) \in Int
  <2>1. v[1] = "object" => IsFiniteSet(DOMAIN v[2])
    BY ContractAssumption DEF ValueAssumption
  <2> QED BY <2>1, FS_CardinalityType
<1> QED BY <1>1, <1>2, <1>3 DEF Size

LEMMA MeetsCount ==
    ASSUME NEW s, NEW v, NEW k \in Counts, s[k] # Invalid
    PROVE  Meets(s, k, v) <=>
               (v[1] = CountedType(k) =>
                   IF k \in LowerCounts THEN Size(v) >= s[k] ELSE Size(v) <= s[k])
<1>1. CASE k = "minLength"
  BY <1>1 DEF Meets, CountedType, Size, LowerCounts
<1>2. CASE k = "maxLength"
  BY <1>2 DEF Meets, CountedType, Size, LowerCounts
<1>3. CASE k = "minItems"
  BY <1>3 DEF Meets, CountedType, Size, LowerCounts
<1>4. CASE k = "maxItems"
  BY <1>4 DEF Meets, CountedType, Size, LowerCounts
<1>5. CASE k = "minProperties"
  BY <1>5 DEF Meets, CountedType, Size, LowerCounts
<1>6. CASE k = "maxProperties"
  BY <1>6 DEF Meets, CountedType, Size, LowerCounts
<1> QED BY <1>1, <1>2, <1>3, <1>4, <1>5, <1>6 DEF Counts, LowerCounts, UpperCounts

AsBound(count) == IF count = Undefined THEN Undefined ELSE Inclusive(count)

LEMMA CountMeans ==
    ASSUME NEW s, IsSchema(s), NEW k \in Counts, Own(s, k) # Invalid,
           NEW v \in Values, v[1] = CountedType(k)
    PROVE  /\ AsBound(Own(s, k)) \in Bound \cup {Undefined}
           /\ MeetsOwn(s, k, v) <=> LetsOwn(SideOf(k), AsBound(Own(s, k)), 2 * Size(v))
<1>1. CASE Own(s, k) = Undefined
  BY <1>1, KeywordPresent DEF AsBound, LetsOwn, MeetsOwn
<1>2. CASE Own(s, k) # Undefined
  <2>1. /\ k \in DOMAIN s /\ Own(s, k) = s[k] /\ s[k] \in Int
        /\ [value |-> s[k], exclusive |-> FALSE] # Undefined
    BY <1>2, BoundShapes DEF Counts
  <2>2. AsBound(Own(s, k)) = [value |-> s[k], exclusive |-> FALSE]
    BY <1>2, <2>1 DEF AsBound, Inclusive
  <2>3. Size(v) \in Int
    BY SizeIsInteger DEF CountedType
  <2>4. MeetsOwn(s, k, v) <=> IF k \in LowerCounts THEN Size(v) >= s[k] ELSE Size(v) <= s[k]
    BY <2>1, MeetsCount DEF MeetsOwn
  <2>5. Lets(SideOf(k), AsBound(Own(s, k)), 2 * Size(v))
        <=> IF k \in LowerCounts THEN Size(v) >= s[k] ELSE Size(v) <= s[k]
    BY <2>1, <2>2, <2>3 DEF Lets, SideOf
  <2>6. AsBound(Own(s, k)) \in Bound
    BY <2>1, <2>2 DEF Bound
  <2> QED BY <2>1, <2>2, <2>4, <2>5, <2>6 DEF LetsOwn
<1> QED BY <1>1, <1>2

LEMMA CountKept ==
    ASSUME NEW direction \in Directions, NEW p, NEW n, IsSchema(p), IsSchema(n),
           NEW k \in Counts, Harmless(CompareCountBound(direction, p, n, k)),
           NEW v \in Values, MeetsOwn(Narrower(direction, p, n), k, v)
    PROVE  MeetsOwn(Wider(direction, p, n), k, v)
<1> DEFINE w == Wider(direction, p, n)
           i == Narrower(direction, p, n)
           before == Own(p, k)
           after == Own(n, k)
<1>1. IsSchema(w) /\ IsSchema(i)
  BY DEF Wider, Narrower
<1>2. CASE before = after
  <2>1. Own(w, k) = Own(i, k)
    BY <1>2 DEF Wider, Narrower
  <2> QED BY <1>1, <2>1, MeetsSame
<1>3. CASE before # after /\ v[1] = CountedType(k)
  <2>1. Invalid \notin {before, after}
    BY <1>3, UndecidableAlarms DEF CompareCountBound
  <2>2. Harmless(Effect(direction, "CONSTRAINT_CHANGED",
                        BoundEffect(SideOf(k), AsBound(before), AsBound(after))))
    BY <1>3, <2>1 DEF CompareCountBound, AsBound, SideOf
  <2>3. AsBound(before) \in Bound \cup {Undefined} /\ AsBound(after) \in Bound \cup {Undefined}
    BY <1>3, <2>1, CountMeans
  <2>4. /\ AsBound(Own(w, k)) = Wider(direction, AsBound(before), AsBound(after))
        /\ AsBound(Own(i, k)) = Narrower(direction, AsBound(before), AsBound(after))
        /\ Own(w, k) # Invalid /\ Own(i, k) # Invalid
    BY <2>1 DEF Wider, Narrower
  <2>5. Size(v) \in Int
    BY <1>3, SizeIsInteger DEF CountedType
  <2>6. 2 * Size(v) \in Int /\ SideOf(k) \in Sides
    BY <2>5 DEF SideOf, Sides
  <2>7. LetsOwn(SideOf(k), AsBound(Own(i, k)), 2 * Size(v))
    BY <1>1, <1>3, <2>4, CountMeans
  <2>8. LetsOwn(SideOf(k), AsBound(Own(w, k)), 2 * Size(v))
    BY <2>2, <2>3, <2>4, <2>6, <2>7, BoundKept
  <2> QED BY <1>1, <1>3, <2>4, <2>8, CountMeans
<1>4. CASE v[1] # CountedType(k)
  <2>1. CASE Own(w, k) \in {Undefined, Invalid}
    BY <1>1, <2>1, MeetsInvalid
  <2>2. CASE Own(w, k) \notin {Undefined, Invalid}
    <3>1. k \in DOMAIN w /\ w[k] # Invalid
      BY <2>2, Absent
    <3> QED BY <1>4, <3>1, MeetsCount DEF MeetsOwn
  <2> QED BY <2>1, <2>2
<1> QED BY <1>2, <1>3, <1>4

LEMMA RestrictionKept ==
    ASSUME NEW direction \in Directions, NEW p, NEW n, IsSchema(p), IsSchema(n),
           NEW k, Harmless(CompareRestriction(direction, p, n, k)),
           NEW v \in Values, MeetsOwn(Narrower(direction, p, n), k, v)
    PROVE  MeetsOwn(Wider(direction, p, n), k, v)
<1> DEFINE w == Wider(direction, p, n)
           i == Narrower(direction, p, n)
           effect == CASE Own(p, k) = Undefined -> "narrowed"
                       [] Own(n, k) = Undefined -> "widened"
                       [] OTHER -> "unknown"
<1>1. IsSchema(w) /\ IsSchema(i)
  BY DEF Wider, Narrower
<1>2. CASE Keeps(p, n, k)
  <2>1. Own(w, k) = Own(i, k)
    BY <1>2 DEF Keeps, Wider, Narrower
  <2> QED BY <1>1, <2>1, MeetsSame
<1>3. CASE ~Keeps(p, n, k)
  <2>1. /\ Own(p, k) = Undefined => effect = "narrowed"
        /\ Own(p, k) # Undefined /\ Own(n, k) = Undefined => effect = "widened"
        /\ Own(p, k) # Undefined /\ Own(n, k) # Undefined => effect = "unknown"
    <3>1. Own(p, k) = Undefined => Own(n, k) # Undefined
      BY <1>3 DEF Keeps
    <3> QED BY <3>1
  <2>2. Harmless(Effect(direction, "CONSTRAINT_CHANGED", effect))
    BY <1>3 DEF CompareRestriction
  <2>3. effect \in {"narrowed", "widened", "unknown"}
    BY <2>1
  <2> HIDE DEF effect
  <2>4. effect = IF direction = "input" THEN "widened" ELSE "narrowed"
    BY <2>2, <2>3, HarmlessEffect
  <2>5. Own(w, k) = Undefined
    BY <2>1, <2>4 DEF Wider
  <2> QED BY <1>1, <2>5, MeetsInvalid
<1> QED BY <1>2, <1>3

LEMMA UniqueItemsKept ==
    ASSUME NEW direction \in Directions, NEW p, NEW n, IsSchema(p), IsSchema(n),
           Harmless(CompareUniqueItems(direction, p, n)),
           NEW v \in Values, MeetsOwn(Narrower(direction, p, n), "uniqueItems", v)
    PROVE  MeetsOwn(Wider(direction, p, n), "uniqueItems", v)
<1> DEFINE w == Wider(direction, p, n)
           i == Narrower(direction, p, n)
           before == Own(p, "uniqueItems")
           after == Own(n, "uniqueItems")
<1>1. IsSchema(w) /\ IsSchema(i)
  BY DEF Wider, Narrower
<1>2. CASE before = after
  <2>1. Own(w, "uniqueItems") = Own(i, "uniqueItems")
    BY <1>2 DEF Wider, Narrower
  <2> QED BY <1>1, <2>1, MeetsSame
<1>3. CASE before # after
  <2>1. Invalid \notin {before, after}
    BY <1>3, UndecidableAlarms DEF CompareUniqueItems
  <2>2. Harmless(Effect(direction, "CONSTRAINT_CHANGED",
                        EffectOf(after # TRUE, before # TRUE)))
    BY <1>3, <2>1 DEF CompareUniqueItems
  <2>3. Own(w, "uniqueItems") # TRUE
    <3>1. IF direction = "input" THEN after # TRUE ELSE before # TRUE
      BY <2>2, HarmlessRestriction, Zenon
    <3> QED BY <3>1 DEF Wider
  <2>4. PICK kind \in Kinds : w \in kind
    BY <1>1 DEF IsSchema
  <2>5. WellFormed(w, kind)
    BY <2>4, ContractAssumption DEF SchemaAssumption
  <2>6. CASE Own(w, "uniqueItems") \in {Undefined, Invalid}
    BY <1>1, <2>6, MeetsInvalid
  <2>7. CASE Own(w, "uniqueItems") \notin {Undefined, Invalid}
    <3>1. "uniqueItems" \in DOMAIN w /\ w["uniqueItems"] \in BOOLEAN
      BY <2>5, <2>7, Absent DEF WellFormed
    <3>2. w["uniqueItems"] = FALSE
      BY <2>3, <3>1, Absent, Zenon
    <3> QED BY <3>2 DEF MeetsOwn, Meets
  <2> QED BY <2>6, <2>7
<1> QED BY <1>2, <1>3

Scalars ==
    {"type", "enum", "const", "multipleOf", "pattern", "uniqueItems", "format"}
    \cup Bounds \cup Counts

(* compareSchema's comparisons of keywords that restrict a value on their  *)
(* own: if they report no alarm, a value that meets those of the narrower  *)
(* schema meets those of the wider one.                                    *)
THEOREM ScalarsKept ==
    ASSUME NEW direction \in Directions, NEW p, NEW n, IsSchema(p), IsSchema(n),
           Harmless(CompareScalars(direction, p, n)), NEW v \in Values,
           \A k \in Scalars : MeetsOwn(Narrower(direction, p, n), k, v)
    PROVE  \A k \in Scalars : MeetsOwn(Wider(direction, p, n), k, v)
<1> DEFINE w == Wider(direction, p, n)
           i == Narrower(direction, p, n)
<1>1. /\ Harmless(CompareType(direction, p, n))
      /\ Harmless(CompareValues(direction, p, n))
      /\ \A side \in Sides : Harmless(CompareNumericBound(direction, p, n, side))
      /\ \A k \in Counts : Harmless(CompareCountBound(direction, p, n, k))
      /\ \A k \in {"multipleOf", "pattern"} : Harmless(CompareRestriction(direction, p, n, k))
      /\ Harmless(CompareUniqueItems(direction, p, n))
  <2> DEFINE bounds == UNION {CompareNumericBound(direction, p, n, side) : side \in {"lower", "upper"}}
             counts == UNION {CompareCountBound(direction, p, n, k) :
                                  k \in LowerCounts \cup UpperCounts}
             restrictions == UNION {CompareRestriction(direction, p, n, k) :
                                        k \in {"multipleOf", "pattern"}}
  <2>1. CompareScalars(direction, p, n) =
            CompareType(direction, p, n) \cup CompareValues(direction, p, n)
            \cup bounds \cup counts \cup restrictions
            \cup CompareUniqueItems(direction, p, n) \cup CompareFormat(direction, p, n)
    BY Zenon DEF CompareScalars
  <2>2. Harmless(bounds) => \A side \in Sides : Harmless(CompareNumericBound(direction, p, n, side))
    BY Zenon DEF Harmless, Sides
  <2>3. Harmless(counts) => \A k \in Counts : Harmless(CompareCountBound(direction, p, n, k))
    BY Zenon DEF Harmless, Counts
  <2>4. Harmless(restrictions) =>
            \A k \in {"multipleOf", "pattern"} : Harmless(CompareRestriction(direction, p, n, k))
    BY Zenon DEF Harmless
  <2> HIDE DEF bounds, counts, restrictions
  <2>5. /\ Harmless(CompareType(direction, p, n)) /\ Harmless(CompareValues(direction, p, n))
        /\ Harmless(bounds) /\ Harmless(counts) /\ Harmless(restrictions)
        /\ Harmless(CompareUniqueItems(direction, p, n))
    BY <2>1 DEF Harmless
  <2> QED BY <2>2, <2>3, <2>4, <2>5, Zenon
<1>2. MeetsOwn(w, "type", v)
  BY <1>1, TypeKept DEF Scalars
<1>3. MeetsOwn(w, "enum", v) /\ MeetsOwn(w, "const", v)
  BY <1>1, ValuesKept DEF Scalars
<1>4. \A k \in {"multipleOf", "pattern"} : MeetsOwn(w, k, v)
  BY <1>1, RestrictionKept DEF Scalars
<1>5. MeetsOwn(w, "uniqueItems", v)
  BY <1>1, UniqueItemsKept DEF Scalars
<1>6. MeetsOwn(w, "format", v)
  BY DEF MeetsOwn, Meets
<1>7. \A k \in Bounds : MeetsOwn(w, k, v)
  <2>1. \A side \in Sides : MeetsOwn(w, InclusiveOf(side), v) /\ MeetsOwn(w, ExclusiveOf(side), v)
    <3> SUFFICES ASSUME NEW side \in Sides
                 PROVE  MeetsOwn(w, InclusiveOf(side), v) /\ MeetsOwn(w, ExclusiveOf(side), v)
      OBVIOUS
    <3>1. InclusiveOf(side) \in Scalars /\ ExclusiveOf(side) \in Scalars
      BY DEF InclusiveOf, ExclusiveOf, Scalars, Bounds
    <3> QED BY <1>1, <3>1, BoundsKept
  <2>2. \A k \in Bounds : \E side \in Sides : k \in {InclusiveOf(side), ExclusiveOf(side)}
    BY DEF Bounds, InclusiveOf, ExclusiveOf, Sides
  <2> QED BY <2>1, <2>2
<1>8. \A k \in Counts : MeetsOwn(w, k, v)
  BY <1>1, CountKept DEF Scalars
<1> QED BY <1>2, <1>3, <1>4, <1>5, <1>6, <1>7, <1>8 DEF Scalars

-----------------------------------------------------------------------------
(* The schemas inside a schema.                                            *)

(* What the wider schema must accept, of two that are compared.            *)
Kept(direction, p, n) ==
    \A v \in Values :
        Accepts(Narrower(direction, p, n), v) /\ (direction = "input" => Sends(v, p, n))
            => Accepts(Wider(direction, p, n), v)

Sound(direction, p, n) ==
    Harmless(CompareSchema(direction, p, n)) => Kept(direction, p, n)

LEMMA AcceptsMeans ==
    ASSUME NEW s, s \notin {Invalid, Never}, NEW v
    PROVE  Accepts(s, v) <=>
               /\ \A k \in DOMAIN s : Meets(s, k, v)
               /\ v[1] = "object" =>
                      \A name \in DOMAIN v[2] :
                          \A t \in Governing(s, name) : Accepted(t, v[2][name])
BY DEF Accepts

LEMMA SchemasOfKind ==
    ASSUME NEW kind \in Kinds
    PROVE  /\ Anything \in kind /\ Never \in kind
           /\ Undefined \notin kind /\ Invalid \notin kind
           /\ Undefined # NullSchema /\ Invalid # NullSchema
           /\ \A s \in kind : /\ WellFormed(s, kind)
                              /\ IsSchema(s)
                              /\ Height[s] \in Nat
                              /\ \A inner \in Nested(s) \ {Invalid} :
                                    inner \in kind /\ Height[inner] < Height[s]
           /\ Height[Anything] = 0 /\ Height[Never] = 0
BY ContractAssumption DEF SchemaAssumption, IsSchema

LEMMA Recursion ==
    ASSUME NEW kind \in Kinds, NEW a \in kind \cup {Invalid}, NEW b \in kind \cup {Invalid}
    PROVE  /\ \A v \in Values : Accepted(a, v) = Accepts(a, v)
           /\ \A d \in Directions : Compared(d, a, b) = CompareSchema(d, a, b)
           /\ \A v \in Values : Sent(v, a, b) = Sends(v, a, b)
BY ContractAssumption DEF RecursionAssumption, Directions

LEMMA InnerKept ==
    ASSUME NEW kind \in Kinds, NEW direction \in Directions,
           NEW a \in kind \cup {Invalid}, NEW b \in kind \cup {Invalid},
           Harmless(Compared(direction, a, b)),
           a \in kind /\ b \in kind => Sound(direction, a, b),
           NEW v \in Values, Accepted(Narrower(direction, a, b), v),
           direction = "input" => Sent(v, a, b)
    PROVE  Accepted(Wider(direction, a, b), v)
<1>1. CASE a = b
  BY <1>1 DEF Narrower, Wider
<1>2. CASE a # b
  <2>1. Harmless(CompareSchema(direction, a, b))
    BY Recursion
  <2>2. a # Invalid /\ b # Invalid
    BY <1>2, <2>1, UndecidableAlarms DEF CompareSchema
  <2>3. Kept(direction, a, b)
    BY <2>1, <2>2 DEF Sound
  <2>4. /\ Accepted(a, v) = Accepts(a, v) /\ Accepted(b, v) = Accepts(b, v)
        /\ Sent(v, a, b) = Sends(v, a, b)
    BY Recursion
  <2> QED BY <2>3, <2>4 DEF Kept, Narrower, Wider
<1> QED BY <1>1, <1>2

(* A schema without a keyword accepts everything.                          *)
LEMMA EmptyAccepts ==
    ASSUME NEW kind \in Kinds, NEW s \in kind, DOMAIN s = {}, NEW v \in Values
    PROVE  Accepted(s, v)
<1>1. s # Invalid
  BY SchemasOfKind
<1>2. s # Never
  <2>1. "never" \in DOMAIN Never
    BY DEF Never
  <2> QED BY <2>1
<1>3. \A name : Governing(s, name) = {}
  <2>1. DOMAIN ReadProperties(s) = {} /\ DOMAIN Patterns(s) = {}
    BY DEF ReadProperties, Patterns, Anything
  <2>2. Own(s, "additionalProperties") = Undefined
    BY DEF Own
  <2> QED BY <2>1, <2>2 DEF Governing
<1>4. Accepts(s, v)
  BY <1>1, <1>2, <1>3, AcceptsMeans
<1> QED BY <1>4, Recursion

(* The keywords of a schema that hold schemas.                             *)
LEMMA NestedSchemas ==
    ASSUME NEW kind \in Kinds, NEW s \in kind
    PROVE  /\ \A k \in {"items", "additionalProperties", "not"} \cap DOMAIN s :
                 s[k] # Invalid => s[k] \in Nested(s) \ {Invalid}
           /\ ReadProperties(s) # Invalid =>
                 \A name \in DOMAIN ReadProperties(s) :
                     ReadProperties(s)[name] # Invalid =>
                         ReadProperties(s)[name] \in Nested(s) \ {Invalid}
           /\ Own(s, "anyOf") \notin {Undefined, Invalid} =>
                 \A i \in DOMAIN s["anyOf"] :
                     s["anyOf"][i] # Invalid => s["anyOf"][i] \in Nested(s) \ {Invalid}
<1>1. \A k \in {"items", "additionalProperties", "not"} \cap DOMAIN s :
          s[k] # Invalid => s[k] \in Nested(s)
  BY DEF Nested
<1>2. \A k \in {"properties", "patternProperties", "anyOf"} \cap DOMAIN s :
          s[k] # Invalid => \A x \in DOMAIN s[k] : s[k][x] \in Nested(s)
  BY DEF Nested
<1>3. ReadProperties(s) # Invalid =>
          \A name \in DOMAIN ReadProperties(s) : ReadProperties(s)[name] \in Nested(s)
  BY <1>2 DEF ReadProperties, Anything
<1>4. Own(s, "anyOf") \notin {Undefined, Invalid} =>
          \A i \in DOMAIN s["anyOf"] : s["anyOf"][i] \in Nested(s)
  BY <1>2 DEF Own
<1> QED BY <1>1, <1>3, <1>4

-----------------------------------------------------------------------------
(* Objects and arrays.                                                     *)

InnerSound(kind, direction, p, n) ==
    \A a, b \in kind :
        Height[a] + Height[b] < Height[p] + Height[n] => Sound(direction, a, b)

LEMMA HarmlessObject ==
    ASSUME NEW direction \in Directions, NEW p, NEW n,
           Harmless(CompareObject(direction, p, n))
    PROVE  /\ Invalid \notin {ReadProperties(p), ReadProperties(n),
                              ReadRequired(p), ReadRequired(n)}
           /\ \A name \in DOMAIN ReadProperties(p) \cup DOMAIN ReadProperties(n)
                          \cup ReadRequired(p) \cup ReadRequired(n) :
                 Harmless(CompareProperty(direction, name, p, n))
           /\ Harmless(CompareAdditionalProperties(direction, p, n))
<1> DEFINE unread == Invalid \in {ReadProperties(p), ReadProperties(n),
                                  ReadRequired(p), ReadRequired(n)}
           names == DOMAIN ReadProperties(p) \cup DOMAIN ReadProperties(n)
                    \cup ReadRequired(p) \cup ReadRequired(n)
           properties == IF unread THEN Undecidable(direction)
                         ELSE UNION {CompareProperty(direction, name, p, n) : name \in names}
<1>1. Harmless(properties) /\ Harmless(CompareAdditionalProperties(direction, p, n))
  <2>1. CompareObject(direction, p, n) =
            properties \cup CompareAdditionalProperties(direction, p, n)
    BY DEF CompareObject
  <2> HIDE DEF properties
  <2> QED BY <2>1, HarmlessUnion
<1>2. ~unread
  BY <1>1, UndecidableAlarms
<1>3. Harmless(UNION {CompareProperty(direction, name, p, n) : name \in names})
  BY <1>1, <1>2
<1>4. \A name \in names : Harmless(CompareProperty(direction, name, p, n))
  <2> HIDE DEF names, unread
  <2> QED BY <1>3, Zenon DEF Harmless
<1> QED BY <1>1, <1>2, <1>4

(* A name that only one of the schemas has.                                *)
LEMMA RemovedAlarms ==
    ASSUME NEW direction \in Directions, NEW p, NEW n, NEW name,
           name \in DOMAIN ReadProperties(p) \ DOMAIN ReadProperties(n)
    PROVE  ~Harmless(CompareProperty(direction, name, p, n))
<1>1. CompareProperty(direction, name, p, n) = PropertyRemoved(direction, n)
  BY DEF CompareProperty
<1> QED BY <1>1, HarmlessChange DEF PropertyRemoved, Alarms

LEMMA AddedHarmless ==
    ASSUME NEW direction \in Directions, NEW p, NEW n, NEW name,
           name \in DOMAIN ReadProperties(n) \ DOMAIN ReadProperties(p),
           Harmless(CompareProperty(direction, name, p, n))
    PROVE  /\ direction = "input" => name \notin ReadRequired(n)
           /\ ~GovernedOtherwise(p, ReadProperties(n)[name])
           /\ direction = "output" => Own(p, "additionalProperties") # Never
<1> DEFINE s == ReadProperties(n)[name]
           required == name \in ReadRequired(n)
<1>1. Harmless(CompareAddedProperty(direction, s, required, p))
  BY DEF CompareProperty
<1>2. ~(direction = "input" /\ required)
  BY <1>1, HarmlessChange DEF CompareAddedProperty, Alarms
<1>3. ~GovernedOtherwise(p, s)
  BY <1>1, <1>2, HarmlessChange DEF CompareAddedProperty, Alarms
<1>4. direction = "output" => Own(p, "additionalProperties") # Never
  BY <1>1, <1>2, <1>3, HarmlessChange DEF CompareAddedProperty, Alarms
<1> QED BY <1>2, <1>3, <1>4

(* A name that both schemas have.                                          *)
LEMMA NamedHarmless ==
    ASSUME NEW direction \in Directions, NEW p, NEW n, NEW name,
           name \in DOMAIN ReadProperties(n) \cap DOMAIN ReadProperties(p),
           Harmless(CompareProperty(direction, name, p, n))
    PROVE  /\ Harmless(Compared(direction, ReadProperties(p)[name], ReadProperties(n)[name]))
           /\ name \in ReadRequired(Wider(direction, p, n))
              => name \in ReadRequired(Narrower(direction, p, n))
<1> DEFINE was == name \in ReadRequired(p)
           is == name \in ReadRequired(n)
<1>1. CompareProperty(direction, name, p, n) =
          Compared(direction, ReadProperties(p)[name], ReadProperties(n)[name])
          \cup CompareRequired(direction, name, p, n)
  BY DEF CompareProperty
<1>2. /\ Harmless(Compared(direction, ReadProperties(p)[name], ReadProperties(n)[name]))
      /\ Harmless(CompareRequired(direction, name, p, n))
  BY <1>1, HarmlessUnion
<1>3. (is => was) \in BOOLEAN /\ (was => is) \in BOOLEAN
  OBVIOUS
<1>4. Harmless(Effect(direction, "REQUIRED_CHANGED", EffectOf(is => was, was => is)))
  BY <1>2, Zenon DEF CompareRequired
<1>5. IF direction = "input" THEN is => was ELSE was => is
  <2> HIDE DEF was, is
  <2> QED BY <1>3, <1>4, HarmlessRestriction, Zenon
<1> QED BY <1>2, <1>5 DEF Wider, Narrower

LEMMA RequiredKept ==
    ASSUME NEW kind \in Kinds, NEW direction \in Directions, NEW p \in kind, NEW n \in kind,
           Harmless(CompareObject(direction, p, n)), NEW v \in Values,
           MeetsOwn(Narrower(direction, p, n), "required", v)
    PROVE  MeetsOwn(Wider(direction, p, n), "required", v)
<1> DEFINE w == Wider(direction, p, n)
           i == Narrower(direction, p, n)
<1>1. Invalid \notin {ReadProperties(p), ReadProperties(n), ReadRequired(p), ReadRequired(n)}
  BY HarmlessObject
<1>2. \A s \in {p, n} : ReadRequired(s) \subseteq DOMAIN ReadProperties(s)
  BY <1>1, SchemasOfKind DEF WellFormed
<1>3. ReadRequired(w) \subseteq ReadRequired(i)
  <2> SUFFICES ASSUME NEW name \in ReadRequired(w) PROVE name \in ReadRequired(i)
    OBVIOUS
  <2>1. name \in DOMAIN ReadProperties(w)
    BY <1>2 DEF Wider
  <2>2. Harmless(CompareProperty(direction, name, p, n))
    BY <2>1, HarmlessObject DEF Wider
  <2>3. CASE name \in DOMAIN ReadProperties(i)
    BY <2>1, <2>2, <2>3, NamedHarmless DEF Wider, Narrower
  <2>4. CASE name \notin DOMAIN ReadProperties(i)
    BY <2>1, <2>2, <2>4, AddedHarmless, RemovedAlarms DEF Wider, Narrower, Directions
  <2> QED BY <2>3, <2>4
<1>4. \A s \in {p, n} : MeetsOwn(s, "required", v)
          <=> (v[1] = "object" => ReadRequired(s) \subseteq DOMAIN v[2])
  <2> SUFFICES ASSUME NEW s \in {p, n}
               PROVE  MeetsOwn(s, "required", v)
                      <=> (v[1] = "object" => ReadRequired(s) \subseteq DOMAIN v[2])
    OBVIOUS
  <2>1. CASE "required" \in DOMAIN s
    <3>1. ReadRequired(s) = s["required"] /\ s["required"] # Invalid
      BY <1>1, <2>1 DEF ReadRequired
    <3> QED BY <2>1, <3>1 DEF MeetsOwn, Meets
  <2>2. CASE "required" \notin DOMAIN s
    BY <2>2 DEF MeetsOwn, ReadRequired
  <2> QED BY <2>1, <2>2
<1>5. w \in {p, n} /\ i \in {p, n}
  BY DEF Wider, Narrower
<1> QED BY <1>3, <1>4, <1>5

LEMMA OrAnythingInside ==
    ASSUME NEW kind \in Kinds, NEW s \in kind
    PROVE  LET items == OrAnything(Own(s, "items"))
           IN  /\ items \in kind \cup {Invalid}
               /\ items # Invalid => Height[items] \in Nat /\ Height[items] <= Height[s]
               /\ items # Invalid /\ Own(s, "items") # Undefined => Height[items] < Height[s]
<1> DEFINE items == OrAnything(Own(s, "items"))
<1>1. CASE Own(s, "items") = Undefined
  <2>1. items = Anything
    BY <1>1 DEF OrAnything
  <2> QED BY <1>1, <2>1, SchemasOfKind
<1>2. CASE Own(s, "items") # Undefined
  <2>1. items = s["items"] /\ "items" \in DOMAIN s
    BY <1>2, Absent DEF OrAnything
  <2>2. items # Invalid => items \in Nested(s) \ {Invalid}
    BY <2>1, NestedSchemas
  <2>3. items # Invalid =>
            items \in kind /\ Height[items] \in Nat /\ Height[s] \in Nat
            /\ Height[items] < Height[s]
    BY <2>2, SchemasOfKind
  <2> QED BY <2>3
<1> QED BY <1>1, <1>2

LEMMA ItemsMeans ==
    ASSUME NEW kind \in Kinds, NEW s \in kind, NEW v \in Values, v[1] = "array"
    PROVE  MeetsOwn(s, "items", v)
           <=> \A j \in DOMAIN v[2] : Accepted(OrAnything(Own(s, "items")), v[2][j])
<1>1. \A j \in DOMAIN v[2] : v[2][j] \in Values
  <2>1. v[2] \in Seq(Values)
    BY ContractAssumption DEF ValueAssumption
  <2> QED BY <2>1
<1>2. CASE Own(s, "items") = Undefined
  <2>1. OrAnything(Own(s, "items")) = Anything /\ "items" \notin DOMAIN s
    BY <1>2, SchemasOfKind, KeywordPresent DEF OrAnything
  <2>2. \A x \in Values : Accepted(Anything, x)
    <3>1. DOMAIN Anything = {}
      BY DEF Anything
    <3> QED BY <3>1, SchemasOfKind, EmptyAccepts
  <2> QED BY <1>1, <2>1, <2>2 DEF MeetsOwn
<1>3. CASE Own(s, "items") # Undefined
  <2>1. "items" \in DOMAIN s /\ OrAnything(Own(s, "items")) = s["items"]
    BY <1>3, Absent DEF OrAnything
  <2>2. s["items"] = Invalid => \A x \in Values : Accepted(s["items"], x)
    <3>1. \A x \in Values : Accepted(Invalid, x) = Accepts(Invalid, x)
      BY Recursion
    <3>2. \A x : Accepts(Invalid, x)
      BY SchemasOfKind DEF Accepts
    <3> QED BY <3>1, <3>2
  <2> QED BY <1>1, <2>1, <2>2 DEF MeetsOwn, Meets
<1> QED BY <1>2, <1>3

LEMMA ItemsKept ==
    ASSUME NEW kind \in Kinds, NEW direction \in Directions, NEW p \in kind, NEW n \in kind,
           InnerSound(kind, direction, p, n),
           Harmless(CompareItems(direction, p, n)), NEW v \in Values,
           direction = "input" => SendsInside(v, p, n),
           MeetsOwn(Narrower(direction, p, n), "items", v)
    PROVE  MeetsOwn(Wider(direction, p, n), "items", v)
<1> DEFINE w == Wider(direction, p, n)
           i == Narrower(direction, p, n)
           before == OrAnything(Own(p, "items"))
           after == OrAnything(Own(n, "items"))
<1>1. w \in kind /\ i \in kind
  BY DEF Wider, Narrower
<1>2. CASE Own(p, "items") = Own(n, "items")
  <2>1. Own(w, "items") = Own(i, "items")
    BY <1>2 DEF Wider, Narrower
  <2> QED BY <1>1, <2>1, SchemasOfKind, MeetsSame
<1>3. CASE Own(p, "items") # Own(n, "items") /\ v[1] # "array"
  BY <1>3 DEF MeetsOwn, Meets
<1>4. CASE Own(p, "items") # Own(n, "items") /\ v[1] = "array"
  <2>1. Invalid \notin {Own(p, "items"), Own(n, "items")}
    BY <1>4, UndecidableAlarms DEF CompareItems
  <2>2. Harmless(Compared(direction, before, after))
    BY <1>4, <2>1 DEF CompareItems
  <2>3. before \in kind \cup {Invalid} /\ after \in kind \cup {Invalid}
    BY OrAnythingInside
  <2>4. before \in kind /\ after \in kind => Sound(direction, before, after)
    <3> SUFFICES ASSUME before \in kind, after \in kind
                 PROVE  Sound(direction, before, after)
      OBVIOUS
    <3>1. before # Invalid /\ after # Invalid /\ Height[p] \in Nat /\ Height[n] \in Nat
      BY SchemasOfKind
    <3>2. Own(p, "items") # Undefined \/ Own(n, "items") # Undefined
      BY <1>4
    <3>3. /\ Height[before] \in Nat /\ Height[before] <= Height[p]
          /\ Own(p, "items") # Undefined => Height[before] < Height[p]
      BY <3>1, OrAnythingInside
    <3>4. /\ Height[after] \in Nat /\ Height[after] <= Height[n]
          /\ Own(n, "items") # Undefined => Height[after] < Height[n]
      BY <3>1, OrAnythingInside
    <3>5. Height[before] + Height[after] < Height[p] + Height[n]
      BY <3>1, <3>2, <3>3, <3>4
    <3> QED BY <3>5 DEF InnerSound
  <2>5. \A j \in DOMAIN v[2] : Accepted(OrAnything(Own(i, "items")), v[2][j])
    BY <1>1, <1>4, ItemsMeans
  <2>6. \A j \in DOMAIN v[2] : v[2][j] \in Values
    <3>1. v[2] \in Seq(Values)
      BY <1>4, ContractAssumption DEF ValueAssumption
    <3> QED BY <3>1
  <2>7. direction = "input" => \A j \in DOMAIN v[2] : Sent(v[2][j], before, after)
    BY <1>4 DEF SendsInside
  <2>8. /\ OrAnything(Own(i, "items")) = Narrower(direction, before, after)
        /\ OrAnything(Own(w, "items")) = Wider(direction, before, after)
    BY DEF Narrower, Wider
  <2> HIDE DEF before, after
  <2>9. \A j \in DOMAIN v[2] : Accepted(Wider(direction, before, after), v[2][j])
    BY <2>2, <2>3, <2>4, <2>5, <2>6, <2>7, <2>8, InnerKept
  <2> QED BY <1>1, <1>4, <2>8, <2>9, ItemsMeans
<1> QED BY <1>2, <1>3, <1>4

(* What a name in an object is checked by.                                 *)
Named(s, name) == {ReadProperties(s)[n] : n \in DOMAIN ReadProperties(s) \cap {name}}
Matched(s, name) == {Patterns(s)[q] : q \in {r \in DOMAIN Patterns(s) : name \in NamesOf[r]}}

LEMMA GoverningMeans ==
    ASSUME NEW s, NEW name
    PROVE  /\ name \in DOMAIN ReadProperties(s) => Named(s, name) = {ReadProperties(s)[name]}
           /\ name \notin DOMAIN ReadProperties(s) => Named(s, name) = {}
           /\ Named(s, name) \cup Matched(s, name) \subseteq Governing(s, name)
           /\ Named(s, name) \cup Matched(s, name) # {} =>
                 Governing(s, name) = Named(s, name) \cup Matched(s, name)
           /\ Named(s, name) \cup Matched(s, name) = {} =>
                 Governing(s, name) = {Own(s, "additionalProperties")} \ {Undefined}
<1>1. Governing(s, name) =
          IF Named(s, name) \cup Matched(s, name) # {} THEN Named(s, name) \cup Matched(s, name)
          ELSE {Own(s, "additionalProperties")} \ {Undefined}
  BY Zenon DEF Governing, Named, Matched
<1>2. name \in DOMAIN ReadProperties(s) => Named(s, name) = {ReadProperties(s)[name]}
  BY DEF Named
<1>3. name \notin DOMAIN ReadProperties(s) => Named(s, name) = {}
  BY DEF Named
<1> HIDE DEF Named, Matched
<1> QED BY <1>1, <1>2, <1>3

LEMMA NoPatterns ==
    ASSUME NEW kind \in Kinds, NEW s \in kind, ~HasPatternProperties(s), NEW name
    PROVE  Matched(s, name) = {}
<1>1. CASE "patternProperties" \in DOMAIN s
  <2>1. Patterns(s) = Own(s, "patternProperties") /\ Own(s, "patternProperties") # Undefined
    BY <1>1, SchemasOfKind, KeywordPresent, Absent DEF Patterns
  <2>2. DOMAIN Patterns(s) = {}
    BY <2>1 DEF HasPatternProperties
  <2> QED BY <2>2 DEF Matched
<1>2. CASE "patternProperties" \notin DOMAIN s
  <2>1. DOMAIN Patterns(s) = {}
    BY <1>2 DEF Patterns, Anything
  <2> QED BY <2>1 DEF Matched
<1> QED BY <1>1, <1>2

LEMMA AdditionalKindMeans ==
    ASSUME NEW kind \in Kinds, NEW s \in kind
    PROVE  LET additional == Own(s, "additionalProperties")
           IN  /\ AdditionalKind(additional) \in {"open", "closed", "schema", "invalid"}
               /\ AdditionalKind(additional) = "invalid" <=> additional = Invalid
               /\ AdditionalKind(additional) = "closed" <=> additional = Never
               /\ AdditionalKind(additional) = "open" =>
                     additional = Undefined \/ \A x \in Values : Accepted(additional, x)
               /\ additional \notin {Undefined, Invalid} =>
                     /\ "additionalProperties" \in DOMAIN s
                     /\ additional = s["additionalProperties"]
                     /\ additional \in kind /\ Height[additional] < Height[s]
<1> DEFINE additional == Own(s, "additionalProperties")
<1>1. additional \notin {Undefined, Invalid} =>
          /\ "additionalProperties" \in DOMAIN s /\ additional = s["additionalProperties"]
          /\ additional \in kind /\ Height[additional] < Height[s]
  <2> SUFFICES ASSUME additional \notin {Undefined, Invalid}
               PROVE  /\ "additionalProperties" \in DOMAIN s
                      /\ additional = s["additionalProperties"]
                      /\ additional \in kind /\ Height[additional] < Height[s]
    OBVIOUS
  <2>1. "additionalProperties" \in DOMAIN s /\ additional = s["additionalProperties"]
    BY Absent
  <2>2. additional \in Nested(s) \ {Invalid}
    BY <2>1, NestedSchemas
  <2> QED BY <2>1, <2>2, SchemasOfKind
<1>2. Undefined # Invalid /\ Undefined # Never /\ Invalid # Never
  BY SchemasOfKind, DiffAssumption
<1> HIDE DEF additional
<1>3. /\ AdditionalKind(additional) \in {"open", "closed", "schema", "invalid"}
      /\ AdditionalKind(additional) = "invalid" <=> additional = Invalid
      /\ AdditionalKind(additional) = "closed" <=> additional = Never
      /\ AdditionalKind(additional) = "open" => additional = Undefined \/ DOMAIN additional = {}
      /\ AdditionalKind(additional) = "open" => additional # Invalid
  BY <1>2 DEF AdditionalKind
<1>4. AdditionalKind(additional) = "open" =>
          additional = Undefined \/ \A x \in Values : Accepted(additional, x)
  BY <1>1, <1>3, EmptyAccepts
<1> QED BY <1>1, <1>3, <1>4 DEF additional

(* Nothing that is in an object passes a closed schema that neither names  *)
(* nor matches it.                                                         *)
LEMMA NeverAccepts ==
    ASSUME NEW kind \in Kinds, NEW x \in Values
    PROVE  ~Accepted(Never, x)
<1>1. Accepted(Never, x) = Accepts(Never, x) /\ Never # Invalid
  BY SchemasOfKind, Recursion
<1> QED BY <1>1 DEF Accepts

LEMMA AdditionalKept ==
    ASSUME NEW kind \in Kinds, NEW direction \in Directions, NEW p \in kind, NEW n \in kind,
           InnerSound(kind, direction, p, n),
           Harmless(CompareAdditionalProperties(direction, p, n)), NEW x \in Values,
           Own(Narrower(direction, p, n), "additionalProperties") = Undefined
           \/ Accepted(Own(Narrower(direction, p, n), "additionalProperties"), x),
           /\ direction = "input"
           /\ "additionalProperties" \in DOMAIN p \cap DOMAIN n
           => Sent(x, p["additionalProperties"], n["additionalProperties"]),
           Own(Wider(direction, p, n), "additionalProperties") # Undefined
    PROVE  Accepted(Own(Wider(direction, p, n), "additionalProperties"), x)
<1> DEFINE before == Own(p, "additionalProperties")
           after == Own(n, "additionalProperties")
           was == AdditionalKind(before)
           is == AdditionalKind(after)
           inner == Own(Narrower(direction, p, n), "additionalProperties")
           outer == Own(Wider(direction, p, n), "additionalProperties")
           narrowed == is = "closed" \/ (was = "open" /\ is = "schema")
<1>1. inner = Narrower(direction, before, after) /\ outer = Wider(direction, before, after)
  BY DEF Narrower, Wider
<1>2. /\ was \in {"open", "closed", "schema", "invalid"}
      /\ is \in {"open", "closed", "schema", "invalid"}
      /\ was = "closed" <=> before = Never
      /\ is = "closed" <=> after = Never
      /\ was = "invalid" <=> before = Invalid
      /\ is = "invalid" <=> after = Invalid
      /\ was = "open" => before = Undefined \/ Accepted(before, x)
      /\ is = "open" => after = Undefined \/ Accepted(after, x)
  BY AdditionalKindMeans
<1>3. ~Accepted(Never, x)
  BY NeverAccepts
<1>5. CASE before = after
  <2>1. inner = outer
    BY <1>1, <1>5 DEF Narrower, Wider
  <2> QED BY <2>1
<1>6. CASE before # after /\ was = "schema" /\ is = "schema"
  <2>1. AdditionalKind(Undefined) = "open"
    BY SchemasOfKind, DiffAssumption DEF AdditionalKind
  <2>2. before \notin {Undefined, Invalid} /\ after \notin {Undefined, Invalid}
    BY <1>2, <1>6, <2>1
  <2>3. /\ "additionalProperties" \in DOMAIN p \cap DOMAIN n
        /\ before = p["additionalProperties"] /\ after = n["additionalProperties"]
        /\ before \in kind /\ Height[before] < Height[p]
        /\ after \in kind /\ Height[after] < Height[n]
    BY <2>2, AdditionalKindMeans
  <2>4. Harmless(Compared(direction, before, after))
    <3>1. CompareAdditionalProperties(direction, p, n) = Compared(direction, before, after)
      BY <1>2, <1>6 DEF CompareAdditionalProperties
    <3> QED BY <3>1
  <2>5. Sound(direction, before, after)
    <3>1. /\ Height[before] \in Nat /\ Height[p] \in Nat
          /\ Height[after] \in Nat /\ Height[n] \in Nat
      BY <2>3, SchemasOfKind
    <3>2. Height[before] + Height[after] < Height[p] + Height[n]
      BY <2>3, <3>1
    <3> QED BY <2>3, <3>2 DEF InnerSound
  <2>6. inner # Undefined
    BY <1>1, <2>2 DEF Narrower
  <2>7. direction = "input" => Sent(x, before, after)
    BY <2>3
  <2>8. Accepted(Narrower(direction, before, after), x)
    BY <1>1, <2>6
  <2> HIDE DEF before, after, inner, outer, was, is
  <2>9. Accepted(Wider(direction, before, after), x)
    BY <2>3, <2>4, <2>5, <2>7, <2>8, InnerKept
  <2> QED BY <1>1, <2>9 DEF outer
<1>7. CASE before # after /\ ~(was = "schema" /\ is = "schema")
  <2>1. "invalid" \notin {was, is}
    <3>1. "invalid" \in {was, is} =>
              CompareAdditionalProperties(direction, p, n) = Undecidable(direction)
      BY <1>7, UndecidableAlarms DEF CompareAdditionalProperties
    <3> QED BY <3>1, UndecidableAlarms
  <2>2. CASE was = is
    <3>1. was = "open" /\ is = "open"
      BY <1>2, <1>7, <2>1, <2>2
    <3> QED BY <1>1, <1>2, <3>1 DEF Wider
  <2>3. CASE was # is
    <3>1. ~(direction = "output" /\ was = "closed")
      <4>1. direction = "output" /\ was = "closed" =>
                CompareAdditionalProperties(direction, p, n) =
                    Change("ADDITIONAL_PROPERTIES_CHANGED", "potentially-breaking")
        BY <1>7, <2>1, <2>3 DEF CompareAdditionalProperties
      <4> QED BY <4>1, HarmlessChange DEF Alarms
    <3>2. CompareAdditionalProperties(direction, p, n) =
              Effect(direction, "ADDITIONAL_PROPERTIES_CHANGED",
                     IF narrowed THEN "narrowed" ELSE "widened")
      BY <1>7, <2>1, <2>3, <3>1 DEF CompareAdditionalProperties
    <3>3. IF direction = "input" THEN ~narrowed ELSE narrowed
      <4> HIDE DEF narrowed
      <4>1. CASE narrowed
        BY <3>2, <4>1, HarmlessEffect
      <4>2. CASE ~narrowed
        BY <3>2, <4>2, HarmlessEffect
      <4> QED BY <4>1, <4>2
    <3>4. CASE direction = "input"
      <4>1. inner = before /\ outer = after
        BY <1>1, <3>4 DEF Narrower, Wider
      <4>2. is = "open" \/ was = "closed"
        BY <1>2, <2>1, <2>3, <3>3, <3>4
      <4> QED BY <1>2, <1>3, <4>1, <4>2, SchemasOfKind
    <3>5. CASE direction = "output"
      <4>1. inner = after /\ outer = before
        BY <1>1, <3>5 DEF Narrower, Wider
      <4>2. was = "open" \/ is = "closed"
        BY <1>2, <2>1, <2>3, <3>3, <3>5
      <4> QED BY <1>2, <1>3, <4>1, <4>2, SchemasOfKind
    <3> QED BY <3>4, <3>5 DEF Directions
  <2> QED BY <2>2, <2>3
<1> QED BY <1>5, <1>6, <1>7

LEMMA PropertyInside ==
    ASSUME NEW kind \in Kinds, NEW s \in kind, ReadProperties(s) # Invalid,
           NEW name \in DOMAIN ReadProperties(s)
    PROVE  LET inner == ReadProperties(s)[name]
           IN  /\ inner \in kind \cup {Invalid}
               /\ inner # Invalid => Height[inner] \in Nat /\ Height[inner] < Height[s]
<1> DEFINE inner == ReadProperties(s)[name]
<1>1. inner # Invalid => inner \in Nested(s) \ {Invalid}
  BY NestedSchemas
<1>2. inner # Invalid => inner \in kind /\ Height[inner] < Height[s]
  BY <1>1, SchemasOfKind
<1>3. inner # Invalid => Height[inner] \in Nat
  BY <1>2, SchemasOfKind
<1> QED BY <1>2, <1>3

LEMMA CounterpartsMean ==
    ASSUME NEW p, NEW n, NEW v, v[1] = "object", SendsInside(v, p, n), NEW name \in DOMAIN v[2]
    PROVE  /\ name \in DOMAIN ReadProperties(p) \cap DOMAIN ReadProperties(n) =>
                 Sent(v[2][name], ReadProperties(p)[name], ReadProperties(n)[name])
           /\ /\ name \notin DOMAIN ReadProperties(p) \cup DOMAIN ReadProperties(n)
              /\ "additionalProperties" \in DOMAIN p \cap DOMAIN n
              => Sent(v[2][name], p["additionalProperties"], n["additionalProperties"])
           /\ LeavesOpen(p) =>
                 name \notin DOMAIN ReadProperties(n) \ DOMAIN ReadProperties(p)
<1> DEFINE was == ReadProperties(p)
           is == ReadProperties(n)
<1>1. /\ LeavesOpen(p) => DOMAIN v[2] \cap (DOMAIN is \ DOMAIN was) = {}
      /\ \A pair \in Counterparts(p, n, name) : Sent(v[2][name], pair[1], pair[2])
  BY DEF SendsInside
<1>2. name \in DOMAIN was \cap DOMAIN is => <<was[name], is[name]>> \in Counterparts(p, n, name)
  BY DEF Counterparts
<1>3. /\ name \notin DOMAIN was \cup DOMAIN is
      /\ "additionalProperties" \in DOMAIN p \cap DOMAIN n
      => <<p["additionalProperties"], n["additionalProperties"]>> \in Counterparts(p, n, name)
  <2> SUFFICES ASSUME name \notin DOMAIN was \cup DOMAIN is,
                      "additionalProperties" \in DOMAIN p \cap DOMAIN n
               PROVE  <<p["additionalProperties"], n["additionalProperties"]>>
                          \in Counterparts(p, n, name)
    OBVIOUS
  <2> QED BY DEF Counterparts
<1> HIDE DEF was, is
<1>4. \A a, b : <<a, b>> \in Counterparts(p, n, name) => Sent(v[2][name], a, b)
  <2> SUFFICES ASSUME NEW a, NEW b, <<a, b>> \in Counterparts(p, n, name)
               PROVE  Sent(v[2][name], a, b)
    OBVIOUS
  <2>1. Sent(v[2][name], <<a, b>>[1], <<a, b>>[2])
    BY <1>1
  <2> QED BY <2>1
<1> QED BY <1>1, <1>2, <1>3, <1>4 DEF was, is

(* compareObject: of a name in an object, whatever checks it in the wider  *)
(* schema accepts what the narrower one let through.                       *)
LEMMA GoverningKept ==
    ASSUME NEW kind \in Kinds, NEW direction \in Directions, NEW p \in kind, NEW n \in kind,
           InnerSound(kind, direction, p, n),
           Harmless(CompareObject(direction, p, n)), Keeps(p, n, "patternProperties"),
           NEW v \in Values, v[1] = "object", direction = "input" => SendsInside(v, p, n),
           NEW name \in DOMAIN v[2],
           \A t \in Governing(Narrower(direction, p, n), name) : Accepted(t, v[2][name]),
           NEW t \in Governing(Wider(direction, p, n), name)
    PROVE  Accepted(t, v[2][name])
<1> DEFINE w == Wider(direction, p, n)
           i == Narrower(direction, p, n)
           x == v[2][name]
           additional == Own(p, "additionalProperties")
<1>1. x \in Values /\ w \in kind /\ i \in kind
  BY ContractAssumption DEF ValueAssumption, Wider, Narrower
<1>2. /\ Invalid \notin {ReadProperties(p), ReadProperties(n)}
      /\ name \in DOMAIN ReadProperties(p) \cup DOMAIN ReadProperties(n) =>
            Harmless(CompareProperty(direction, name, p, n))
      /\ Harmless(CompareAdditionalProperties(direction, p, n))
  BY HarmlessObject
<1>3. Matched(w, name) = Matched(i, name)
  <2>1. Patterns(p) = Patterns(n)
    <3>1. "patternProperties" \in DOMAIN p <=> "patternProperties" \in DOMAIN n
      BY SchemasOfKind, KeywordPresent DEF Keeps
    <3>2. "patternProperties" \in DOMAIN p => p["patternProperties"] = n["patternProperties"]
      BY <3>1, Absent DEF Keeps
    <3> QED BY <3>1, <3>2 DEF Patterns
  <2> QED BY <2>1 DEF Matched, Wider, Narrower
<1>4. CASE t \in Matched(w, name)
  <2>1. t \in Governing(i, name)
    BY <1>3, <1>4, GoverningMeans
  <2> QED BY <2>1
<1>5. CASE t \in Named(w, name) /\ name \in DOMAIN ReadProperties(i)
  <2> DEFINE a == ReadProperties(p)[name]
             b == ReadProperties(n)[name]
  <2>1. name \in DOMAIN ReadProperties(p) \cap DOMAIN ReadProperties(n)
    BY <1>5 DEF Named, Wider, Narrower
  <2>2. t = Wider(direction, a, b)
    BY <1>5, <2>1, GoverningMeans DEF Wider
  <2>3. Harmless(Compared(direction, a, b))
    BY <1>2, <2>1, NamedHarmless
  <2>4. /\ a \in kind \cup {Invalid} /\ b \in kind \cup {Invalid}
        /\ a # Invalid => Height[a] \in Nat /\ Height[a] < Height[p]
        /\ b # Invalid => Height[b] \in Nat /\ Height[b] < Height[n]
    BY <1>2, <2>1, PropertyInside
  <2>5. a \in kind /\ b \in kind => Sound(direction, a, b)
    <3> SUFFICES ASSUME a \in kind, b \in kind PROVE Sound(direction, a, b)
      OBVIOUS
    <3>1. a # Invalid /\ b # Invalid /\ Height[p] \in Nat /\ Height[n] \in Nat
      BY SchemasOfKind
    <3>2. Height[a] + Height[b] < Height[p] + Height[n]
      BY <2>4, <3>1
    <3> QED BY <3>2 DEF InnerSound
  <2>6. Accepted(Narrower(direction, a, b), x)
    <3>1. ReadProperties(i)[name] \in Governing(i, name)
      BY <1>5, GoverningMeans
    <3> QED BY <3>1 DEF Narrower
  <2>7. direction = "input" => Sent(x, a, b)
    BY <2>1, CounterpartsMean
  <2> HIDE DEF a, b, x
  <2>8. Accepted(Wider(direction, a, b), x)
    BY <1>1, <2>3, <2>4, <2>5, <2>6, <2>7, InnerKept
  <2> QED BY <2>2, <2>8 DEF x
<1>6. CASE t \in Named(w, name) /\ name \notin DOMAIN ReadProperties(i)
  <2>1. name \in DOMAIN ReadProperties(w) /\ t = ReadProperties(w)[name]
    BY <1>6 DEF Named
  <2>2. w = n /\ i = p /\ direction = "input"
    <3>1. direction # "output"
      BY <1>2, <1>6, <2>1, RemovedAlarms DEF Wider, Narrower
    <3> QED BY <3>1 DEF Wider, Narrower, Directions
  <2>3. ~GovernedOtherwise(p, t)
    BY <1>2, <1>6, <2>1, <2>2, AddedHarmless
  <2>4. /\ ~HasPatternProperties(p)
        /\ AdditionalKind(additional) # "invalid"
        /\ AdditionalKind(additional) = "schema" => additional = t
    BY <2>3 DEF GovernedOtherwise
  <2>5. Governing(p, name) = {additional} \ {Undefined}
    <3>1. Named(p, name) = {} /\ Matched(p, name) = {}
      BY <1>6, <2>2, <2>4, GoverningMeans, NoPatterns
    <3> QED BY <3>1, GoverningMeans
  <2>6. AdditionalKind(additional) # "open"
    <3>1. name \in DOMAIN ReadProperties(n) \ DOMAIN ReadProperties(p)
      BY <1>6, <2>1, <2>2
    <3>2. ~LeavesOpen(p)
      BY <2>2, <3>1, CounterpartsMean
    <3> QED BY <2>4, <3>2 DEF LeavesOpen
  <2>7. additional # Undefined
    BY <2>6, SchemasOfKind, DiffAssumption DEF AdditionalKind
  <2>8. Accepted(additional, x)
    BY <2>2, <2>5, <2>7
  <2>9. AdditionalKind(additional) = "schema"
    <3>1. AdditionalKind(additional) # "closed"
      BY <1>1, <2>8, NeverAccepts, AdditionalKindMeans
    <3> QED BY <2>4, <2>6, <3>1, AdditionalKindMeans
  <2> QED BY <2>4, <2>8, <2>9
<1>7. CASE t \notin Named(w, name) \cup Matched(w, name) /\ name \in DOMAIN ReadProperties(i)
  <2>1. Named(w, name) = {} /\ t = Own(w, "additionalProperties") /\ t # Undefined
    BY <1>7, GoverningMeans
  <2>2. name \notin DOMAIN ReadProperties(w)
    BY <2>1, GoverningMeans
  <2>3. w = p /\ i = n /\ direction = "output"
    <3>1. direction # "input"
      BY <1>2, <1>7, <2>2, RemovedAlarms DEF Wider, Narrower
    <3> QED BY <3>1 DEF Wider, Narrower, Directions
  <2>4. /\ ~GovernedOtherwise(p, ReadProperties(n)[name])
        /\ additional # Never
    BY <1>2, <1>7, <2>2, <2>3, AddedHarmless
  <2>5. CASE AdditionalKind(additional) = "open"
    BY <1>1, <2>1, <2>3, <2>5, AdditionalKindMeans
  <2>6. CASE AdditionalKind(additional) # "open"
    <3>1. AdditionalKind(additional) = "schema"
      BY <2>4, <2>6, AdditionalKindMeans DEF GovernedOtherwise
    <3>2. t = ReadProperties(n)[name]
      BY <2>1, <2>3, <2>4, <3>1 DEF GovernedOtherwise
    <3>3. t \in Governing(i, name)
      BY <1>7, <2>3, <3>2, GoverningMeans
    <3> QED BY <3>3
  <2> QED BY <2>5, <2>6
<1>8. CASE t \notin Named(w, name) \cup Matched(w, name) /\ name \notin DOMAIN ReadProperties(i)
  <2>1. /\ Named(w, name) \cup Matched(w, name) = {}
        /\ t = Own(w, "additionalProperties") /\ t # Undefined
    BY <1>8, GoverningMeans
  <2>2. name \notin DOMAIN ReadProperties(p) \cup DOMAIN ReadProperties(n)
    BY <1>8, <2>1, GoverningMeans DEF Wider, Narrower
  <2>3. Governing(i, name) = {Own(i, "additionalProperties")} \ {Undefined}
    <3>1. Named(i, name) \cup Matched(i, name) = {}
      BY <1>3, <1>8, <2>1, GoverningMeans
    <3> QED BY <3>1, GoverningMeans
  <2>4. Own(i, "additionalProperties") = Undefined
        \/ Accepted(Own(i, "additionalProperties"), x)
    BY <2>3
  <2>5. /\ direction = "input"
        /\ "additionalProperties" \in DOMAIN p \cap DOMAIN n
        => Sent(x, p["additionalProperties"], n["additionalProperties"])
    BY <2>2, CounterpartsMean
  <2> HIDE DEF x
  <2>6. Accepted(Own(w, "additionalProperties"), x)
    BY <1>1, <1>2, <2>1, <2>4, <2>5, AdditionalKept
  <2> QED BY <2>1, <2>6 DEF x
<1> QED BY <1>4, <1>5, <1>6, <1>7, <1>8

-----------------------------------------------------------------------------
(* Schemas that are compared keyword by keyword.                           *)

LEMMA KeywordsKept ==
    ASSUME NEW kind \in Kinds, NEW direction \in Directions, NEW p \in kind, NEW n \in kind,
           Never \notin {p, n}, InnerSound(kind, direction, p, n),
           Harmless(CompareKeywords(direction, p, n)), NEW v \in Values,
           direction = "input" => SendsInside(v, p, n),
           Accepts(Narrower(direction, p, n), v)
    PROVE  Accepts(Wider(direction, p, n), v)
<1> DEFINE w == Wider(direction, p, n)
           i == Narrower(direction, p, n)
<1>1. /\ w \in kind /\ i \in kind
      /\ w \notin {Invalid, Never} /\ i \notin {Invalid, Never}
      /\ IsSchema(w) /\ IsSchema(i) /\ IsSchema(p) /\ IsSchema(n)
  <2>1. p # Invalid /\ n # Invalid /\ IsSchema(p) /\ IsSchema(n)
    BY SchemasOfKind
  <2> QED BY <2>1 DEF Wider, Narrower
<1>2. /\ Harmless(CompareScalars(direction, p, n))
      /\ Harmless(CompareObject(direction, p, n))
      /\ Harmless(CompareItems(direction, p, n))
      /\ Harmless(CompareOthers(direction, p, n))
  <2>1. CompareKeywords(direction, p, n) =
            CompareDocumentation(p, n) \cup CompareScalars(direction, p, n)
            \cup CompareObject(direction, p, n) \cup CompareItems(direction, p, n)
            \cup CompareOthers(direction, p, n)
    BY Zenon DEF CompareKeywords
  <2> QED BY <2>1 DEF Harmless
<1>3. /\ \A k : MeetsOwn(i, k, v)
      /\ v[1] = "object" =>
             \A name \in DOMAIN v[2] :
                 \A t \in Governing(i, name) : Accepted(t, v[2][name])
  BY <1>1, AcceptsMeans DEF MeetsOwn
<1>4. \A k \in Scalars : MeetsOwn(w, k, v)
  <2>1. \A k \in Scalars : MeetsOwn(i, k, v)
    BY <1>3
  <2> QED BY <1>1, <1>2, <2>1, ScalarsKept
<1>5. MeetsOwn(w, "required", v)
  BY <1>2, <1>3, RequiredKept
<1>6. MeetsOwn(w, "items", v)
  BY <1>2, <1>3, ItemsKept
<1>7. \A k \in (DOMAIN p \cup DOMAIN n) \ Classified : Keeps(p, n, k)
  BY <1>2, UndecidableAlarms DEF CompareOthers
<1>8. \A k \in DOMAIN w \ Classified : MeetsOwn(w, k, v)
  <2> SUFFICES ASSUME NEW k \in DOMAIN w \ Classified PROVE MeetsOwn(w, k, v)
    OBVIOUS
  <2>1. Keeps(p, n, k)
    BY <1>7 DEF Wider
  <2>2. Own(w, k) = Own(i, k)
    BY <2>1 DEF Keeps, Wider, Narrower
  <2> QED BY <1>1, <1>3, <2>2, MeetsSame
<1>9. \A k \in Documentation \cup {"properties", "additionalProperties"} : MeetsOwn(w, k, v)
  <2>1. Meets(w, "description", v) /\ Meets(w, "title", v)
    BY DEF Meets
  <2>2. Meets(w, "properties", v) /\ Meets(w, "additionalProperties", v)
    BY DEF Meets
  <2> QED BY <2>1, <2>2 DEF MeetsOwn, Documentation
<1>10. Classified \subseteq Scalars \cup Documentation
                            \cup {"properties", "additionalProperties", "required", "items"}
  BY DEF Classified, Scalars, Bounds, Counts
<1>11. \A k \in DOMAIN w : Meets(w, k, v)
  BY <1>4, <1>5, <1>6, <1>8, <1>9, <1>10 DEF MeetsOwn
<1>12. Keeps(p, n, "patternProperties")
  <2>1. "patternProperties" \notin Classified
    BY DEF Classified, Documentation, LowerCounts, UpperCounts
  <2> QED BY <1>7, <2>1, Absent DEF Keeps
<1>13. v[1] = "object" =>
          \A name \in DOMAIN v[2] :
              \A t \in Governing(w, name) : Accepted(t, v[2][name])
  BY <1>2, <1>3, <1>12, GoverningKept
<1> QED BY <1>1, <1>11, <1>13, AcceptsMeans

-----------------------------------------------------------------------------
(* Nullable schemas.                                                       *)

LEMMA NullSchemaMeans ==
    ASSUME NEW kind \in Kinds, NullSchema \in kind, NEW v \in Values
    PROVE  Accepted(NullSchema, v) <=> v = NullValue
<1>1. Accepted(NullSchema, v) = Accepts(NullSchema, v)
  BY Recursion
<1>2. NullSchema \notin {Invalid, Never}
  <2>1. "never" \in DOMAIN Never /\ "never" \notin DOMAIN NullSchema
    BY DEF Never, NullSchema
  <2> QED BY <2>1, SchemasOfKind
<1>3. \A name : Governing(NullSchema, name) = {}
  <2>1. DOMAIN ReadProperties(NullSchema) = {} /\ DOMAIN Patterns(NullSchema) = {}
    BY DEF NullSchema, ReadProperties, Patterns, Anything
  <2>2. Own(NullSchema, "additionalProperties") = Undefined
    BY DEF Own, NullSchema
  <2> QED BY <2>1, <2>2 DEF Governing
<1>4. DOMAIN NullSchema = {"type"} /\ NullSchema["type"] = {"null"}
  BY DEF NullSchema
<1>5. Accepts(NullSchema, v) <=> Meets(NullSchema, "type", v)
  BY <1>2, <1>3, <1>4, AcceptsMeans
<1>6. {"null"} # Invalid => (Meets(NullSchema, "type", v) <=> v[1] = "null")
  BY <1>4, MeetsType DEF HasType
<1>7. {"null"} # Invalid
  BY <1>4, ContractAssumption DEF SchemaAssumption
<1>8. v[1] = "null" <=> v = NullValue
  BY ContractAssumption DEF ValueAssumption, NullValue
<1> QED BY <1>1, <1>5, <1>6, <1>7, <1>8

LEMMA NullableAnyOfMeans ==
    ASSUME NEW kind \in Kinds, NEW s \in kind, NullableAnyOf(s) # NoView
    PROVE  LET view == NullableAnyOf(s)[1]
           IN  /\ view.nullable
               /\ view.inner \in kind /\ Height[view.inner] < Height[s]
               /\ \A v \in Values : Accepts(s, v) <=> v = NullValue \/ Accepted(view.inner, v)
<1> DEFINE branches == Own(s, "anyOf")
           siblings == Without(s, {"anyOf"})
           isNull == {j \in DOMAIN branches : branches[j] = NullSchema}
           inner == branches[CHOOSE j \in {1, 2} : j \notin isNull]
           view == NullableAnyOf(s)[1]
<1>1. /\ branches \notin {Undefined, Invalid}
      /\ Len(branches) = 2 /\ Cardinality(isNull) = 1 /\ inner # Invalid
      /\ DOMAIN siblings \subseteq NullableSiblings
      /\ NullableAnyOf(s) = View(inner, siblings, TRUE)
  BY DEF NullableAnyOf
<1>2. view.nullable = TRUE /\ view.inner = inner
  BY <1>1 DEF View
<1>3. "anyOf" \in DOMAIN s /\ branches = s["anyOf"]
  BY <1>1, Absent
<1>4. branches \in Seq(kind \cup {Invalid}) /\ DOMAIN branches = {1, 2}
  <2>1. branches \in Seq(kind \cup {Invalid})
    BY <1>1, <1>3, SchemasOfKind DEF WellFormed
  <2> HIDE DEF branches
  <2>2. DOMAIN branches = 1..2
    BY <1>1, <2>1
  <2> QED BY <2>1, <2>2
<1>5. PICK null \in {1, 2} : isNull = {null}
  <2>1. \E null : isNull = {null}
    <3>1. IsFiniteSet({1, 2}) /\ isNull \subseteq {1, 2}
      <4>1. IsFiniteSet({1}) /\ {1} \cup {2} = {1, 2}
        BY FS_Singleton
      <4>2. IsFiniteSet({1} \cup {2})
        BY <4>1, FS_AddElement
      <4> QED BY <1>4, <4>1, <4>2
    <3>2. IsFiniteSet(isNull)
      BY <3>1, FS_Subset
    <3> HIDE DEF isNull
    <3> QED BY <1>1, <3>2, FS_Singleton
  <2> QED BY <1>4, <2>1
<1>6. PICK other \in {1, 2} : other # null /\ inner = branches[other] /\ {1, 2} = {null, other}
  <2>1. \E j \in {1, 2} : j \notin isNull
    BY <1>5
  <2> DEFINE other == CHOOSE j \in {1, 2} : j \notin isNull
  <2>2. other \in {1, 2} /\ other \notin isNull
    BY <2>1
  <2>3. inner = branches[other]
    OBVIOUS
  <2> HIDE DEF other, branches, inner
  <2> QED BY <1>5, <2>2, <2>3
<1>7. branches[null] = NullSchema /\ branches[other] = inner
  BY <1>5, <1>6
<1>8. NullSchema \in kind
  BY <1>4, <1>7, SchemasOfKind
<1>9. inner \in kind /\ Height[inner] < Height[s]
  <2>1. inner \in Nested(s) \ {Invalid}
    BY <1>1, <1>3, <1>4, <1>6, NestedSchemas
  <2> QED BY <2>1, SchemasOfKind
<1>10. s \notin {Invalid, Never}
  <2>1. DOMAIN Never = {"never"}
    BY DEF Never
  <2> QED BY <1>3, <2>1, SchemasOfKind
<1>11. DOMAIN s \subseteq {"anyOf", "description", "title", "default"}
  BY <1>1 DEF Without, NullableSiblings, Documentation
<1>12. \A name : Governing(s, name) = {}
  <2>1. DOMAIN ReadProperties(s) = {} /\ DOMAIN Patterns(s) = {}
    BY <1>11 DEF ReadProperties, Patterns, Anything
  <2>2. Own(s, "additionalProperties") = Undefined
    BY <1>11 DEF Own
  <2> QED BY <2>1, <2>2 DEF Governing
<1>13. ASSUME NEW v \in Values
       PROVE  Accepts(s, v) <=> v = NullValue \/ Accepted(inner, v)
  <2>1. Meets(s, "description", v) /\ Meets(s, "title", v) /\ Meets(s, "default", v)
    BY DEF Meets
  <2>2. Accepts(s, v) <=> Meets(s, "anyOf", v)
    BY <1>3, <1>10, <1>11, <1>12, <2>1, AcceptsMeans
  <2>3. Meets(s, "anyOf", v) <=> \E j \in DOMAIN s["anyOf"] : Accepted(s["anyOf"][j], v)
    BY <1>1, <1>3 DEF Meets
  <2> HIDE DEF branches, inner
  <2>4. Meets(s, "anyOf", v) <=> Accepted(branches[null], v) \/ Accepted(branches[other], v)
    BY <1>3, <1>4, <1>6, <2>3
  <2>5. Accepted(NullSchema, v) <=> v = NullValue
    BY <1>8, NullSchemaMeans
  <2> QED BY <1>7, <2>2, <2>4, <2>5
<1> HIDE DEF inner, view
<1> QED BY <1>2, <1>9, <1>13 DEF view

(* Null is taken out of the type and the enumeration, and nothing else.    *)
LEMMA NonNullMeans ==
    ASSUME NEW kind \in Kinds, NEW s \in kind, s # Never,
           Invalid \notin {Own(s, "type"), Own(s, "enum")}, NEW v \in Values
    PROVE  Accepted(NonNull(s), v) <=>
               /\ Accepts(s, v)
               /\ v = NullValue => Own(s, "type") = Undefined /\ Own(s, "enum") = Undefined
<1> DEFINE t == NonNull(s)
<1>1. t \in kind
  BY ContractAssumption DEF SchemaAssumption
<1>2. DOMAIN t = DOMAIN s
  BY DEF NonNull
<1>3. /\ \A k \in DOMAIN s \ {"type", "enum"} : t[k] = s[k]
      /\ "type" \in DOMAIN s => t["type"] = s["type"] \ {"null"}
      /\ "enum" \in DOMAIN s => t["enum"] = s["enum"] \ {NullValue}
  BY DEF NonNull
<1>4. /\ "type" \in DOMAIN s <=> Own(s, "type") # Undefined
      /\ "enum" \in DOMAIN s <=> Own(s, "enum") # Undefined
      /\ "type" \in DOMAIN s => s["type"] # Invalid /\ t["type"] # Invalid
      /\ "enum" \in DOMAIN s => s["enum"] # Invalid /\ t["enum"] # Invalid
  <2>1. /\ "type" \in DOMAIN s <=> Own(s, "type") # Undefined
        /\ "enum" \in DOMAIN s <=> Own(s, "enum") # Undefined
    BY SchemasOfKind, KeywordPresent
  <2>2. /\ "type" \in DOMAIN s => s["type"] # Invalid
        /\ "enum" \in DOMAIN s => s["enum"] # Invalid
    BY Absent
  <2>3. Invalid \notin {Own(t, "type"), Own(t, "enum")}
    BY ContractAssumption DEF SchemaAssumption
  <2> HIDE DEF t
  <2>4. /\ "type" \in DOMAIN t => t["type"] # Invalid
        /\ "enum" \in DOMAIN t => t["enum"] # Invalid
    BY <2>3, Absent
  <2> QED BY <1>2, <2>1, <2>2, <2>4
<1>5. s \notin {Invalid, Never} /\ t \notin {Invalid, Never}
  <2>1. s # Invalid /\ t # Invalid
    BY <1>1, SchemasOfKind
  <2>2. s = [k \in DOMAIN s |-> s[k]]
    <3>1. WellFormed(s, kind)
      BY SchemasOfKind
    <3> QED BY <3>1, Zenon DEF WellFormed
  <2>3. ASSUME t = Never PROVE FALSE
    <3>1. DOMAIN s = {"never"}
      BY <1>2, <2>3 DEF Never
    <3>2. s["never"] = TRUE
      <4>1. s["never"] = t["never"]
        BY <1>3, <3>1
      <4> QED BY <2>3, <4>1 DEF Never
    <3>3. s = Never
      BY <2>2, <3>1, <3>2 DEF Never
    <3> QED BY <3>3
  <2> QED BY <2>1, <2>3
<1>6. \A name : Governing(t, name) = Governing(s, name)
  <2>1. ReadProperties(t) = ReadProperties(s) /\ Patterns(t) = Patterns(s)
    BY <1>2, <1>3 DEF ReadProperties, Patterns
  <2>2. Own(t, "additionalProperties") = Own(s, "additionalProperties")
    BY <1>2, <1>3 DEF Own
  <2> QED BY <2>1, <2>2 DEF Governing
<1>7. \A k \in DOMAIN s \ {"type", "enum"} : Meets(t, k, v) <=> Meets(s, k, v)
  BY <1>3 DEF Meets
<1>8. v[1] = "null" <=> v = NullValue
  BY ContractAssumption DEF ValueAssumption, NullValue
<1>9. "type" \in DOMAIN s =>
          (Meets(t, "type", v) <=> Meets(s, "type", v) /\ v # NullValue)
  <2> SUFFICES ASSUME "type" \in DOMAIN s
               PROVE  Meets(t, "type", v) <=> Meets(s, "type", v) /\ v # NullValue
    OBVIOUS
  <2>1. Meets(t, "type", v) <=> \E x \in s["type"] \ {"null"} : HasType(v, x)
    BY <1>2, <1>3, <1>4, MeetsType
  <2>2. Meets(s, "type", v) <=> \E x \in s["type"] : HasType(v, x)
    BY <1>4, MeetsType
  <2>3. HasType(v, "null") <=> v = NullValue
    BY <1>8 DEF HasType
  <2>4. v = NullValue => \A x : HasType(v, x) => x = "null"
    BY <1>8 DEF HasType
  <2> QED BY <2>1, <2>2, <2>3, <2>4
<1>10. "enum" \in DOMAIN s =>
          (Meets(t, "enum", v) <=> Meets(s, "enum", v) /\ v # NullValue)
  BY <1>3, <1>4, MeetsValues
<1>11. Accepts(t, v) <=>
           /\ Accepts(s, v)
           /\ v = NullValue => "type" \notin DOMAIN s /\ "enum" \notin DOMAIN s
  BY <1>2, <1>5, <1>6, <1>7, <1>9, <1>10, AcceptsMeans
<1>12. Accepted(t, v) = Accepts(t, v)
  BY <1>1, Recursion
<1> QED BY <1>4, <1>11, <1>12

LEMMA PlainViewMeans ==
    ASSUME NEW kind \in Kinds, NEW s \in kind, s # Never, PlainView(s) # NoView
    PROVE  LET view == PlainView(s)[1]
           IN  /\ view.nullable \in BOOLEAN
               /\ view.inner \in kind /\ Height[view.inner] <= Height[s]
               /\ \A v \in Values :
                     Accepts(s, v)
                     <=> (view.nullable /\ v = NullValue) \/ Accepted(view.inner, v)
<1> DEFINE types == Own(s, "type")
           enumeration == Own(s, "enum")
           onlyNull == \/ types # Undefined /\ types \ {"null"} = {}
                       \/ enumeration # Undefined /\ enumeration \ {NullValue} = {}
                       \/ Own(s, "const") = NullValue
           inner == IF onlyNull THEN Never ELSE NonNull(s)
           nullable == AcceptsNull(types, enumeration, s)
           view == PlainView(s)[1]
<1>1. /\ DOMAIN s \cap NullOpaque = {} /\ Invalid \notin {types, enumeration}
      /\ PlainView(s) = View(inner, Anything, nullable)
  <2>1. ~(DOMAIN s \cap NullOpaque # {} \/ Invalid \in {types, enumeration})
    BY DEF PlainView
  <2>2. PlainView(s) = View(inner, Anything, nullable)
    BY <2>1, Zenon DEF PlainView
  <2> QED BY <2>1, <2>2
<1>2. view.nullable = nullable /\ view.inner = inner
  <2> HIDE DEF inner, nullable
  <2> QED BY <1>1 DEF View
<1>3. nullable \in BOOLEAN
  BY Zenon DEF AcceptsNull
<1>4. NonNull(s) \in kind /\ Height[NonNull(s)] <= Height[s]
  BY <1>1, ContractAssumption DEF SchemaAssumption
<1>5. inner \in kind /\ Height[inner] <= Height[s]
  <2>1. Never \in kind /\ Height[Never] = 0 /\ Height[s] \in Nat
    BY SchemasOfKind
  <2> QED BY <1>4, <2>1
<1>6. /\ "type" \in DOMAIN s <=> types # Undefined
      /\ "enum" \in DOMAIN s <=> enumeration # Undefined
      /\ "const" \in DOMAIN s <=> Own(s, "const") # Undefined
      /\ "type" \in DOMAIN s => s["type"] = types
      /\ "enum" \in DOMAIN s => s["enum"] = enumeration
      /\ "const" \in DOMAIN s => s["const"] = Own(s, "const") /\ s["const"] # Invalid
  <2>1. "const" \in DOMAIN s => s["const"] # Invalid
    BY SchemasOfKind, ContractAssumption DEF WellFormed, ValueAssumption
  <2> QED BY <2>1, SchemasOfKind, KeywordPresent, Absent
<1>7. NullValue # Undefined
  BY ContractAssumption DEF ValueAssumption
<1> SUFFICES ASSUME NEW v \in Values
             PROVE  Accepts(s, v) <=> (nullable /\ v = NullValue) \/ Accepted(inner, v)
  <2> HIDE DEF inner, nullable, view
  <2> QED BY <1>2, <1>3, <1>5 DEF view
<1>8. s \notin {Invalid, Never}
  BY SchemasOfKind
<1>9. CASE v = NullValue
  <2>1. v[1] = "null"
    BY <1>9 DEF NullValue
  <2>2. \A k \in DOMAIN s \ {"type", "enum", "const"} : Meets(s, k, v)
    <3> SUFFICES ASSUME NEW k \in DOMAIN s \ {"type", "enum", "const"} PROVE Meets(s, k, v)
      OBVIOUS
    <3>1. k \notin {"anyOf", "not"}
      BY <1>1 DEF NullOpaque
    <3> QED BY <2>1, <3>1 DEF Meets
  <2>3. "type" \in DOMAIN s => (Meets(s, "type", v) <=> "null" \in types)
    <3>1. "type" \in DOMAIN s => s["type"] # Invalid
      BY <1>1, <1>6
    <3> QED BY <1>6, <2>1, <3>1, MeetsType DEF HasType
  <2>4. /\ "enum" \in DOMAIN s => (Meets(s, "enum", v) <=> NullValue \in enumeration)
        /\ "const" \in DOMAIN s => (Meets(s, "const", v) <=> s["const"] = NullValue)
    <3>1. "enum" \in DOMAIN s => s["enum"] # Invalid
      BY <1>1, <1>6
    <3> HIDE DEF types, enumeration, onlyNull, inner, nullable, view
    <3> QED BY <1>6, <1>9, <3>1, MeetsValues
  <2>5. Accepts(s, v) <=> \A k \in DOMAIN s : Meets(s, k, v)
    <3>1. v[1] # "object"
      BY <2>1
    <3> QED BY <1>8, <3>1, AcceptsMeans
  <2>6. Accepts(s, v) <=> nullable
    <3> HIDE DEF types, enumeration, onlyNull, inner, view
    <3> QED BY <1>6, <2>2, <2>3, <2>4, <2>5 DEF AcceptsNull
  <2>7. Accepted(inner, v) => Accepts(s, v)
    <3>1. CASE onlyNull
      BY <3>1, NeverAccepts
    <3>2. CASE ~onlyNull
      <4>1. inner = NonNull(s)
        BY <3>2
      <4>2. Accepted(NonNull(s), v) => Accepts(s, v)
        BY <1>1, NonNullMeans
      <4> QED BY <4>1, <4>2
    <3> QED BY <3>1, <3>2
  <2> HIDE DEF inner, nullable
  <2> QED BY <1>9, <2>6, <2>7
<1>10. CASE v # NullValue
  <2>1. v[1] # "null"
    BY <1>10, ContractAssumption DEF ValueAssumption
  <2>2. Accepted(NonNull(s), v) <=> Accepts(s, v)
    BY <1>1, <1>10, NonNullMeans
  <2>3. onlyNull => ~Accepts(s, v)
    <3>1. CASE types # Undefined /\ types \ {"null"} = {}
      <4>1. \A t \in types : ~HasType(v, t)
        BY <2>1, <3>1 DEF HasType
      <4>2. ~Meets(s, "type", v)
        BY <1>1, <1>6, <3>1, <4>1, MeetsType
      <4> QED BY <1>6, <1>8, <3>1, <4>2, AcceptsMeans
    <3>2. CASE enumeration # Undefined /\ enumeration \ {NullValue} = {}
      <4>1. ~Meets(s, "enum", v)
        BY <1>1, <1>6, <1>10, <3>2, MeetsValues
      <4> QED BY <1>6, <1>8, <3>2, <4>1, AcceptsMeans
    <3>3. CASE Own(s, "const") = NullValue
      <4>1. "const" \in DOMAIN s /\ s["const"] = NullValue /\ s["const"] # Invalid
        BY <1>6, <1>7, <3>3
      <4>2. ~Meets(s, "const", v)
        BY <1>10, <4>1, MeetsValues
      <4> QED BY <1>8, <4>1, <4>2, AcceptsMeans
    <3> QED BY <3>1, <3>2, <3>3
  <2>4. ~Accepted(Never, v)
    BY NeverAccepts
  <2> HIDE DEF onlyNull, nullable
  <2> QED BY <1>10, <2>2, <2>3, <2>4
<1> QED BY <1>9, <1>10

LEMMA ViewMeans ==
    ASSUME NEW kind \in Kinds, NEW s \in kind, s # Never, ViewOf(s) # NoView
    PROVE  LET view == ViewOf(s)[1]
           IN  /\ view.nullable \in BOOLEAN
               /\ view.inner \in kind
               /\ Height[view.inner] \in Nat /\ Height[view.inner] <= Height[s]
               /\ NullableAnyOf(s) # NoView => Height[view.inner] < Height[s]
               /\ \A v \in Values :
                     Accepts(s, v) <=> (view.nullable /\ v = NullValue) \/ Accepted(view.inner, v)
<1> DEFINE view == ViewOf(s)[1]
<1>1. CASE NullableAnyOf(s) # NoView
  <2>1. view = NullableAnyOf(s)[1]
    BY <1>1 DEF ViewOf
  <2>2. view.nullable = TRUE
    <3>1. \E inner, siblings : NullableAnyOf(s) = View(inner, siblings, TRUE)
      BY <1>1 DEF NullableAnyOf
    <3> QED BY <2>1, <3>1 DEF View
  <2>3. /\ view.inner \in kind /\ Height[view.inner] < Height[s]
        /\ \A v \in Values : Accepts(s, v) <=> v = NullValue \/ Accepted(view.inner, v)
    BY <1>1, <2>1, NullableAnyOfMeans
  <2>4. Height[view.inner] \in Nat /\ Height[s] \in Nat
    BY <2>3, SchemasOfKind
  <2> HIDE DEF view
  <2>5. Height[view.inner] <= Height[s]
    BY <2>3, <2>4
  <2> QED BY <2>2, <2>3, <2>4, <2>5 DEF view
<1>2. CASE NullableAnyOf(s) = NoView
  <2>1. view = PlainView(s)[1] /\ PlainView(s) # NoView
    BY <1>2 DEF ViewOf
  <2>2. /\ view.nullable \in BOOLEAN
        /\ view.inner \in kind /\ Height[view.inner] <= Height[s]
        /\ \A v \in Values :
              Accepts(s, v) <=> (view.nullable /\ v = NullValue) \/ Accepted(view.inner, v)
    BY <2>1, PlainViewMeans
  <2>3. Height[view.inner] \in Nat
    BY <2>2, SchemasOfKind
  <2> HIDE DEF view
  <2> QED BY <1>2, <2>2, <2>3 DEF view
<1> QED BY <1>1, <1>2

LEMMA ViewsKept ==
    ASSUME NEW kind \in Kinds, NEW direction \in Directions, NEW p \in kind, NEW n \in kind,
           Never \notin {p, n}, ComparesViews(p, n), InnerSound(kind, direction, p, n),
           Harmless(CompareNullable(direction, ViewOf(p)[1], ViewOf(n)[1])), NEW v \in Values,
           direction = "input" => Sent(v, ViewOf(p)[1].inner, ViewOf(n)[1].inner),
           Accepts(Narrower(direction, p, n), v)
    PROVE  Accepts(Wider(direction, p, n), v)
<1> DEFINE before == ViewOf(p)[1]
           after == ViewOf(n)[1]
           a == before.inner
           b == after.inner
<1>1. ViewOf(p) # NoView /\ ViewOf(n) # NoView
  BY DEF ComparesViews
<1>2. /\ before.nullable \in BOOLEAN /\ after.nullable \in BOOLEAN
      /\ a \in kind /\ b \in kind
      /\ Height[a] \in Nat /\ Height[a] <= Height[p]
      /\ NullableAnyOf(p) # NoView => Height[a] < Height[p]
      /\ Height[b] \in Nat /\ Height[b] <= Height[n]
      /\ NullableAnyOf(n) # NoView => Height[b] < Height[n]
      /\ Accepts(p, v) <=> (before.nullable /\ v = NullValue) \/ Accepted(a, v)
      /\ Accepts(n, v) <=> (after.nullable /\ v = NullValue) \/ Accepted(b, v)
  BY <1>1, ViewMeans
<1>3. NullableAnyOf(p) # NoView \/ NullableAnyOf(n) # NoView
  BY DEF ComparesViews
<1>4. Sound(direction, a, b)
  <2>1. Height[p] \in Nat /\ Height[n] \in Nat
    BY SchemasOfKind
  <2>2. Height[a] + Height[b] < Height[p] + Height[n]
    <3> HIDE DEF a, b
    <3> QED BY <1>2, <1>3, <2>1
  <2> QED BY <1>2, <2>2 DEF InnerSound
<1>5. /\ Harmless(Effect(direction, "TYPE_CHANGED",
                         EffectOf(before.nullable => after.nullable,
                                  after.nullable => before.nullable)))
      /\ Harmless(Compared(direction, a, b))
  <2>1. Effect(direction, "TYPE_CHANGED",
               EffectOf(before.nullable => after.nullable, after.nullable => before.nullable))
        \subseteq CompareNullable(direction, before, after)
    BY DEF CompareNullable
  <2>2. Compared(direction, a, b) \subseteq CompareNullable(direction, before, after)
    BY DEF CompareNullable
  <2> QED BY <2>1, <2>2 DEF Harmless
<1>6. IF direction = "input" THEN before.nullable => after.nullable
      ELSE after.nullable => before.nullable
  <2> DEFINE widened == before.nullable => after.nullable
             narrowed == after.nullable => before.nullable
  <2>1. widened \in BOOLEAN /\ narrowed \in BOOLEAN
    OBVIOUS
  <2> HIDE DEF widened, narrowed
  <2>2. IF direction = "input" THEN widened ELSE narrowed
    BY <1>5, <2>1, HarmlessRestriction, Zenon DEF widened, narrowed
  <2> QED BY <2>2 DEF widened, narrowed
<1> HIDE DEF a, b
<1>7. Accepted(Narrower(direction, a, b), v) => Accepted(Wider(direction, a, b), v)
  <2>1. direction = "input" => Sent(v, a, b)
    BY DEF a, b
  <2> QED BY <1>2, <1>4, <1>5, <2>1, InnerKept
<1>8. CASE direction = "input"
  <2>1. Accepts(p, v) /\ (Accepted(a, v) => Accepted(b, v)) /\ Wider(direction, p, n) = n
    BY <1>7, <1>8 DEF Narrower, Wider
  <2> QED BY <1>2, <1>6, <1>8, <2>1
<1>9. CASE direction = "output"
  <2>1. Accepts(n, v) /\ (Accepted(b, v) => Accepted(a, v)) /\ Wider(direction, p, n) = p
    BY <1>7, <1>9 DEF Narrower, Wider
  <2> QED BY <1>2, <1>6, <1>9, <2>1
<1> QED BY <1>8, <1>9 DEF Directions

-----------------------------------------------------------------------------
(* All schemas.                                                            *)

LEMMA SoundStep ==
    ASSUME NEW kind \in Kinds, NEW direction \in Directions, NEW p \in kind, NEW n \in kind,
           InnerSound(kind, direction, p, n)
    PROVE  Sound(direction, p, n)
<1> SUFFICES ASSUME Harmless(CompareSchema(direction, p, n)), NEW v \in Values,
                    Accepts(Narrower(direction, p, n), v),
                    direction = "input" => Sends(v, p, n)
             PROVE  Accepts(Wider(direction, p, n), v)
  BY DEF Sound, Kept
<1>1. CASE p = n
  BY <1>1 DEF Narrower, Wider
<1>2. CASE p # n
  <2>1. p # Invalid /\ n # Invalid
    BY SchemasOfKind
  <2>2. CASE Never \in {p, n}
    <3>1. Harmless(Effect(direction, "TYPE_CHANGED",
                          IF p = Never THEN "widened" ELSE "narrowed"))
      BY <1>2, <2>1, <2>2 DEF CompareSchema
    <3>2. Narrower(direction, p, n) = Never
      <4>1. CASE p = Never
        <5>1. direction = "input"
          BY <3>1, <4>1, HarmlessEffect
        <5> QED BY <4>1, <5>1 DEF Narrower
      <4>2. CASE p # Never
        <5>1. direction # "input"
          BY <3>1, <4>2, HarmlessEffect
        <5> QED BY <2>2, <4>2, <5>1 DEF Narrower
      <4> QED BY <4>1, <4>2
    <3>3. ~Accepts(Never, v)
      BY SchemasOfKind DEF Accepts
    <3> QED BY <3>2, <3>3
  <2>3. CASE Never \notin {p, n} /\ ComparesViews(p, n)
    <3>1. Harmless(CompareNullable(direction, ViewOf(p)[1], ViewOf(n)[1]))
      BY <1>2, <2>1, <2>3 DEF CompareSchema
    <3>2. direction = "input" => Sent(v, ViewOf(p)[1].inner, ViewOf(n)[1].inner)
      BY <1>2, <2>1, <2>3 DEF Sends
    <3> QED BY <2>3, <3>1, <3>2, ViewsKept
  <2>4. CASE Never \notin {p, n} /\ ~ComparesViews(p, n)
    <3>1. Harmless(CompareKeywords(direction, p, n))
      BY <1>2, <2>1, <2>4 DEF CompareSchema
    <3>2. direction = "input" => SendsInside(v, p, n)
      BY <1>2, <2>1, <2>4 DEF Sends
    <3> QED BY <2>4, <3>1, <3>2, KeywordsKept
  <2> QED BY <2>2, <2>3, <2>4
<1> QED BY <1>1, <1>2

LEMMA LeastNatural ==
    ASSUME NEW T, T \subseteq Nat, T # {}
    PROVE  \E m \in T : \A k \in T : m <= k
<1> DEFINE R == OpToRel(<, Nat)
<1>1. IsWellFoundedOn(R, Nat)
  BY NatLessThanWellFounded
<1>2. \E x \in T : \A y \in T : <<y, x>> \notin R
  <2> HIDE DEF R
  <2> QED BY <1>1, WFMin
<1>3. \A x, y \in Nat : <<y, x>> \notin R => x <= y
  BY DEF OpToRel
<1> QED BY <1>2, <1>3

(* compareSchema, for two schemas of any depth: "A change the JSON Schema  *)
(* comparison cannot decide is potentially breaking, never guessed         *)
(* compatible".  If it reports nothing but compatible changes, the next    *)
(* input schema accepts what callers sent that the previous one accepted,  *)
(* and the previous output schema all that the next one accepts.           *)
THEOREM ComparisonSound ==
    ASSUME NEW kind \in Kinds, NEW direction \in Directions, NEW p \in kind, NEW n \in kind,
           Harmless(CompareSchema(direction, p, n))
    PROVE  Kept(direction, p, n)
<1> DEFINE Wrong(h) == \E a, b \in kind : Height[a] + Height[b] = h /\ ~Sound(direction, a, b)
           T == {h \in Nat : Wrong(h)}
<1>1. \A a \in kind : Height[a] \in Nat
  BY SchemasOfKind
<1>2. T = {}
  <2> SUFFICES ASSUME T # {} PROVE FALSE
    OBVIOUS
  <2>1. T \subseteq Nat
    OBVIOUS
  <2>2. PICK m \in T : \A k \in T : m <= k
    <3> HIDE DEF T
    <3> QED BY <2>1, LeastNatural
  <2>3. PICK a \in kind, b \in kind :
            Height[a] + Height[b] = m /\ ~Sound(direction, a, b)
    OBVIOUS
  <2>4. InnerSound(kind, direction, a, b)
    <3> SUFFICES ASSUME NEW c \in kind, NEW d \in kind,
                        Height[c] + Height[d] < Height[a] + Height[b],
                        ~Sound(direction, c, d)
                 PROVE  FALSE
      BY DEF InnerSound
    <3>1. Height[c] + Height[d] \in Nat
      BY <1>1
    <3>2. Height[c] + Height[d] \in T
      BY <3>1
    <3>3. m <= Height[c] + Height[d]
      BY <2>2, <3>2
    <3>4. m \in Nat
      OBVIOUS
    <3> QED BY <2>3, <3>1, <3>3, <3>4
  <2> QED BY <2>3, <2>4, SoundStep
<1>3. Sound(direction, p, n)
  <2>1. Height[p] + Height[n] \in Nat
    BY <1>1
  <2>2. Height[p] + Height[n] \notin T
    BY <1>2
  <2> QED BY <2>1, <2>2
<1> QED BY <1>3 DEF Sound

-----------------------------------------------------------------------------
(* Releases.                                                               *)

(* What the command lets through.                                          *)
LEMMA ReleasedMeans ==
    ASSUME NEW before, NEW after, <<before, after>> \in Compatible
    PROVE  \E F \in Families :
               before \in F /\ after \in F /\ Harmless(DiffContractSnapshots(before, after))
<1>1. PICK F \in Families :
          <<before, after>> \in {pair \in F \X F :
                                    ExitCode(DiffContractSnapshots(pair[1], pair[2]), TRUE) = 0}
  BY DEF Compatible
<1>2. /\ before \in F /\ after \in F
      /\ ExitCode(DiffContractSnapshots(before, after), TRUE) = 0
  BY <1>1
<1>3. Harmless(DiffContractSnapshots(before, after))
  BY <1>2 DEF ExitCode, Harmless, Alarms
<1> QED BY <1>2, <1>3

LEMMA HarmlessCapabilities ==
    ASSUME NEW before, NEW after, Harmless(DiffContractSnapshots(before, after)),
           NEW id \in DOMAIN before.capabilities
    PROVE  /\ id \in DOMAIN after.capabilities
           /\ Harmless(CompareCapability(before.capabilities[id], after.capabilities[id]))
<1> DEFINE was == before.capabilities
           is == after.capabilities
           named == IF before.engine = after.engine THEN {}
                    ELSE Change("ENGINE_NAME_CHANGED", "potentially-breaking")
           removed == UNION {Change("CAPABILITY_REMOVED", "breaking") :
                                x \in DOMAIN was \ DOMAIN is}
           added == UNION {Change("CAPABILITY_ADDED", "compatible") :
                                x \in DOMAIN is \ DOMAIN was}
           kept == UNION {CompareCapability(was[x], is[x]) : x \in DOMAIN was \cap DOMAIN is}
<1>1. DiffContractSnapshots(before, after) = named \cup removed \cup added \cup kept
  BY Zenon DEF DiffContractSnapshots
<1>2. Harmless(removed) /\ Harmless(kept)
  <2> HIDE DEF named, removed, added, kept
  <2> QED BY <1>1 DEF Harmless
<1>3. id \in DOMAIN is
  <2> SUFFICES ASSUME id \in DOMAIN was \ DOMAIN is PROVE FALSE
    OBVIOUS
  <2>1. Harmless(Change("CAPABILITY_REMOVED", "breaking"))
    BY <1>2, Zenon DEF Harmless
  <2> QED BY <2>1, HarmlessChange DEF Alarms
<1>4. Harmless(CompareCapability(was[id], is[id]))
  <2>1. id \in DOMAIN was \cap DOMAIN is
    BY <1>3
  <2> HIDE DEF was, is
  <2> QED BY <1>2, <2>1, Zenon DEF Harmless
<1> QED BY <1>3, <1>4

LEMMA CapabilityParts ==
    ASSUME NEW b, NEW a, Harmless(CompareCapability(b, a))
    PROVE  /\ b.access = a.access \/ AccessSeverity(b.access, a.access) = "compatible"
           /\ b.timeoutMs = a.timeoutMs \/ ~ShorterTimeout(b.timeoutMs, a.timeoutMs)
           /\ Harmless(CompareSchema("input", b.inputSchema, a.inputSchema))
           /\ Harmless(CompareSchema("output", b.outputSchema, a.outputSchema))
           /\ Harmless(CompareErrors(b.errors, a.errors))
<1> DEFINE described == IF b.description = a.description THEN {}
                        ELSE Change("METADATA_CHANGED", "compatible")
           access == IF b.access = a.access THEN {}
                     ELSE Change("ACCESS_CHANGED", AccessSeverity(b.access, a.access))
           timeout == IF b.timeoutMs = a.timeoutMs THEN {}
                      ELSE Change("TIMEOUT_CHANGED",
                                  IF ShorterTimeout(b.timeoutMs, a.timeoutMs)
                                  THEN "potentially-breaking" ELSE "compatible")
           hints == UNION {IF Keeps(b.annotations, a.annotations, hint) THEN {}
                           ELSE Change("ANNOTATIONS_CHANGED",
                                       IF LostGuarantee(hint, Own(b.annotations, hint),
                                                        Own(a.annotations, hint))
                                       THEN "potentially-breaking" ELSE "compatible") :
                              hint \in DOMAIN Guarantee}
           deprecation == IF b.deprecated = a.deprecated THEN {}
                          ELSE Change("DEPRECATION_CHANGED", "compatible")
<1>1. CompareCapability(b, a) =
          described \cup access \cup timeout \cup hints \cup deprecation
          \cup CompareSchema("input", b.inputSchema, a.inputSchema)
          \cup CompareSchema("output", b.outputSchema, a.outputSchema)
          \cup CompareErrors(b.errors, a.errors)
  BY Zenon DEF CompareCapability
<1>2. /\ Harmless(access) /\ Harmless(timeout)
      /\ Harmless(CompareSchema("input", b.inputSchema, a.inputSchema))
      /\ Harmless(CompareSchema("output", b.outputSchema, a.outputSchema))
      /\ Harmless(CompareErrors(b.errors, a.errors))
  <2> HIDE DEF described, access, timeout, hints, deprecation
  <2> QED BY <1>1 DEF Harmless
<1>3. b.access = a.access \/ AccessSeverity(b.access, a.access) = "compatible"
  <2>1. AccessSeverity(b.access, a.access) \in {"compatible"} \cup Alarms
    BY DEF AccessSeverity, Alarms
  <2> QED BY <1>2, <2>1, HarmlessChange
<1>4. b.timeoutMs = a.timeoutMs \/ ~ShorterTimeout(b.timeoutMs, a.timeoutMs)
  BY <1>2, HarmlessChange DEF Alarms
<1> QED BY <1>2, <1>3, <1>4

(* The contracts of one capability, in two snapshots of a family.          *)
LEMMA CapabilitiesOfFamily ==
    ASSUME NEW F \in Families
    PROVE  \E kind \in Kinds :
               \A snapshot \in F : \A id \in DOMAIN snapshot.capabilities :
                   LET c == snapshot.capabilities[id]
                   IN  /\ DOMAIN c = Fields
                       /\ c.timeoutMs \in Nat \cup {Undefined}
                       /\ c.inputSchema \in kind /\ c.outputSchema \in kind
                       /\ \A code \in DOMAIN c.errors :
                             c.errors[code].details \in kind \cup {Undefined}
BY ContractAssumption DEF SnapshotAssumption

LEMMA HarmlessServesCallers ==
    ASSUME NEW kind \in Kinds, NEW b, NEW a, Harmless(CompareCapability(b, a)),
           b.timeoutMs \in Nat \cup {Undefined}, a.timeoutMs \in Nat \cup {Undefined},
           b.inputSchema \in kind, a.inputSchema \in kind
    PROVE  CallerServed(b, a)
<1>1. a.access = b.access \/ a.access = "public"
  <2>1. b.access = a.access \/ AccessSeverity(b.access, a.access) = "compatible"
    BY CapabilityParts
  <2> QED BY <2>1 DEF AccessSeverity
<1>2. ShorterTimeout(b.timeoutMs, a.timeoutMs) = FALSE
  <2>1. b.timeoutMs = a.timeoutMs \/ ~ShorterTimeout(b.timeoutMs, a.timeoutMs)
    BY CapabilityParts
  <2>2. b.timeoutMs = a.timeoutMs => ~ShorterTimeout(b.timeoutMs, a.timeoutMs)
    BY DEF ShorterTimeout
  <2>3. ShorterTimeout(b.timeoutMs, a.timeoutMs) \in BOOLEAN
    BY Zenon DEF ShorterTimeout
  <2> QED BY <2>1, <2>2, <2>3
<1>3. Kept("input", b.inputSchema, a.inputSchema)
  <2>1. Harmless(CompareSchema("input", b.inputSchema, a.inputSchema))
    BY CapabilityParts
  <2> QED BY <2>1, ComparisonSound DEF Directions
<1> QED BY <1>1, <1>2, <1>3 DEF CallerServed, Kept, Narrower, Wider

LEMMA PromisesKept ==
    ASSUME NEW kind \in Kinds, NEW b \in kind, NEW a \in kind,
           Harmless(CompareSchema("output", b, a))
    PROVE  Promises(b, a)
<1>1. Kept("output", b, a)
  BY ComparisonSound DEF Directions
<1> QED BY <1>1 DEF Promises, Kept, Narrower, Wider

LEMMA HarmlessServesConsumers ==
    ASSUME NEW kind \in Kinds, NEW b, NEW a, Harmless(CompareCapability(b, a)),
           b.outputSchema \in kind, a.outputSchema \in kind,
           \A code \in DOMAIN b.errors : b.errors[code].details \in kind \cup {Undefined},
           \A code \in DOMAIN a.errors : a.errors[code].details \in kind \cup {Undefined}
    PROVE  ConsumerServed(b, a)
<1> DEFINE was == b.errors
           is == a.errors
           removed == {Change("ERROR_REMOVED", "breaking") : x \in DOMAIN was \ DOMAIN is}
           added == {Change("ERROR_ADDED", "compatible") : x \in DOMAIN is \ DOMAIN was}
           retry(x) == IF was[x].retryable = is[x].retryable THEN {}
                       ELSE Change("ERROR_RETRYABLE_CHANGED", "potentially-breaking")
           details(x) ==
               CASE was[x].details = is[x].details -> {}
                 [] was[x].details # is[x].details /\ was[x].details = Undefined ->
                        Change("ERROR_DETAILS_CHANGED", "compatible")
                 [] was[x].details # is[x].details /\ is[x].details = Undefined ->
                        Change("ERROR_DETAILS_CHANGED", "breaking")
                 [] OTHER -> CompareSchema("output", was[x].details, is[x].details)
           kept == {retry(x) \cup details(x) : x \in DOMAIN was \cap DOMAIN is}
<1>1. Promises(b.outputSchema, a.outputSchema)
  BY CapabilityParts, PromisesKept
<1>2. \A part \in removed \cup added \cup kept : Harmless(part)
  <2>1. CompareErrors(was, is) = UNION (removed \cup added \cup kept)
    BY Zenon DEF CompareErrors
  <2>2. Harmless(CompareErrors(was, is))
    BY CapabilityParts
  <2> HIDE DEF removed, added, kept
  <2> QED BY <2>1, <2>2, HarmlessUnion
<1> SUFFICES ASSUME NEW code \in DOMAIN was
             PROVE  /\ code \in DOMAIN is
                    /\ is[code].retryable = was[code].retryable
                    /\ was[code].details # Undefined =>
                          /\ is[code].details # Undefined
                          /\ Promises(was[code].details, is[code].details)
  BY <1>1, Zenon DEF ConsumerServed
<1>3. code \in DOMAIN is
  <2> SUFFICES ASSUME code \notin DOMAIN is PROVE FALSE
    OBVIOUS
  <2>1. Change("ERROR_REMOVED", "breaking") \in removed
    OBVIOUS
  <2> HIDE DEF removed, added, kept
  <2> QED BY <1>2, <2>1, HarmlessChange DEF Alarms
<1>4. Harmless(retry(code)) /\ Harmless(details(code))
  <2>1. code \in DOMAIN was \cap DOMAIN is
    BY <1>3
  <2> HIDE DEF retry, details, removed, added
  <2>2. retry(code) \cup details(code) \in kept
    BY <2>1
  <2> HIDE DEF kept
  <2>3. Harmless(retry(code) \cup details(code))
    BY <1>2, <2>2
  <2> QED BY <2>3, HarmlessUnion
<1>5. is[code].retryable = was[code].retryable
  BY <1>4, HarmlessChange DEF Alarms
<1>6. ASSUME was[code].details # Undefined
      PROVE  is[code].details # Undefined /\ Promises(was[code].details, is[code].details)
  <2>1. CASE was[code].details = is[code].details
    BY <1>6, <2>1 DEF Promises
  <2>2. CASE was[code].details # is[code].details
    <3>1. is[code].details # Undefined
      BY <1>4, <1>6, <2>2, HarmlessChange DEF Alarms
    <3>2. details(code) = CompareSchema("output", was[code].details, is[code].details)
      BY <1>6, <2>2, <3>1
    <3>3. was[code].details \in kind /\ is[code].details \in kind
      BY <1>3, <1>6, <3>1
    <3> HIDE DEF details
    <3>4. Harmless(CompareSchema("output", was[code].details, is[code].details))
      BY <1>4, <3>2
    <3> HIDE DEF was, is
    <3> QED BY <3>1, <3>3, <3>4, PromisesKept
  <2> QED BY <2>1, <2>2
<1> QED BY <1>3, <1>5, <1>6

(* diffContractSnapshots, the exit code of `invokta contract diff`: a      *)
(* release that is let through rejects nothing a caller sent that the one  *)
(* before it accepted, asks nobody for more, and gives no call less time.  *)
THEOREM CallersServed == Spec => CallersKeepWorking
<1>1. [Next]_vars => [Served(baseline, baseline', CallerServed)]_vars
  <2> SUFFICES ASSUME Next PROVE Served(baseline, baseline', CallerServed)
    OBVIOUS
  <2>1. <<baseline, baseline'>> \in Compatible
    BY DEF Next, Release
  <2>2. PICK F \in Families :
            /\ baseline \in F /\ baseline' \in F
            /\ Harmless(DiffContractSnapshots(baseline, baseline'))
    BY <2>1, ReleasedMeans
  <2>3. PICK kind \in Kinds :
            \A snapshot \in F : \A id \in DOMAIN snapshot.capabilities :
                LET c == snapshot.capabilities[id]
                IN  /\ c.timeoutMs \in Nat \cup {Undefined}
                    /\ c.inputSchema \in kind
    BY CapabilitiesOfFamily
  <2>4. ASSUME NEW id \in DOMAIN baseline.capabilities
        PROVE  /\ id \in DOMAIN baseline'.capabilities
               /\ CallerServed(baseline.capabilities[id], baseline'.capabilities[id])
    <3>1. /\ id \in DOMAIN baseline'.capabilities
          /\ Harmless(CompareCapability(baseline.capabilities[id], baseline'.capabilities[id]))
      BY <2>2, HarmlessCapabilities
    <3>2. CallerServed(baseline.capabilities[id], baseline'.capabilities[id])
      BY <2>2, <2>3, <3>1, HarmlessServesCallers
    <3> QED BY <3>1, <3>2
  <2> QED BY <2>4, Zenon DEF Served
<1> QED BY <1>1, PTL DEF Spec, CallersKeepWorking

LEMMA ConsumersTransitive ==
    ASSUME NEW a, NEW b, NEW c, ConsumerServed(a, b), ConsumerServed(b, c)
    PROVE  ConsumerServed(a, c)
<1>1. Promises(a.outputSchema, c.outputSchema)
  BY DEF ConsumerServed, Promises
<1>2. ASSUME NEW code \in DOMAIN a.errors
      PROVE  /\ code \in DOMAIN c.errors
             /\ c.errors[code].retryable = a.errors[code].retryable
             /\ a.errors[code].details # Undefined =>
                   /\ c.errors[code].details # Undefined
                   /\ Promises(a.errors[code].details, c.errors[code].details)
  <2>1. /\ code \in DOMAIN b.errors
        /\ b.errors[code].retryable = a.errors[code].retryable
        /\ a.errors[code].details # Undefined =>
              /\ b.errors[code].details # Undefined
              /\ Promises(a.errors[code].details, b.errors[code].details)
    BY Zenon DEF ConsumerServed
  <2>2. /\ code \in DOMAIN c.errors
        /\ c.errors[code].retryable = b.errors[code].retryable
        /\ b.errors[code].details # Undefined =>
              /\ c.errors[code].details # Undefined
              /\ Promises(b.errors[code].details, c.errors[code].details)
    BY <2>1, Zenon DEF ConsumerServed
  <2> QED BY <2>1, <2>2 DEF Promises
<1> QED BY <1>1, <1>2, Zenon DEF ConsumerServed

(* However many releases were let through since, whatever the engine now   *)
(* returns is what the contract a client was written against promised.     *)
THEOREM ConsumersServed == Spec => []ConsumersKeepWorking
<1>1. Init => ConsumersKeepWorking
  <2>1. \A c : ConsumerServed(c, c)
    BY DEF ConsumerServed, Promises
  <2> QED BY <2>1, Zenon DEF Init, ConsumersKeepWorking, Served
<1>2. ConsumersKeepWorking /\ [Next]_vars => ConsumersKeepWorking'
  <2> SUFFICES ASSUME ConsumersKeepWorking, [Next]_vars PROVE ConsumersKeepWorking'
    OBVIOUS
  <2>1. CASE Next
    <3>1. <<baseline, baseline'>> \in Compatible /\ built' = built
      BY <2>1 DEF Next, Release
    <3>2. PICK F \in Families :
              /\ baseline \in F /\ baseline' \in F
              /\ Harmless(DiffContractSnapshots(baseline, baseline'))
      BY <3>1, ReleasedMeans
    <3>3. PICK kind \in Kinds :
              \A snapshot \in F : \A id \in DOMAIN snapshot.capabilities :
                  LET c == snapshot.capabilities[id]
                  IN  /\ c.outputSchema \in kind
                      /\ \A code \in DOMAIN c.errors :
                            c.errors[code].details \in kind \cup {Undefined}
      BY <3>2, CapabilitiesOfFamily
    <3>4. ASSUME NEW id \in DOMAIN built.capabilities
          PROVE  /\ id \in DOMAIN baseline'.capabilities
                 /\ ConsumerServed(built.capabilities[id], baseline'.capabilities[id])
      <4>1. /\ id \in DOMAIN baseline.capabilities
            /\ ConsumerServed(built.capabilities[id], baseline.capabilities[id])
        BY Zenon DEF ConsumersKeepWorking, Served
      <4>2. /\ id \in DOMAIN baseline'.capabilities
            /\ Harmless(CompareCapability(baseline.capabilities[id],
                                          baseline'.capabilities[id]))
        BY <3>2, <4>1, HarmlessCapabilities
      <4>3. ConsumerServed(baseline.capabilities[id], baseline'.capabilities[id])
        BY <3>2, <3>3, <4>1, <4>2, HarmlessServesConsumers
      <4> QED BY <4>1, <4>2, <4>3, ConsumersTransitive
    <3> QED BY <3>1, <3>4, Zenon DEF ConsumersKeepWorking, Served
  <2>2. CASE UNCHANGED vars
    BY <2>2 DEF vars, ConsumersKeepWorking, Served
  <2> QED BY <2>1, <2>2
<1> QED BY <1>1, <1>2, PTL DEF Spec

-----------------------------------------------------------------------------
(* The two spellings of a nullable schema.                                 *)

Respellable(schema) ==
    /\ "type" \in DOMAIN schema
    /\ Invalid \notin {schema["type"], Own(schema, "enum")}
    /\ DOMAIN schema \cap (NullOpaque \cup Documentation) = {}
    /\ Accepts(schema, NullValue)
    /\ schema["type"] # {"null"} /\ Own(schema, "enum") # {NullValue}
    /\ "const" \notin DOMAIN schema

AnyOfNull(schema) == [anyOf |-> <<NullSchema, NonNull(schema)>>]

LEMMA RespelledMeans ==
    ASSUME NEW s
    PROVE  Respelled(s) = IF Respellable(s) THEN AnyOfNull(s) ELSE s
<1>1. CASE Respellable(s)
  <2> DEFINE inner == [k \in DOMAIN s |->
                          CASE k = "type" -> s["type"] \ {"null"}
                            [] k = "enum" -> s["enum"] \ {NullValue}
                            [] OTHER -> s[k]]
  <2>1. inner = NonNull(s)
    BY DEF NonNull
  <2>2. Respelled(s) = [anyOf |-> <<NullSchema, inner>>]
    BY <1>1, Zenon DEF Respelled, Respellable
  <2> QED BY <1>1, <2>1, <2>2 DEF AnyOfNull
<1>2. CASE ~Respellable(s)
  BY <1>2, Zenon DEF Respelled, Respellable
<1> QED BY <1>1, <1>2

LEMMA RespelledViews ==
    ASSUME NEW kind \in Kinds, NEW s \in kind, Respellable(s)
    PROVE  /\ s # AnyOfNull(s) /\ s \notin {Invalid, Never}
           /\ AnyOfNull(s) \notin {Invalid, Never}
           /\ NonNull(s) \in kind
           /\ NullableAnyOf(s) = NoView
           /\ PlainView(s) = View(NonNull(s), Anything, TRUE)
           /\ NullableAnyOf(AnyOfNull(s)) = View(NonNull(s), Without(AnyOfNull(s), {"anyOf"}), TRUE)
<1> DEFINE t == AnyOfNull(s)
           nonNull == NonNull(s)
           branches == <<NullSchema, nonNull>>
           types == Own(s, "type")
           enumeration == Own(s, "enum")
<1>1. /\ types = s["type"] /\ types # Undefined /\ types # Invalid /\ enumeration # Invalid
      /\ DOMAIN s \cap NullOpaque = {}
      /\ "const" \notin DOMAIN s
  <2>1. types = s["type"] /\ types # Undefined
    BY SchemasOfKind, KeywordPresent, Absent DEF Respellable
  <2> QED BY <2>1 DEF Respellable
<1>2. /\ nonNull \in kind
      /\ branches \notin {Undefined, Invalid} /\ [anyOf |-> branches] \notin {Undefined, Invalid}
  BY <1>1, ContractAssumption DEF SchemaAssumption
<1>3. DOMAIN t = {"anyOf"} /\ t["anyOf"] = branches
  BY DEF AnyOfNull
<1>4. s # t /\ s \notin {Invalid, Never} /\ t \notin {Invalid, Never}
  <2>1. DOMAIN Never = {"never"} /\ "type" \in DOMAIN s
    BY DEF Never, Respellable
  <2>2. s # Invalid
    BY SchemasOfKind
  <2>3. t # Invalid
    BY <1>2 DEF AnyOfNull
  <2> HIDE DEF t
  <2> QED BY <1>3, <2>1, <2>2, <2>3
<1>5. NullableAnyOf(s) = NoView
  <2>1. Own(s, "anyOf") = Undefined
    BY <1>1 DEF NullOpaque, Own
  <2> QED BY <2>1 DEF NullableAnyOf
<1>6. "null" \in types /\ (enumeration # Undefined => NullValue \in enumeration)
  <2>1. \A k \in DOMAIN s : Meets(s, k, NullValue)
    BY <1>4, AcceptsMeans DEF Respellable
  <2>2. "null" \in types
    <3>1. \E x \in s["type"] : HasType(NullValue, x)
      BY <1>1, <2>1, MeetsType DEF Respellable
    <3> QED BY <1>1, <3>1 DEF HasType, NullValue
  <2>3. enumeration # Undefined => NullValue \in enumeration
    <3>1. enumeration # Undefined => "enum" \in DOMAIN s /\ enumeration = s["enum"]
      BY Absent
    <3> QED BY <1>1, <2>1, <3>1, MeetsValues
  <2> QED BY <2>2, <2>3
<1>7. /\ types \ {"null"} # {}
      /\ enumeration # Undefined => enumeration \ {NullValue} # {}
  <2>1. types # {"null"} /\ enumeration # {NullValue}
    BY <1>1 DEF Respellable
  <2> HIDE DEF types, enumeration
  <2> QED BY <1>6, <2>1
<1>8. Own(s, "const") # NullValue
  BY <1>1, Absent, ContractAssumption DEF ValueAssumption
<1>9. AcceptsNull(types, enumeration, s) = TRUE
  BY <1>1, <1>6, Zenon DEF AcceptsNull
<1>10. PlainView(s) = View(nonNull, Anything, TRUE)
  <2> DEFINE onlyNull == \/ types # Undefined /\ types \ {"null"} = {}
                         \/ enumeration # Undefined /\ enumeration \ {NullValue} = {}
                         \/ Own(s, "const") = NullValue
             opaque == DOMAIN s \cap NullOpaque # {} \/ Invalid \in {types, enumeration}
  <2>1. ~onlyNull
    BY <1>7, <1>8
  <2>2. ~opaque
    BY <1>1
  <2>3. PlainView(s) = IF opaque THEN NoView
                       ELSE View(IF onlyNull THEN Never ELSE nonNull, Anything,
                                 AcceptsNull(types, enumeration, s))
    BY Zenon DEF PlainView
  <2> HIDE DEF onlyNull, opaque
  <2> QED BY <1>9, <2>1, <2>2, <2>3
<1>11. NullableAnyOf(t) = View(nonNull, Without(t, {"anyOf"}), TRUE)
  <2> DEFINE isNull == {j \in DOMAIN branches : branches[j] = NullSchema}
             other == CHOOSE j \in {1, 2} : j \notin isNull
             siblings == Without(t, {"anyOf"})
  <2>1. Own(t, "anyOf") = branches
    BY <1>3 DEF Own
  <2>2. nonNull # NullSchema
    <3>1. nonNull["type"] = s["type"] \ {"null"}
      BY DEF NonNull, Respellable
    <3>2. NullSchema["type"] = {"null"}
      BY DEF NullSchema
    <3> HIDE DEF nonNull
    <3> QED BY <3>1, <3>2
  <2>3. isNull = {1}
    <3> HIDE DEF nonNull
    <3>1. DOMAIN branches = {1, 2} /\ branches[1] = NullSchema /\ branches[2] = nonNull
      OBVIOUS
    <3> HIDE DEF branches
    <3> QED BY <2>2, <3>1
  <2>4. Cardinality(isNull) = 1
    BY <2>3, FS_Singleton
  <2>5. branches[other] = nonNull
    <3>1. 2 \in {1, 2} /\ 2 \notin isNull
      BY <2>3
    <3>2. other \in {1, 2} /\ other \notin isNull
      BY <3>1
    <3>3. other = 2
      BY <2>3, <3>2
    <3> HIDE DEF nonNull, other
    <3> QED BY <3>3
  <2>6. nonNull # Invalid
    BY <1>2, SchemasOfKind
  <2>7. DOMAIN siblings \subseteq NullableSiblings
    <3>1. DOMAIN siblings = DOMAIN t \ {"anyOf"}
      BY DEF Without
    <3> QED BY <1>3, <3>1
  <2>8. Len(branches) = 2
    <3> HIDE DEF nonNull
    <3> QED OBVIOUS
  <2> HIDE DEF isNull, other, siblings, nonNull, t
  <2>9. NullableAnyOf(t) = IF /\ Len(branches) = 2
                              /\ Cardinality(isNull) = 1
                              /\ branches[other] # Invalid
                              /\ DOMAIN siblings \subseteq NullableSiblings
                           THEN View(branches[other], siblings, TRUE) ELSE NoView
    <3> DEFINE nulls(list) == {j \in DOMAIN list : list[j] = NullSchema}
               rest(list) == CHOOSE j \in {1, 2} : j \notin nulls(list)
               split(list) == IF /\ Len(list) = 2
                                 /\ Cardinality(nulls(list)) = 1
                                 /\ list[rest(list)] # Invalid
                                 /\ DOMAIN Without(t, {"anyOf"}) \subseteq NullableSiblings
                              THEN View(list[rest(list)], Without(t, {"anyOf"}), TRUE) ELSE NoView
               found(list) == CASE list \in {Undefined, Invalid} -> NoView
                                [] list \notin {Undefined, Invalid} -> split(list)
    <3>1. NullableAnyOf(t) = found(Own(t, "anyOf"))
      BY Zenon DEF NullableAnyOf
    <3>2. found(Own(t, "anyOf")) = found(branches)
      <4> HIDE DEF found, branches
      <4> QED BY <2>1
    <3>3. found(branches) = split(branches)
      <4> HIDE DEF split, branches
      <4> QED BY <1>2
    <3> QED BY <3>1, <3>2, <3>3, Zenon DEF isNull, other, siblings
  <2>10. NullableAnyOf(t) = View(nonNull, siblings, TRUE)
    BY <2>4, <2>5, <2>6, <2>7, <2>8, <2>9
  <2> QED BY <2>10 DEF siblings
<1> QED BY <1>2, <1>4, <1>5, <1>10, <1>11

LEMMA NullableSame ==
    ASSUME NEW kind \in Kinds, NEW direction \in Directions, NEW inner \in kind,
           NEW a, NEW b, \A k : Own(a, k) = Undefined, \A k : Own(b, k) = Undefined
    PROVE  CompareNullable(direction, View(inner, a, TRUE)[1], View(inner, b, TRUE)[1]) = {}
<1> DEFINE x == View(inner, a, TRUE)[1]
           y == View(inner, b, TRUE)[1]
<1>1. /\ x.inner = inner /\ x.siblings = a /\ x.nullable = TRUE
      /\ y.inner = inner /\ y.siblings = b /\ y.nullable = TRUE
  BY DEF View
<1>2. Effect(direction, "TYPE_CHANGED",
             EffectOf(x.nullable => y.nullable, y.nullable => x.nullable)) = {}
  <2>1. (x.nullable => y.nullable) = TRUE /\ (y.nullable => x.nullable) = TRUE
    BY <1>1
  <2>2. EffectOf(TRUE, TRUE) = "none"
    BY DEF EffectOf
  <2> HIDE DEF x, y
  <2> QED BY <2>1, <2>2, Zenon DEF Effect
<1>3. CompareDocumentation(a, b) = {} /\ Keeps(a, b, "default")
  BY DEF CompareDocumentation, Keeps
<1>4. Compared(direction, inner, inner) = {}
  <2>1. Compared(direction, inner, inner) = CompareSchema(direction, inner, inner)
    BY Recursion
  <2>2. CompareSchema(direction, inner, inner) = {}
    BY DEF CompareSchema
  <2> QED BY <2>1, <2>2
<1> HIDE DEF x, y
<1>5. CompareNullable(direction, x, y) = {}
  BY <1>1, <1>2, <1>3, <1>4 DEF CompareNullable
<1> QED BY <1>5 DEF x, y

LEMMA RespelledCompared ==
    ASSUME NEW kind \in Kinds, NEW direction \in Directions, NEW s \in kind
    PROVE  /\ CompareSchema(direction, s, Respelled(s)) = {}
           /\ CompareSchema(direction, Respelled(s), s) = {}
<1>1. CASE ~Respellable(s)
  <2>1. Respelled(s) = s
    BY <1>1, RespelledMeans
  <2>2. CompareSchema(direction, s, s) = {}
    BY DEF CompareSchema
  <2> QED BY <2>1, <2>2
<1>2. CASE Respellable(s)
  <2> DEFINE t == AnyOfNull(s)
             inner == NonNull(s)
             siblings == Without(t, {"anyOf"})
             plain == View(inner, Anything, TRUE)
             nullable == View(inner, siblings, TRUE)
  <2>1. Respelled(s) = t
    BY <1>2, RespelledMeans
  <2>2. /\ s # t /\ s \notin {Invalid, Never} /\ t \notin {Invalid, Never}
        /\ inner \in kind
        /\ NullableAnyOf(s) = NoView /\ PlainView(s) = plain /\ NullableAnyOf(t) = nullable
    BY <1>2, RespelledViews
  <2>3. plain # NoView /\ nullable # NoView
    <3>1. \A r : <<r>> # <<>>
      OBVIOUS
    <3> QED BY <3>1 DEF View, NoView
  <2>4. \A k : Own(Anything, k) = Undefined /\ Own(siblings, k) = Undefined
    <3>1. DOMAIN Anything = {}
      BY DEF Anything
    <3>2. DOMAIN siblings = {}
      BY DEF Without, AnyOfNull
    <3> HIDE DEF siblings
    <3> QED BY <3>1, <3>2 DEF Own
  <2>5. /\ CompareNullable(direction, plain[1], nullable[1]) = {}
        /\ CompareNullable(direction, nullable[1], plain[1]) = {}
    <3> HIDE DEF inner, siblings
    <3> QED BY <2>2, <2>4, NullableSame
  <2> HIDE DEF t, inner, plain, nullable
  <2>6. ViewOf(s) = plain /\ ViewOf(t) = nullable
    BY <2>2, <2>3 DEF ViewOf
  <2>7. ComparesViews(s, t) /\ ComparesViews(t, s)
    BY <2>2, <2>3, <2>6 DEF ComparesViews
  <2>8. CompareSchema(direction, s, t) = CompareNullable(direction, plain[1], nullable[1])
    BY <2>2, <2>6, <2>7 DEF CompareSchema
  <2>9. CompareSchema(direction, t, s) = CompareNullable(direction, nullable[1], plain[1])
    BY <2>2, <2>6, <2>7 DEF CompareSchema
  <2> QED BY <2>1, <2>5, <2>8, <2>9
<1> QED BY <1>1, <1>2

LEMMA SameErrors ==
    ASSUME NEW errors
    PROVE  CompareErrors(errors, errors) = {}
<1> DEFINE retry(x) == IF errors[x].retryable = errors[x].retryable THEN {}
                       ELSE Change("ERROR_RETRYABLE_CHANGED", "potentially-breaking")
           details(x) ==
               CASE errors[x].details = errors[x].details -> {}
                 [] errors[x].details # errors[x].details /\ errors[x].details = Undefined ->
                        Change("ERROR_DETAILS_CHANGED", "compatible")
                 [] errors[x].details # errors[x].details /\ errors[x].details = Undefined ->
                        Change("ERROR_DETAILS_CHANGED", "breaking")
                 [] OTHER -> CompareSchema("output", errors[x].details, errors[x].details)
           removed == {Change("ERROR_REMOVED", "breaking") :
                          x \in DOMAIN errors \ DOMAIN errors}
           added == {Change("ERROR_ADDED", "compatible") :
                          x \in DOMAIN errors \ DOMAIN errors}
           kept == {retry(x) \cup details(x) : x \in DOMAIN errors \cap DOMAIN errors}
<1>1. CompareErrors(errors, errors) = UNION (removed \cup added \cup kept)
  BY Zenon DEF CompareErrors
<1>2. removed = {} /\ added = {}
  OBVIOUS
<1>3. \A x : retry(x) = {} /\ details(x) = {}
  OBVIOUS
<1>4. \A part \in kept : part = {}
  <2> HIDE DEF retry, details
  <2> QED BY <1>3
<1> HIDE DEF removed, added, kept
<1> QED BY <1>1, <1>2, <1>4

(* Two capabilities that differ in nothing but equivalent schemas.         *)
LEMMA SameCapability ==
    ASSUME NEW c, NEW d,
           \A f \in Fields \ {"inputSchema", "outputSchema"} : c[f] = d[f],
           CompareSchema("input", c.inputSchema, d.inputSchema) = {},
           CompareSchema("output", c.outputSchema, d.outputSchema) = {}
    PROVE  CompareCapability(c, d) = {}
<1>1. /\ c.description = d.description /\ c.access = d.access /\ c.timeoutMs = d.timeoutMs
      /\ c.annotations = d.annotations /\ c.deprecated = d.deprecated /\ c.errors = d.errors
  BY DEF Fields
<1> DEFINE hints == {IF Keeps(c.annotations, d.annotations, hint) THEN {}
                     ELSE Change("ANNOTATIONS_CHANGED",
                                 IF LostGuarantee(hint, Own(c.annotations, hint),
                                                  Own(d.annotations, hint))
                                 THEN "potentially-breaking" ELSE "compatible") :
                        hint \in DOMAIN Guarantee}
<1>2. \A part \in hints : part = {}
  <2>1. \A hint : Keeps(c.annotations, d.annotations, hint)
    BY <1>1 DEF Keeps
  <2> QED BY <2>1
<1>3. CompareErrors(c.errors, d.errors) = {}
  BY <1>1, SameErrors
<1>4. UNION hints = {}
  <2> HIDE DEF hints
  <2> QED BY <1>2
<1>5. CompareCapability(c, d) =
          (IF c.description = d.description THEN {}
           ELSE Change("METADATA_CHANGED", "compatible"))
          \cup (IF c.access = d.access THEN {}
                ELSE Change("ACCESS_CHANGED", AccessSeverity(c.access, d.access)))
          \cup (IF c.timeoutMs = d.timeoutMs THEN {}
                ELSE Change("TIMEOUT_CHANGED",
                            IF ShorterTimeout(c.timeoutMs, d.timeoutMs)
                            THEN "potentially-breaking" ELSE "compatible"))
          \cup (UNION hints)
          \cup (IF c.deprecated = d.deprecated THEN {}
                ELSE Change("DEPRECATION_CHANGED", "compatible"))
          \cup CompareSchema("input", c.inputSchema, d.inputSchema)
          \cup CompareSchema("output", c.outputSchema, d.outputSchema)
          \cup CompareErrors(c.errors, d.errors)
  BY Zenon DEF CompareCapability
<1> HIDE DEF hints
<1> QED BY <1>1, <1>3, <1>4, <1>5

(* compareSchema of a nullable type and the anyOf that says the same:      *)
(* "both decompose to the same view".  A library that spells nulls the     *)
(* other way changes no contract.                                          *)
THEOREM SpellingFree == Spec => []SpellingIsFree
<1> DEFINE Within == baseline \in UNION Families
<1>1. Init => Within
  BY DEF Init
<1>2. Within /\ [Next]_vars => Within'
  BY DEF Next, Release, vars
<1>3. Within => SpellingIsFree
  <2> SUFFICES ASSUME NEW F \in Families, baseline \in F,
                      NEW id \in DOMAIN baseline.capabilities
               PROVE  LET c == baseline.capabilities[id]
                          d == [c EXCEPT !.inputSchema = Respelled(@),
                                         !.outputSchema = Respelled(@)]
                      IN  CompareCapability(c, d) = {} /\ CompareCapability(d, c) = {}
    BY Zenon DEF SpellingIsFree
  <2> DEFINE c == baseline.capabilities[id]
             d == [c EXCEPT !.inputSchema = Respelled(@), !.outputSchema = Respelled(@)]
  <2>1. PICK kind \in Kinds :
            DOMAIN c = Fields /\ c.inputSchema \in kind /\ c.outputSchema \in kind
    BY CapabilitiesOfFamily
  <2> HIDE DEF c
  <2>2. /\ \A f \in Fields \ {"inputSchema", "outputSchema"} : d[f] = c[f]
        /\ d.inputSchema = Respelled(c.inputSchema)
        /\ d.outputSchema = Respelled(c.outputSchema)
    BY <2>1 DEF Fields
  <2> HIDE DEF d
  <2>3. /\ CompareSchema("input", c.inputSchema, d.inputSchema) = {}
        /\ CompareSchema("input", d.inputSchema, c.inputSchema) = {}
        /\ CompareSchema("output", c.outputSchema, d.outputSchema) = {}
        /\ CompareSchema("output", d.outputSchema, c.outputSchema) = {}
    BY <2>1, <2>2, RespelledCompared DEF Directions
  <2>4. CompareCapability(c, d) = {} /\ CompareCapability(d, c) = {}
    BY <2>2, <2>3, SameCapability
  <2> QED BY <2>4 DEF c, d
<1> HIDE DEF Within
<1> QED BY <1>1, <1>2, <1>3, PTL DEF Spec

=============================================================================
