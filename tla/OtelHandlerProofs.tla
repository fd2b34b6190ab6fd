---------------------------- MODULE OtelHandlerProofs -----------------------------
(***************************************************************************)
(* Proofs about OtelHandler for any number of invocations, request IDs and *)
(* sources and every capacity of the two maps.                             *)
(*                                                                         *)
(* The four properties hold together or not at all: what is known of the   *)
(* invocations that share an ID (Tracks) is what makes their count exact   *)
(* and a span their own, and the maps move it from one to the other        *)
(* without looking at it.  An ID whose count was dropped is exempt from    *)
(* all but the upper bound.                                                *)
(***************************************************************************)
EXTENDS OtelHandler, SequenceTheorems, FiniteSetTheorems, TLAPS

-----------------------------------------------------------------------------
(* Insertion-ordered maps, as sequences of entries with an ID each.        *)

IsMap(map, Entry) ==
    /\ map \in Seq(Entry)
    /\ \A j, k \in DOMAIN map : map[j].id = map[k].id => j = k

(* The entries of one map are those of another without id, or with e.      *)
Lacks(less, map, id) ==
    Of(less, id) = {} /\ \A x : x # id => Of(less, x) = Of(map, x)

Gains(more, map, e) ==
    Of(more, e.id) = {e} /\ \A x : x # e.id => Of(more, x) = Of(map, x)

LEMMA OfProperties ==
    ASSUME NEW Entry, NEW map, IsMap(map, Entry), NEW id
    PROVE  /\ \A e \in Of(map, id) : e \in Entry /\ e.id = id
           /\ \A e \in Of(map, id) : Of(map, id) = {e}
           /\ Of(map, id) = {} <=> Positions(map, id) = {}
           /\ \A k \in Positions(map, id) :
                 k \in 1..Len(map) /\ Of(map, id) = {map[k]} /\ Positions(map, id) = {k}
           /\ \A k \in 1..Len(map) : map[k] \in Of(map, map[k].id)
<1>1. DOMAIN map = 1..Len(map) /\ \A k \in 1..Len(map) : map[k] \in Entry
  BY LenProperties, ElementOfSeq DEF IsMap
<1>2. \A k \in Positions(map, id) : k \in 1..Len(map) /\ map[k].id = id
  BY <1>1 DEF Positions
<1>3. \A j, k \in Positions(map, id) : j = k
  BY <1>1, <1>2 DEF IsMap
<1>4. \A k \in Positions(map, id) : Positions(map, id) = {k}
  BY <1>3
<1>5. \A k \in Positions(map, id) : Of(map, id) = {map[k]}
  BY <1>4 DEF Of
<1>6. \A e \in Of(map, id) : \E k \in Positions(map, id) : e = map[k]
  BY DEF Of
<1>7. \A e \in Of(map, id) : e \in Entry /\ e.id = id
  BY <1>1, <1>2, <1>6
<1>8. \A e \in Of(map, id) : Of(map, id) = {e}
  BY <1>5, <1>6
<1>9. Of(map, id) = {} <=> Positions(map, id) = {}
  BY <1>5, <1>6
<1>10. \A k \in 1..Len(map) : map[k] \in Of(map, map[k].id)
  BY <1>1 DEF Of, Positions
<1> QED BY <1>2, <1>4, <1>5, <1>7, <1>8, <1>9, <1>10

LEMMA EmptyMap == ASSUME NEW Entry PROVE IsMap(<<>>, Entry) /\ \A id : Of(<<>>, id) = {}
BY EmptySeq DEF IsMap, Of, Positions

LEMMA AppendMap ==
    ASSUME NEW Entry, NEW map, IsMap(map, Entry), NEW e \in Entry, Of(map, e.id) = {}
    PROVE  /\ IsMap(Append(map, e), Entry)
           /\ Len(Append(map, e)) = Len(map) + 1
           /\ Gains(Append(map, e), map, e)
<1> DEFINE more == Append(map, e)
<1>1. map \in Seq(Entry) /\ Len(map) \in Nat /\ DOMAIN map = 1..Len(map)
  BY LenProperties DEF IsMap
<1>2. /\ more \in Seq(Entry) /\ Len(more) = Len(map) + 1
      /\ \A k \in 1..Len(map) : more[k] = map[k]
      /\ more[Len(map) + 1] = e
  BY <1>1, AppendProperties
<1>3. DOMAIN more = 1..(Len(map) + 1)
  BY <1>2, LenProperties
<1> HIDE DEF more
<1>4. \A k \in DOMAIN map : map[k].id # e.id
  BY OfProperties, <1>1
<1>5. IsMap(more, Entry)
  BY <1>1, <1>2, <1>3, <1>4 DEF IsMap
<1>6. ASSUME NEW x
      PROVE  Of(more, x) = IF x = e.id THEN {e} ELSE Of(map, x)
  <2>1. CASE x = e.id
    <3>1. Len(map) + 1 \in Positions(more, x)
      BY <2>1, <1>1, <1>2, <1>3 DEF Positions
    <3> QED BY <3>1, <2>1, <1>2, <1>5, OfProperties
  <2>2. CASE x # e.id
    <3>1. Positions(more, x) = Positions(map, x)
      BY <2>2, <1>1, <1>2, <1>3 DEF Positions
    <3>2. \A k \in Positions(map, x) : more[k] = map[k]
      BY <1>1, <1>2 DEF Positions
    <3> QED BY <3>1, <3>2, <2>2 DEF Of
  <2> QED BY <2>1, <2>2
<1>7. Gains(more, map, e)
  BY <1>6 DEF Gains
<1> QED BY <1>2, <1>5, <1>7 DEF more

(* A map that lost the entry at one position.                              *)
Skips(less, map, p) ==
    /\ Len(less) = Len(map) - 1
    /\ \A k \in 1..Len(less) : less[k] = IF k < p THEN map[k] ELSE map[k + 1]

LEMMA LessOne ==
    ASSUME NEW Entry, NEW map, IsMap(map, Entry), NEW p \in 1..Len(map),
           NEW less \in Seq(Entry), Skips(less, map, p)
    PROVE  /\ IsMap(less, Entry)
           /\ Lacks(less, map, map[p].id)
<1>1. /\ Len(map) \in Nat /\ DOMAIN map = 1..Len(map)
      /\ Len(less) \in Nat /\ DOMAIN less = 1..Len(less) /\ Len(less) = Len(map) - 1
  BY LenProperties DEF IsMap, Skips
<1> DEFINE at(k) == IF k < p THEN k ELSE k + 1
<1>2. /\ \A k \in 1..Len(less) : at(k) \in 1..Len(map) /\ at(k) # p /\ less[k] = map[at(k)]
      /\ \A j, k \in 1..Len(less) : at(j) = at(k) => j = k
      /\ \A j \in 1..Len(map) : j # p => \E k \in 1..Len(less) : at(k) = j
  <2>1. \A k \in 1..Len(less) : at(k) \in 1..Len(map) /\ at(k) # p /\ less[k] = map[at(k)]
    BY <1>1 DEF Skips
  <2>2. \A j, k \in 1..Len(less) : at(j) = at(k) => j = k
    BY <1>1
  <2>3. ASSUME NEW j \in 1..Len(map), j # p
        PROVE  \E k \in 1..Len(less) : at(k) = j
    <3>1. CASE j < p
      <4>1. j \in 1..Len(less) /\ at(j) = j
        BY <1>1, <3>1
      <4> QED BY <4>1
    <3>2. CASE j > p
      <4>1. j - 1 \in 1..Len(less) /\ at(j - 1) = j
        BY <1>1, <3>2
      <4> QED BY <4>1
    <3> QED BY <1>1, <2>3, <3>1, <3>2
  <2> QED BY <2>1, <2>2, <2>3
<1> HIDE DEF at
<1>3. IsMap(less, Entry)
  <2>1. ASSUME NEW j \in 1..Len(less), NEW k \in 1..Len(less), less[j].id = less[k].id
        PROVE  j = k
    <3>1. map[at(j)].id = map[at(k)].id /\ at(j) \in 1..Len(map) /\ at(k) \in 1..Len(map)
      BY <2>1, <1>2
    <3>2. at(j) = at(k)
      BY <3>1, <1>1 DEF IsMap
    <3> QED BY <3>2, <1>2
  <2> QED BY <2>1, <1>1 DEF IsMap
<1>4. ASSUME NEW x
      PROVE  Of(less, x) = IF x = map[p].id THEN {} ELSE Of(map, x)
  <2>1. \A k \in Positions(less, x) : at(k) \in Positions(map, x) /\ less[k] = map[at(k)]
    BY <1>1, <1>2 DEF Positions
  <2>2. CASE x = map[p].id
    <3>1. p \in Positions(map, x)
      BY <1>1, <2>2 DEF Positions
    <3>2. Positions(map, x) = {p}
      BY <3>1, OfProperties
    <3>3. Positions(less, x) = {}
      BY <3>2, <2>1, <1>1, <1>2 DEF Positions
    <3> QED BY <3>3, <2>2, <1>3, OfProperties
  <2>3. CASE x # map[p].id
    <3>1. \A j \in Positions(map, x) : \E k \in Positions(less, x) : less[k] = map[j]
      <4> SUFFICES ASSUME NEW j \in Positions(map, x)
                   PROVE  \E k \in Positions(less, x) : less[k] = map[j]
        OBVIOUS
      <4>1. j \in 1..Len(map) /\ map[j].id = x /\ j # p
        BY <1>1, <2>3 DEF Positions
      <4>2. PICK k \in 1..Len(less) : at(k) = j
        BY <4>1, <1>2
      <4>3. less[k] = map[j]
        BY <4>2, <1>2
      <4> QED BY <4>1, <4>2, <4>3, <1>1 DEF Positions
    <3> QED BY <3>1, <2>1, <2>3 DEF Of
  <2> QED BY <2>2, <2>3
<1>5. Lacks(less, map, map[p].id)
  BY <1>4 DEF Lacks
<1> QED BY <1>3, <1>5

LEMMA TailMap ==
    ASSUME NEW Entry, NEW map, IsMap(map, Entry), map # <<>>
    PROVE  /\ Head(map) \in Entry
           /\ Of(map, Head(map).id) = {Head(map)}
           /\ IsMap(Tail(map), Entry)
           /\ Len(Tail(map)) = Len(map) - 1
           /\ Lacks(Tail(map), map, Head(map).id)
<1>1. map \in Seq(Entry) /\ Len(map) \in Nat \ {0} /\ DOMAIN map = 1..Len(map)
  BY LenProperties, EmptySeq DEF IsMap
<1>2. /\ Head(map) \in Entry /\ Tail(map) \in Seq(Entry) /\ Len(Tail(map)) = Len(map) - 1
      /\ \A k \in 1..Len(Tail(map)) : Tail(map)[k] = map[k + 1]
  BY <1>1, HeadTailProperties DEF IsMap
<1>3. Head(map) = map[1]
  BY <1>1
<1>4. \A k \in 1..Len(Tail(map)) : Tail(map)[k] = IF k < 1 THEN map[k] ELSE map[k + 1]
  BY <1>1, <1>2
<1>5. /\ IsMap(Tail(map), Entry)
      /\ Lacks(Tail(map), map, map[1].id)
  <2>1. 1 \in 1..Len(map)
    BY <1>1
  <2> DEFINE less == Tail(map)
  <2>2. less \in Seq(Entry) /\ Skips(less, map, 1)
    BY <1>2, <1>4 DEF Skips
  <2> HIDE DEF less
  <2>3. /\ IsMap(less, Entry)
        /\ Lacks(less, map, map[1].id)
    BY <2>1, <2>2, LessOne
  <2> QED BY <2>3 DEF less
<1>6. Of(map, Head(map).id) = {Head(map)}
  BY <1>1, <1>3, OfProperties
<1> QED BY <1>2, <1>3, <1>5, <1>6

LEMMA WithoutMap ==
    ASSUME NEW Entry, NEW map, IsMap(map, Entry), NEW id
    PROVE  /\ IsMap(Without(map, id), Entry)
           /\ Len(Without(map, id)) <= Len(map)
           /\ Lacks(Without(map, id), map, id)
<1>1. map \in Seq(Entry) /\ Len(map) \in Nat /\ DOMAIN map = 1..Len(map)
  BY LenProperties DEF IsMap
<1>2. CASE Positions(map, id) = {}
  BY <1>1, <1>2, OfProperties DEF Without, Lacks
<1>3. CASE Positions(map, id) # {}
  <2> DEFINE p == CHOOSE k \in Positions(map, id) : TRUE
             less == RemoveAt(map, p)
  <2>1. p \in Positions(map, id)
    BY <1>3
  <2>2. p \in 1..Len(map) /\ map[p].id = id
    BY <2>1, <1>1 DEF Positions
  <2>3. Without(map, id) = less
    BY <1>3 DEF Without
  <2> HIDE DEF p
  <2>4. less \in Seq(Entry) /\ Len(less) = Len(map) - 1
        /\ \A k \in 1..Len(less) : less[k] = IF k < p THEN map[k] ELSE map[k + 1]
    <3> DEFINE front == SubSeq(map, 1, p - 1)
               back == SubSeq(map, p + 1, Len(map))
    <3>1. \A k \in 1..Len(map) : map[k] \in Entry
      BY <1>1, ElementOfSeq
    <3>2. /\ front \in Seq(Entry) /\ Len(front) = p - 1
          /\ \A k \in 1..p - 1 : front[k] = map[k]
      BY <1>1, <2>2, <3>1, SubSeqProperties
    <3>3. /\ back \in Seq(Entry) /\ Len(back) = Len(map) - p
          /\ \A k \in 1..Len(map) - p : back[k] = map[p + k]
      <4>1. \A k \in (p + 1)..Len(map) : map[k] \in Entry
        BY <1>1, <2>2, <3>1
      <4>2. /\ back \in Seq(Entry)
            /\ Len(back) = IF p + 1 <= Len(map) THEN Len(map) - (p + 1) + 1 ELSE 0
            /\ \A k \in 1..Len(map) - (p + 1) + 1 : back[k] = map[(p + 1) + k - 1]
        BY <4>1, <1>1, <2>2, SubSeqProperties
      <4>3. /\ (IF p + 1 <= Len(map) THEN Len(map) - (p + 1) + 1 ELSE 0) = Len(map) - p
            /\ Len(map) - (p + 1) + 1 = Len(map) - p
        <5> DEFINE n == Len(map)
        <5>1. n \in Nat /\ p \in 1..n
          BY <1>1, <2>2
        <5> HIDE DEF n
        <5>2. n - (p + 1) + 1 = n - p
          BY <5>1
        <5>3. (IF p + 1 <= n THEN n - (p + 1) + 1 ELSE 0) = n - p
          BY <5>1
        <5> QED BY <5>2, <5>3 DEF n
      <4>4. \A k \in 1..Len(map) - p : (p + 1) + k - 1 = p + k
        BY <1>1, <2>2
      <4> HIDE DEF back
      <4>5. \A k \in 1..Len(map) - p : back[k] = map[p + k]
        BY <4>2, <4>3, <4>4
      <4> QED BY <4>2, <4>3, <4>5
    <3> HIDE DEF front, back
    <3>4. /\ front \o back \in Seq(Entry) /\ Len(front \o back) = Len(front) + Len(back)
          /\ \A k \in 1..Len(front) + Len(back) :
                (front \o back)[k] = IF k <= Len(front) THEN front[k] ELSE back[k - Len(front)]
      BY <3>2, <3>3, ConcatProperties
    <3>5. less = front \o back
      BY DEF RemoveAt, front, back
    <3> HIDE DEF less
    <3>6. less \in Seq(Entry) /\ Len(less) = Len(map) - 1
      <4>1. (p - 1) + (Len(map) - p) = Len(map) - 1
        BY <1>1, <2>2
      <4>2. less \in Seq(Entry)
        BY <3>4, <3>5
      <4>3. Len(less) = Len(front) + Len(back)
        BY <3>4, <3>5
      <4> QED BY <4>1, <4>2, <4>3, <3>2, <3>3
    <3>7. ASSUME NEW k \in 1..Len(less)
          PROVE  less[k] = IF k < p THEN map[k] ELSE map[k + 1]
      <4>1. CASE k < p
        BY <4>1, <3>2, <3>3, <3>4, <3>5, <3>6, <1>1, <2>2
      <4>2. CASE ~(k < p)
        <5>1. less[k] = back[k - (p - 1)] /\ k - (p - 1) \in 1..Len(map) - p
          BY <4>2, <3>2, <3>3, <3>4, <3>5, <3>6, <1>1, <2>2
        <5>2. back[k - (p - 1)] = map[p + (k - (p - 1))] /\ p + (k - (p - 1)) = k + 1
          BY <5>1, <3>3, <3>6, <1>1, <2>2
        <5> QED BY <4>2, <5>1, <5>2
      <4> QED BY <4>1, <4>2
    <3> QED BY <3>6, <3>7
  <2> HIDE DEF less
  <2>5. Skips(less, map, p)
    BY <2>4 DEF Skips
  <2>6. /\ IsMap(less, Entry)
        /\ Lacks(less, map, map[p].id)
    BY <2>2, <2>4, <2>5, LessOne
  <2> QED BY <2>2, <2>3, <2>4, <2>6, <1>1
<1> QED BY <1>2, <1>3

(* Map.set of an ID that has an entry keeps the entry's place.             *)
LEMMA SetMap ==
    ASSUME NEW Entry, NEW map, IsMap(map, Entry), NEW k \in 1..Len(map),
           NEW e \in Entry, e.id = map[k].id
    PROVE  /\ IsMap([map EXCEPT ![k] = e], Entry)
           /\ Len([map EXCEPT ![k] = e]) = Len(map)
           /\ Gains([map EXCEPT ![k] = e], map, e)
<1> DEFINE new == [map EXCEPT ![k] = e]
<1>1. map \in Seq(Entry) /\ Len(map) \in Nat /\ DOMAIN map = 1..Len(map)
  BY LenProperties DEF IsMap
<1>2. new \in Seq(Entry) /\ Len(new) = Len(map)
  BY <1>1, ExceptSeq
<1>3. DOMAIN new = 1..Len(map) /\ \A j \in 1..Len(map) : new[j] = IF j = k THEN e ELSE map[j]
  BY <1>1
<1> HIDE DEF new
<1>4. \A j \in 1..Len(map) : new[j].id = map[j].id
  BY <1>3
<1>5. IsMap(new, Entry)
  BY <1>1, <1>2, <1>3, <1>4 DEF IsMap
<1>6. ASSUME NEW x
      PROVE  Of(new, x) = IF x = e.id THEN {e} ELSE Of(map, x)
  <2>1. Positions(new, x) = Positions(map, x)
    BY <1>1, <1>3, <1>4 DEF Positions
  <2>2. CASE x = e.id
    <3>1. k \in Positions(new, x)
      BY <2>1, <2>2, <1>1 DEF Positions
    <3>2. Of(new, x) = {new[k]}
      BY <3>1, <1>5, OfProperties
    <3> QED BY <3>2, <2>2, <1>3
  <2>3. CASE x # e.id
    <3>1. \A j \in Positions(map, x) : j \in 1..Len(map) /\ j # k
      BY <2>3, <1>1 DEF Positions
    <3>2. \A j \in Positions(map, x) : new[j] = map[j]
      BY <3>1, <1>3
    <3> QED BY <2>1, <2>3, <3>2 DEF Of
  <2> QED BY <2>2, <2>3
<1>7. Gains(new, map, e)
  BY <1>6 DEF Gains
<1> QED BY <1>2, <1>5, <1>7 DEF new

-----------------------------------------------------------------------------
(* The books of the handler: both maps, the spans, the IDs dropped.        *)

AllBooks ==
    [pending : Seq(Pending), detached : Seq(Detached),
     span : [Invocations -> {"none", "open", "evicted"} \cup Invocations],
     dropped : SUBSET RequestIds]

Bounded(b) ==
    /\ IsMap(b.pending, Pending) /\ Len(b.pending) <= maxPendingSpans
    /\ IsMap(b.detached, Detached) /\ Len(b.detached) <= maxPendingSpans

Exclusive(b) == \A x \in RequestIds : Of(b.pending, x) = {} \/ Of(b.detached, x) = {}

OpenIsNamed(b) ==
    \A i \in Invocations :
        b.span[i] = "open" <=> \E x \in RequestIds : \E e \in Of(b.pending, x) : e.span = i

NamedOnce(b) ==
    \A x, y \in RequestIds : \A e \in Of(b.pending, x), f \in Of(b.pending, y) :
        e.span = f.span => x = y

(* The maps and the spans do not contradict one another.                   *)
Shape(b) ==
    b \in AllBooks /\ Bounded(b) /\ Exclusive(b) /\ OpenIsNamed(b) /\ NamedOnce(b)

(* What b knows of the invocations S that share the ID x, given the source *)
(* and the ID that every invocation was started with.                      *)
Counts(b, x, S) ==
    /\ \A e \in Of(b.pending, x) \cup Of(b.detached, x) :
          /\ e.outstanding <= Cardinality(S)
          /\ x \notin b.dropped => e.outstanding = Cardinality(S)
    /\ Of(b.pending, x) \cup Of(b.detached, x) = {} /\ x \notin b.dropped => S = {}

Attributes(b, x, S, from, ids) ==
    /\ \A e \in Of(b.pending, x) \cup Of(b.detached, x) :
          x \notin b.dropped /\ e.source # "unknown" => \A i \in S : from[i] = e.source
    /\ \A e \in Of(b.pending, x) :
          /\ ids[e.span] = x
          /\ ~e.ambiguous /\ x \notin b.dropped => S = {e.span}

Tracks(b, x, S, from, ids) == Counts(b, x, S) /\ Attributes(b, x, S, from, ids)

(* From b to d, what is known of x stays, moves to the second map, or is   *)
(* dropped.                                                                *)
Stays(b, d, x) ==
    /\ Of(d.pending, x) = Of(b.pending, x) /\ Of(d.detached, x) = Of(b.detached, x)
    /\ x \in d.dropped <=> x \in b.dropped

Moved(e) == [id |-> e.id, source |-> e.source, outstanding |-> e.outstanding]

Carries(b, d, x) ==
    \/ Stays(b, d, x)
    \/ /\ Of(d.pending, x) = {}
       /\ \E e \in Of(b.pending, x) : Of(d.detached, x) = {Moved(e)}
       /\ x \in d.dropped <=> x \in b.dropped
    \/ /\ Of(d.pending, x) = {} /\ Of(d.detached, x) = {} /\ x \in d.dropped
       /\ Of(b.pending, x) \cup Of(b.detached, x) # {}

(* No count is found again, and a span only ever ends early.               *)
Forgets(b, d) ==
    /\ b.dropped \subseteq d.dropped
    /\ \A i \in Invocations : d.span[i] = b.span[i] \/ d.span[i] = "evicted"

LEMMA CarriesTracks ==
    ASSUME NEW b, NEW d, NEW x, NEW S, NEW from, NEW ids,
           Tracks(b, x, S, from, ids), Carries(b, d, x)
    PROVE  Tracks(d, x, S, from, ids)
<1>1. CASE Stays(b, d, x)
  BY <1>1 DEF Tracks, Counts, Attributes, Stays
<1>2. CASE /\ Of(d.pending, x) = {}
           /\ \E e \in Of(b.pending, x) : Of(d.detached, x) = {Moved(e)}
           /\ x \in d.dropped <=> x \in b.dropped
  <2>1. PICK e \in Of(b.pending, x) : Of(d.detached, x) = {Moved(e)}
    BY <1>2
  <2>2. Moved(e).source = e.source /\ Moved(e).outstanding = e.outstanding
    BY DEF Moved
  <2> QED BY <1>2, <2>1, <2>2 DEF Tracks, Counts, Attributes
<1>3. CASE Of(d.pending, x) = {} /\ Of(d.detached, x) = {} /\ x \in d.dropped
  BY <1>3 DEF Tracks, Counts, Attributes
<1> QED BY <1>1, <1>2, <1>3 DEF Carries

LEMMA CarriesFromSame ==
    ASSUME NEW b, NEW c, NEW d, NEW x, Stays(b, c, x), Carries(c, d, x)
    PROVE  Carries(b, d, x)
BY DEF Stays, Carries

(* An ID without an entry is not touched by what moves and drops entries.  *)
LEMMA CarriesNothing ==
    ASSUME NEW b, NEW d, NEW x, Carries(b, d, x),
           Of(b.pending, x) = {}, Of(b.detached, x) = {}
    PROVE  Stays(b, d, x)
BY DEF Carries, Stays

(* d is b with a count for id in the second map.                           *)
Detaches(b, d, id, from, n) ==
    /\ d.pending = b.pending /\ d.span = b.span
    /\ Of(d.detached, id) =
          IF n = 0 THEN {} ELSE {[id |-> id, source |-> from, outstanding |-> n]}
    /\ id \in d.dropped <=> id \in b.dropped

LEMMA DetachKeeps ==
    ASSUME NEW b, Shape(b), NEW id \in RequestIds, NEW from \in Source, NEW n \in Nat,
           Of(b.pending, id) = {}, Of(b.detached, id) = {}
    PROVE  LET d == Detach(b, id, from, n)
           IN  /\ Shape(d) /\ Forgets(b, d) /\ Detaches(b, d, id, from, n)
               /\ \A x \in RequestIds \ {id} : Carries(b, d, x)
<1> DEFINE d == Detach(b, id, from, n)
<1>1. CASE n = 0
  <2>1. d = b
    BY <1>1 DEF Detach
  <2> QED BY <2>1, <1>1 DEF Forgets, Carries, Stays, Detaches
<1>2. CASE n # 0
  <2> DEFINE full  == Len(b.detached) >= maxPendingSpans
             rest  == IF full THEN Tail(b.detached) ELSE b.detached
             entry == [id |-> id, source |-> from, outstanding |-> n]
  <2>1. b \in AllBooks /\ IsMap(b.detached, Detached) /\ Len(b.detached) <= maxPendingSpans
    BY DEF Shape, Bounded
  <2>2. Len(b.detached) \in Nat /\ maxPendingSpans \in Nat \ {0}
    BY <2>1, LenProperties, HandlerAssumption DEF IsMap
  <2>3. entry \in Detached /\ entry.id = id
    BY <1>2 DEF Detached
  <2>4. d = [b EXCEPT !.detached = Append(rest, entry),
                      !.dropped = IF full THEN @ \cup {Head(b.detached).id} ELSE @]
    BY <1>2 DEF Detach
  <2>5. /\ d.pending = b.pending /\ d.span = b.span /\ d.detached = Append(rest, entry)
        /\ d.dropped = IF full THEN b.dropped \cup {Head(b.detached).id} ELSE b.dropped
    BY <2>1, <2>4 DEF AllBooks
  <2>6. full => /\ Head(b.detached) \in Detached
                /\ Of(b.detached, Head(b.detached).id) = {Head(b.detached)}
                /\ IsMap(Tail(b.detached), Detached)
                /\ Len(Tail(b.detached)) = Len(b.detached) - 1
                /\ Lacks(Tail(b.detached), b.detached, Head(b.detached).id)
    <3>1. full => b.detached # <<>>
      BY <2>2, EmptySeq
    <3> QED BY <3>1, <2>1, TailMap
  <2>7. /\ IsMap(rest, Detached) /\ Len(rest) < maxPendingSpans /\ Len(rest) \in Nat
        /\ Of(rest, id) = {}
    BY <2>1, <2>2, <2>6 DEF Lacks
  <2>8. /\ IsMap(Append(rest, entry), Detached)
        /\ Len(Append(rest, entry)) = Len(rest) + 1
        /\ Gains(Append(rest, entry), rest, entry)
    <3> HIDE DEF rest, entry
    <3> QED BY <2>3, <2>7, AppendMap
  <2>9. full => Head(b.detached).id \in RequestIds \ {id}
    BY <2>6 DEF Detached
  <2>10. ASSUME NEW x \in RequestIds \ {id}
         PROVE  /\ Of(d.detached, x) = IF full /\ x = Head(b.detached).id THEN {}
                                       ELSE Of(b.detached, x)
                /\ Carries(b, d, x)
    <3>1. Of(d.detached, x) = IF full /\ x = Head(b.detached).id THEN {} ELSE Of(b.detached, x)
      BY <2>5, <2>6, <2>8 DEF Lacks, Gains
    <3>2. CASE full /\ x = Head(b.detached).id
      <4>1. Of(b.detached, x) # {}
        BY <3>2, <2>6
      <4>2. Of(b.pending, x) = {}
        BY <4>1 DEF Shape, Exclusive
      <4> QED BY <3>1, <3>2, <4>1, <4>2, <2>5 DEF Carries
    <3>3. CASE ~(full /\ x = Head(b.detached).id)
      BY <3>1, <3>3, <2>5 DEF Carries, Stays
    <3> QED BY <3>1, <3>2, <3>3
  <2>11. d \in AllBooks
    <3>1. d.detached \in Seq(Detached)
      BY <2>5, <2>8 DEF IsMap
    <3>2. d.dropped \subseteq RequestIds
      BY <2>1, <2>5, <2>9 DEF AllBooks
    <3>3. d = [pending |-> b.pending, detached |-> d.detached, span |-> b.span,
               dropped |-> d.dropped]
      BY <2>1, <2>4 DEF AllBooks
    <3> QED BY <2>1, <3>1, <3>2, <3>3 DEF AllBooks
  <2>12. Bounded(d)
    BY <2>2, <2>5, <2>7, <2>8 DEF Shape, Bounded
  <2>13. Exclusive(d)
    BY <2>5, <2>10 DEF Shape, Exclusive
  <2>14. OpenIsNamed(d) /\ NamedOnce(d)
    BY <2>5 DEF Shape, OpenIsNamed, NamedOnce
  <2>15. Forgets(b, d)
    BY <2>5 DEF Forgets
  <2>16. Of(d.detached, id) = {entry}
    BY <2>3, <2>5, <2>8 DEF Gains
  <2>17. Detaches(b, d, id, from, n)
    BY <1>2, <2>5, <2>9, <2>16 DEF Detaches
  <2> HIDE DEF d
  <2> QED BY <2>10, <2>11, <2>12, <2>13, <2>14, <2>15, <2>17 DEF Shape, d
<1> QED BY <1>1, <1>2

(* c is b without the entries of id, whose span, if it was open, is not.   *)
Clears(b, c, id) ==
    /\ c \in AllBooks /\ Bounded(c) /\ c.dropped = b.dropped
    /\ Lacks(c.pending, b.pending, id)
    /\ \A x : Of(c.detached, x) = Of(b.detached, x) \/ (x = id /\ Of(c.detached, x) = {})
    /\ \A i \in Invocations :
          IF \E e \in Of(b.pending, id) : e.span = i
          THEN c.span[i] # "open" ELSE c.span[i] = b.span[i]

LEMMA ClearsKeeps ==
    ASSUME NEW b, Shape(b), NEW id \in RequestIds, NEW c, Clears(b, c, id)
    PROVE  /\ Shape(c)
           /\ Of(c.pending, id) = {}
           /\ \A x \in RequestIds \ {id} : Stays(b, c, x)
<1>1. Exclusive(c)
  BY DEF Shape, Exclusive, Clears, Lacks
<1>2. NamedOnce(c)
  BY DEF Shape, NamedOnce, Clears, Lacks
<1>3. OpenIsNamed(c)
  <2> SUFFICES ASSUME NEW i \in Invocations
               PROVE  c.span[i] = "open" <=>
                        \E x \in RequestIds : \E e \in Of(c.pending, x) : e.span = i
    BY DEF OpenIsNamed
  <2>1. CASE \E e \in Of(b.pending, id) : e.span = i
    <3>1. \A x \in RequestIds : \A e \in Of(b.pending, x) : e.span = i => x = id
      BY <2>1 DEF Shape, NamedOnce
    <3>2. \A x \in RequestIds : \A e \in Of(c.pending, x) : e.span # i
      BY <3>1 DEF Clears, Lacks
    <3> QED BY <2>1, <3>2 DEF Clears
  <2>2. CASE ~\E e \in Of(b.pending, id) : e.span = i
    <3>1. (\E x \in RequestIds : \E e \in Of(c.pending, x) : e.span = i) <=>
          (\E x \in RequestIds : \E e \in Of(b.pending, x) : e.span = i)
      BY <2>2 DEF Clears, Lacks
    <3>2. c.span[i] = b.span[i]
      BY <2>2 DEF Clears
    <3> QED BY <3>1, <3>2 DEF Shape, OpenIsNamed
  <2> QED BY <2>1, <2>2
<1>4. \A x \in RequestIds \ {id} : Stays(b, c, x)
  BY DEF Clears, Stays, Lacks
<1> QED BY <1>1, <1>2, <1>3, <1>4 DEF Shape, Clears, Lacks

(* Ending the span of the only entry that has an ID.                       *)
LEMMA SpanOfEntry ==
    ASSUME NEW b, Shape(b), NEW id \in RequestIds, NEW e \in Of(b.pending, id)
    PROVE  /\ Of(b.pending, id) = {e} /\ e.id = id
           /\ e.span \in Invocations /\ e.source \in Source
           /\ e.outstanding \in Nat \ {0} /\ e.ambiguous \in BOOLEAN
           /\ e \in Pending
<1>1. e \in Pending /\ e.id = id /\ Of(b.pending, id) = {e}
  BY OfProperties DEF Shape, Bounded
<1> QED BY <1>1 DEF Pending

LEMMA EntryOfDetached ==
    ASSUME NEW b, Shape(b), NEW id \in RequestIds, NEW e \in Of(b.detached, id)
    PROVE  /\ Of(b.detached, id) = {e} /\ e.id = id
           /\ e.source \in Source /\ e.outstanding \in Nat \ {0}
           /\ e \in Detached
<1>1. e \in Detached /\ e.id = id /\ Of(b.detached, id) = {e}
  BY OfProperties DEF Shape, Bounded
<1> QED BY <1>1 DEF Detached

LEMMA EndEarlyFields ==
    ASSUME NEW b \in AllBooks, NEW i \in Invocations
    PROVE  /\ EndEarly(b, i) \in AllBooks
           /\ EndEarly(b, i).pending = b.pending /\ EndEarly(b, i).detached = b.detached
           /\ EndEarly(b, i).dropped = b.dropped
           /\ \A j \in Invocations :
                 EndEarly(b, i).span[j] = IF j = i THEN "evicted" ELSE b.span[j]
<1>1. EndEarly(b, i) = [pending |-> b.pending, detached |-> b.detached,
                        span |-> [b.span EXCEPT ![i] = "evicted"], dropped |-> b.dropped]
  BY DEF EndEarly, AllBooks
<1> QED BY <1>1 DEF AllBooks

LEMMA ForgetKeeps ==
    ASSUME NEW b, Shape(b), NEW id \in RequestIds
    PROVE  LET f == Forget(b, id)
           IN  /\ Shape(f) /\ Forgets(b, f)
               /\ Of(f.pending, id) = {} /\ Of(f.detached, id) = {}
               /\ f.dropped = b.dropped
               /\ \A x \in RequestIds \ {id} : Stays(b, f, x)
<1> DEFINE closed == [b EXCEPT !.pending = Without(@, id), !.detached = Without(@, id)]
           f == Forget(b, id)
<1>1. /\ b \in AllBooks /\ Bounded(b)
      /\ IsMap(b.pending, Pending) /\ IsMap(b.detached, Detached)
  BY DEF Shape, Bounded
<1>2. /\ IsMap(Without(b.pending, id), Pending)
      /\ Len(Without(b.pending, id)) <= Len(b.pending)
      /\ Lacks(Without(b.pending, id), b.pending, id)
  <2> HIDE DEF closed, f
  <2>1. IsMap(Without(b.pending, id), Pending)
    BY <1>1, WithoutMap
  <2>2. Len(Without(b.pending, id)) <= Len(b.pending)
    BY <1>1, WithoutMap
  <2>3. Lacks(Without(b.pending, id), b.pending, id)
    BY <1>1, WithoutMap, Zenon
  <2> QED BY <2>1, <2>2, <2>3
<1>3. /\ IsMap(Without(b.detached, id), Detached)
      /\ Len(Without(b.detached, id)) <= Len(b.detached)
      /\ Lacks(Without(b.detached, id), b.detached, id)
  <2> HIDE DEF closed, f
  <2>1. IsMap(Without(b.detached, id), Detached)
    BY <1>1, WithoutMap
  <2>2. Len(Without(b.detached, id)) <= Len(b.detached)
    BY <1>1, WithoutMap
  <2>3. Lacks(Without(b.detached, id), b.detached, id)
    BY <1>1, WithoutMap, Zenon
  <2> QED BY <2>1, <2>2, <2>3
<1>4. /\ Len(b.pending) \in Nat /\ Len(b.detached) \in Nat /\ maxPendingSpans \in Nat
      /\ Len(Without(b.pending, id)) \in Nat /\ Len(Without(b.detached, id)) \in Nat
  BY <1>1, <1>2, <1>3, LenProperties, HandlerAssumption DEF Bounded, IsMap
<1>5. closed = [pending |-> Without(b.pending, id), detached |-> Without(b.detached, id),
                span |-> b.span, dropped |-> b.dropped]
  <2> DEFINE p == Without(b.pending, id)
             q == Without(b.detached, id)
  <2>1. closed = [b EXCEPT !.pending = p, !.detached = q]
    BY <1>1 DEF AllBooks
  <2> HIDE DEF p, q, closed
  <2>2. closed = [pending |-> p, detached |-> q, span |-> b.span, dropped |-> b.dropped]
    BY <1>1, <2>1 DEF AllBooks
  <2> QED BY <2>2 DEF p, q
<1>6. closed \in AllBooks
  BY <1>1, <1>2, <1>3, <1>5 DEF AllBooks, IsMap
<1>7. Bounded(closed)
  BY <1>1, <1>2, <1>3, <1>4, <1>5 DEF Bounded
<1>8. /\ Lacks(closed.pending, b.pending, id)
      /\ Lacks(closed.detached, b.detached, id)
      /\ closed.span = b.span /\ closed.dropped = b.dropped
  BY <1>2, <1>3, <1>5
<1>9. CASE Of(b.pending, id) = {}
  <2>1. f = closed
    BY <1>9 DEF Forget
  <2> HIDE DEF closed
  <2>2. Clears(b, closed, id)
    <3>1. \A i \in Invocations : (~\E e \in Of(b.pending, id) : e.span = i) /\ closed.span[i] = b.span[i]
      BY <1>8, <1>9
    <3>2. \A x : Of(closed.detached, x) = Of(b.detached, x) \/ (x = id /\ Of(closed.detached, x) = {})
      BY <1>8 DEF Lacks
    <3> QED BY <1>6, <1>7, <1>8, <3>1, <3>2 DEF Clears
  <2> HIDE DEF closed, f
  <2>3. Forgets(b, f)
    BY <1>8, <2>1 DEF Forgets
  <2> QED BY <2>1, <2>2, <2>3, <1>8, ClearsKeeps DEF f, Lacks
<1>10. ASSUME NEW e \in Of(b.pending, id)
       PROVE  /\ Shape(f) /\ Forgets(b, f)
              /\ Of(f.pending, id) = {} /\ Of(f.detached, id) = {}
              /\ f.dropped = b.dropped
              /\ \A x \in RequestIds \ {id} : Stays(b, f, x)
  <2>1. Of(b.pending, id) = {e} /\ e.span \in Invocations
    BY SpanOfEntry
  <2>2. f = EndEarly(closed, e.span)
    BY <2>1 DEF Forget
  <2> HIDE DEF closed, f
  <2>3. /\ f \in AllBooks
        /\ f.pending = closed.pending /\ f.detached = closed.detached
        /\ f.dropped = closed.dropped
        /\ \A j \in Invocations : f.span[j] = IF j = e.span THEN "evicted" ELSE b.span[j]
    BY <1>6, <1>8, <2>1, <2>2, EndEarlyFields
  <2>4. Bounded(f)
    BY <1>7, <2>3 DEF Bounded
  <2>5. Clears(b, f, id)
    <3>1. \A i \in Invocations : IF \E x \in Of(b.pending, id) : x.span = i
                                 THEN f.span[i] # "open" ELSE f.span[i] = b.span[i]
      BY <2>1, <2>3
    <3>2. \A x : Of(f.detached, x) = Of(b.detached, x) \/ (x = id /\ Of(f.detached, x) = {})
      BY <2>3, <1>8 DEF Lacks
    <3>3. Lacks(f.pending, b.pending, id)
      BY <2>3, <1>8
    <3> QED BY <2>3, <2>4, <1>8, <3>1, <3>2, <3>3 DEF Clears
  <2>6. Forgets(b, f)
    BY <1>8, <2>3 DEF Forgets
  <2> QED BY <2>3, <2>5, <2>6, <1>8, ClearsKeeps DEF Lacks
<1> QED BY <1>9, <1>10

LEMMA MakeRoomKeeps ==
    ASSUME NEW b, Shape(b)
    PROVE  LET r == MakeRoom(b)
           IN  /\ Shape(r) /\ Forgets(b, r)
               /\ Len(r.pending) < maxPendingSpans
               /\ \A x \in RequestIds : Carries(b, r, x)
<1>1. /\ b \in AllBooks /\ IsMap(b.pending, Pending) /\ Len(b.pending) <= maxPendingSpans
      /\ IsMap(b.detached, Detached) /\ Len(b.detached) <= maxPendingSpans
  BY DEF Shape, Bounded
<1>2. Len(b.pending) \in Nat /\ maxPendingSpans \in Nat \ {0}
  BY <1>1, LenProperties, HandlerAssumption DEF IsMap
<1>3. CASE Len(b.pending) < maxPendingSpans
  <2>1. MakeRoom(b) = b
    BY <1>3 DEF MakeRoom
  <2> QED BY <1>3, <2>1 DEF Forgets, Carries, Stays
<1>4. CASE ~(Len(b.pending) < maxPendingSpans)
  <2> DEFINE oldest == Head(b.pending)
             shorter == [b EXCEPT !.pending = Tail(@)]
             c == EndEarly(shorter, oldest.span)
             r == Detach(c, oldest.id, oldest.source, oldest.outstanding)
  <2>1. b.pending # <<>>
    BY <1>2, <1>4, EmptySeq
  <2>2. /\ oldest \in Pending
        /\ Of(b.pending, oldest.id) = {oldest}
        /\ IsMap(Tail(b.pending), Pending)
        /\ Len(Tail(b.pending)) = Len(b.pending) - 1
        /\ Lacks(Tail(b.pending), b.pending, oldest.id)
    BY <1>1, <2>1, TailMap
  <2>3. MakeRoom(b) = r
    BY <1>4 DEF MakeRoom
  <2>4. /\ oldest.id \in RequestIds /\ oldest.span \in Invocations
        /\ oldest.source \in Source /\ oldest.outstanding \in Nat \ {0}
    BY <2>2 DEF Pending
  <2>5. shorter = [pending |-> Tail(b.pending), detached |-> b.detached,
                   span |-> b.span, dropped |-> b.dropped]
    <3> DEFINE p == Tail(b.pending)
    <3>1. shorter = [b EXCEPT !.pending = p]
      BY <1>1 DEF AllBooks
    <3> HIDE DEF p, shorter
    <3>2. shorter = [pending |-> p, detached |-> b.detached, span |-> b.span,
                     dropped |-> b.dropped]
      BY <1>1, <3>1 DEF AllBooks
    <3> QED BY <3>2 DEF p
  <2>6. shorter \in AllBooks
    BY <1>1, <2>2, <2>5 DEF AllBooks, IsMap
  <2>7. /\ c \in AllBooks
        /\ c.pending = Tail(b.pending) /\ c.detached = b.detached /\ c.dropped = b.dropped
        /\ \A j \in Invocations : c.span[j] = IF j = oldest.span THEN "evicted" ELSE b.span[j]
    <3>1. /\ shorter.pending = Tail(b.pending) /\ shorter.detached = b.detached
          /\ shorter.span = b.span /\ shorter.dropped = b.dropped
      BY <2>5
    <3> HIDE DEF oldest, shorter
    <3> QED BY <3>1, <2>4, <2>6, EndEarlyFields
  <2> HIDE DEF oldest, shorter, c
  <2>8. Len(c.pending) < maxPendingSpans /\ Len(c.pending) \in Nat
    BY <1>1, <1>2, <2>2, <2>7
  <2>9. Clears(b, c, oldest.id)
    <3>1. Bounded(c)
      BY <1>1, <1>2, <2>2, <2>7, <2>8 DEF Bounded
    <3>2. \A i \in Invocations : IF \E x \in Of(b.pending, oldest.id) : x.span = i
                                 THEN c.span[i] # "open" ELSE c.span[i] = b.span[i]
      BY <2>2, <2>7
    <3>3. Lacks(c.pending, b.pending, oldest.id)
      BY <2>2, <2>7
    <3> QED BY <3>1, <3>2, <3>3, <2>7 DEF Clears
  <2>10. /\ Shape(c) /\ Of(c.pending, oldest.id) = {}
         /\ \A x \in RequestIds \ {oldest.id} : Stays(b, c, x)
    BY <2>4, <2>9, ClearsKeeps
  <2>11. Of(c.detached, oldest.id) = {}
    BY <2>2, <2>4, <2>7 DEF Shape, Exclusive
  <2>12. /\ Shape(r) /\ Forgets(c, r)
         /\ Detaches(c, r, oldest.id, oldest.source, oldest.outstanding)
         /\ \A x \in RequestIds \ {oldest.id} : Carries(c, r, x)
    BY <2>4, <2>10, <2>11, DetachKeeps
  <2> HIDE DEF r
  <2>13. Carries(b, r, oldest.id)
    <3>1. Of(r.pending, oldest.id) = {}
      BY <2>10, <2>12 DEF Detaches
    <3>2. oldest \in Of(b.pending, oldest.id) /\ Of(r.detached, oldest.id) = {Moved(oldest)}
      BY <2>2, <2>4, <2>12 DEF Moved, Detaches
    <3> QED BY <3>1, <3>2, <2>7, <2>12 DEF Carries, Detaches
  <2>14. \A x \in RequestIds \ {oldest.id} : Carries(b, r, x)
    BY <2>10, <2>12, CarriesFromSame
  <2>15. Forgets(b, r)
    BY <2>7, <2>12 DEF Forgets
  <2>16. Len(r.pending) < maxPendingSpans
    BY <2>8, <2>12 DEF Detaches
  <2> QED BY <2>3, <2>12, <2>13, <2>14, <2>15, <2>16
<1> QED BY <1>3, <1>4

(* d is b with an open span, the entry e naming it.                        *)
Opens(b, d, e) ==
    /\ d \in AllBooks
    /\ d.pending = Append(b.pending, e) /\ d.detached = b.detached /\ d.dropped = b.dropped
    /\ \A j \in Invocations : d.span[j] = IF j = e.span THEN "open" ELSE b.span[j]

LEMMA OpensKeeps ==
    ASSUME NEW b, Shape(b), Len(b.pending) < maxPendingSpans,
           NEW e \in Pending, Of(b.pending, e.id) = {}, Of(b.detached, e.id) = {},
           b.span[e.span] # "open", NEW d, Opens(b, d, e)
    PROVE  /\ Shape(d)
           /\ Of(d.pending, e.id) = {e}
           /\ \A x \in RequestIds \ {e.id} : Stays(b, d, x)
<1>1. /\ b \in AllBooks /\ IsMap(b.pending, Pending)
      /\ IsMap(b.detached, Detached) /\ Len(b.detached) <= maxPendingSpans
  BY DEF Shape, Bounded
<1>2. Len(b.pending) \in Nat /\ maxPendingSpans \in Nat
  BY <1>1, LenProperties, HandlerAssumption DEF IsMap
<1>3. /\ IsMap(d.pending, Pending) /\ Len(d.pending) = Len(b.pending) + 1
      /\ Gains(d.pending, b.pending, e)
  BY <1>1, AppendMap DEF Opens
<1>4. Bounded(d)
  BY <1>1, <1>2, <1>3 DEF Bounded, Opens
<1>5. e.id \in RequestIds /\ e.span \in Invocations
  BY DEF Pending
<1>6. \A x \in RequestIds \ {e.id} : Of(d.pending, x) = Of(b.pending, x)
  BY <1>3 DEF Gains
<1>7. Of(d.pending, e.id) = {e}
  BY <1>3 DEF Gains
<1>8. Exclusive(d)
  BY <1>6, <1>7 DEF Shape, Exclusive, Opens
<1>9. \A x \in RequestIds : \A f \in Of(b.pending, x) : f.span # e.span
  BY <1>5 DEF Shape, OpenIsNamed
<1>10. NamedOnce(d)
  <2> SUFFICES ASSUME NEW x \in RequestIds, NEW y \in RequestIds,
                      NEW g \in Of(d.pending, x), NEW h \in Of(d.pending, y), g.span = h.span
               PROVE  x = y
    BY DEF NamedOnce
  <2>1. CASE x = e.id \/ y = e.id
    BY <2>1, <1>6, <1>7, <1>9
  <2>2. CASE x # e.id /\ y # e.id
    <3>1. g \in Of(b.pending, x) /\ h \in Of(b.pending, y)
      BY <2>2, <1>6
    <3> QED BY <3>1 DEF Shape, NamedOnce
  <2> QED BY <2>1, <2>2
<1>11. OpenIsNamed(d)
  <2> SUFFICES ASSUME NEW j \in Invocations
               PROVE  d.span[j] = "open" <=>
                        \E x \in RequestIds : \E g \in Of(d.pending, x) : g.span = j
    BY DEF OpenIsNamed
  <2>1. CASE j = e.span
    BY <2>1, <1>5, <1>7 DEF Opens
  <2>2. CASE j # e.span
    <3>1. d.span[j] = b.span[j]
      BY <2>2 DEF Opens
    <3>2. (\E x \in RequestIds : \E g \in Of(d.pending, x) : g.span = j) <=>
          (\E x \in RequestIds : \E g \in Of(b.pending, x) : g.span = j)
      BY <2>2, <1>6, <1>7
    <3> QED BY <3>1, <3>2 DEF Shape, OpenIsNamed
  <2> QED BY <2>1, <2>2
<1>12. \A x \in RequestIds \ {e.id} : Stays(b, d, x)
  BY <1>6 DEF Stays, Opens
<1> QED BY <1>4, <1>7, <1>8, <1>10, <1>11, <1>12 DEF Shape, Opens

(* The start of an invocation of its own ID is no matter to the others.    *)
LEMMA TracksOther ==
    ASSUME NEW b, Shape(b), NEW x \in RequestIds, NEW S \in SUBSET Invocations,
           NEW from \in [Invocations -> Source],
           NEW ids \in [Invocations -> RequestIds \cup {"none"}],
           Tracks(b, x, S, from, ids),
           NEW i \in Invocations \ S, ids[i] = "none", NEW id, NEW s
    PROVE  Tracks(b, x, S, [from EXCEPT ![i] = s], [ids EXCEPT ![i] = id])
<1>1. \A e \in Of(b.pending, x) : e.span \in Invocations /\ e.span # i
  BY SpanOfEntry, HandlerAssumption DEF Tracks, Attributes
<1>2. \A j \in S : [from EXCEPT ![i] = s][j] = from[j]
  OBVIOUS
<1>3. \A e \in Of(b.pending, x) : [ids EXCEPT ![i] = id][e.span] = ids[e.span]
  BY <1>1
<1> QED BY <1>2, <1>3 DEF Tracks, Counts, Attributes

-----------------------------------------------------------------------------
(* The inductive invariant.                                                *)

Unstarted ==
    \A i \in Invocations : requestId[i] = "none" => i \notin running /\ measured[i] = "unknown"

IInv ==
    /\ TypeOK
    /\ IsFiniteSet(running)
    /\ Unstarted
    /\ Shape(Books)
    /\ \A x \in RequestIds : Tracks(Books, x, Sharing(x), source, requestId)
    /\ OutcomeIsOwn
    /\ SourceIsOwn

LEMMA InitIInv == Init => IInv
<1> SUFFICES ASSUME Init PROVE IInv
  OBVIOUS
<1>1. TypeOK /\ IsFiniteSet(running) /\ Unstarted /\ OutcomeIsOwn /\ SourceIsOwn
  <2>1. TypeOK
    BY EmptySeq DEF Init, TypeOK, Source
  <2>2. IsFiniteSet(running)
    BY FS_EmptySet DEF Init
  <2> QED BY <2>1, <2>2, HandlerAssumption DEF Init, Unstarted, OutcomeIsOwn, SourceIsOwn
<1>2. Shape(Books)
  <2>1. Books \in AllBooks
    BY <1>1 DEF Books, AllBooks, TypeOK
  <2>2. /\ IsMap(<<>>, Pending) /\ IsMap(<<>>, Detached)
        /\ \A x : Of(<<>>, x) = {}
    BY EmptyMap
  <2>3. Books.pending = <<>> /\ Books.detached = <<>> /\ Books.span = span
    BY DEF Books, Init
  <2>4. Bounded(Books)
    BY <2>2, <2>3, HandlerAssumption DEF Bounded
  <2>5. Exclusive(Books) /\ NamedOnce(Books)
    BY <2>2, <2>3 DEF Exclusive, NamedOnce
  <2>6. OpenIsNamed(Books)
    BY <2>2, <2>3 DEF OpenIsNamed, Init
  <2> QED BY <2>1, <2>4, <2>5, <2>6 DEF Shape
<1>3. ASSUME NEW x \in RequestIds PROVE Tracks(Books, x, Sharing(x), source, requestId)
  <2>1. Of(Books.pending, x) = {} /\ Of(Books.detached, x) = {} /\ Sharing(x) = {}
    BY EmptyMap DEF Books, Init, Sharing
  <2> QED BY <2>1 DEF Tracks, Counts, Attributes
<1> QED BY <1>1, <1>2, <1>3 DEF IInv

(* What the handler knows of the invocations that share the ID of a start. *)
LEMMA StartKnows ==
    ASSUME IInv, NEW id \in RequestIds, NEW from \in Sources
    PROVE  LET count  == Outstanding(Overlapped(id))
               shared == SharedSource(id, from)
           IN  /\ count \in Nat /\ count <= Cardinality(Sharing(id))
               /\ id \notin dropped => count = Cardinality(Sharing(id))
               /\ shared \in Source
               /\ shared # "unknown" => shared = from
               /\ id \notin dropped /\ shared # "unknown" =>
                     \A j \in Sharing(id) : source[j] = from
<1> DEFINE count == Outstanding(Overlapped(id))
           shared == SharedSource(id, from)
<1>1. /\ Shape(Books) /\ Tracks(Books, id, Sharing(id), source, requestId)
      /\ Books.pending = pending /\ Books.detached = detached /\ Books.dropped = dropped
  BY DEF IInv, Books
<1>2. IsFiniteSet(Sharing(id)) /\ Cardinality(Sharing(id)) \in Nat
  <2>1. Sharing(id) \subseteq running /\ IsFiniteSet(running)
    BY DEF Sharing, IInv
  <2> QED BY <2>1, FS_Subset, FS_CardinalityType
<1>3. shared \in Source /\ (shared # "unknown" => shared = from)
  BY DEF SharedSource, Source
<1>4. CASE Overlapped(id) = {}
  <2>1. count = 0
    BY <1>4 DEF Outstanding
  <2>2. id \notin dropped => Sharing(id) = {}
    BY <1>1, <1>4 DEF Tracks, Counts, Overlapped
  <2> QED BY <2>1, <2>2, <1>2, <1>3, FS_EmptySet
<1>5. ASSUME NEW e \in Overlapped(id)
      PROVE  /\ count \in Nat /\ count <= Cardinality(Sharing(id))
             /\ id \notin dropped => count = Cardinality(Sharing(id))
             /\ id \notin dropped /\ shared # "unknown" =>
                   \A j \in Sharing(id) : source[j] = from
  <2>1. e \in Of(Books.pending, id) \/ e \in Of(Books.detached, id)
    BY <1>1 DEF Overlapped
  <2>2. Overlapped(id) = {e} /\ e.outstanding \in Nat
    <3>1. CASE e \in Of(Books.pending, id)
      BY <3>1, <1>1, SpanOfEntry DEF Shape, Exclusive, Overlapped
    <3>2. CASE e \in Of(Books.detached, id)
      BY <3>2, <1>1, EntryOfDetached DEF Shape, Exclusive, Overlapped
    <3> QED BY <2>1, <3>1, <3>2
  <2>3. count = e.outstanding
    BY <2>2 DEF Outstanding
  <2>4. /\ e.outstanding <= Cardinality(Sharing(id))
        /\ id \notin dropped => e.outstanding = Cardinality(Sharing(id))
    BY <1>1, <2>1 DEF Tracks, Counts
  <2>5. ASSUME id \notin dropped, shared # "unknown"
        PROVE  \A j \in Sharing(id) : source[j] = from
    <3>1. e.source = from
      BY <2>5 DEF SharedSource
    <3>2. from # "unknown"
      BY HandlerAssumption
    <3> QED BY <3>1, <3>2, <2>5, <1>1, <2>1 DEF Tracks, Attributes
  <2> QED BY <2>2, <2>3, <2>4, <2>5
<1> QED BY <1>3, <1>4, <1>5

(* n is r with an entry for the start of i under id, in one of the maps.   *)
Starts(r, n, i, id, from, count) ==
    /\ \/ \E e \in Pending :
             /\ Of(n.pending, id) = {e} /\ Of(n.detached, id) = {}
             /\ e.source = from /\ e.outstanding = count + 1
             /\ e.span = i /\ (e.ambiguous <=> count > 0)
       \/ \E e \in Detached :
             /\ Of(n.pending, id) = {} /\ Of(n.detached, id) = {e}
             /\ e.source = from /\ e.outstanding = count + 1
    /\ id \in n.dropped <=> id \in r.dropped
    /\ r.dropped \subseteq n.dropped
    /\ \A j \in Invocations : n.span[j] \in Invocations => n.span[j] = r.span[j]

LEMMA StartedTracks ==
    ASSUME NEW r, NEW n, NEW id \in RequestIds, NEW i \in Invocations, NEW count \in Nat,
           NEW shared \in Source, NEW S \in SUBSET Invocations, IsFiniteSet(S), i \notin S,
           NEW source2, NEW ids, Starts(r, n, i, id, shared, count),
           ids[i] = id, shared # "unknown" => source2[i] = shared,
           count <= Cardinality(S), id \notin r.dropped => count = Cardinality(S),
           id \notin r.dropped /\ shared # "unknown" => \A j \in S : source2[j] = shared
    PROVE  Tracks(n, id, S \cup {i}, source2, ids)
<1>1. /\ Cardinality(S \cup {i}) = Cardinality(S) + 1
      /\ Cardinality(S) \in Nat /\ (Cardinality(S) = 0 <=> S = {})
  BY FS_AddElement, FS_CardinalityType, FS_EmptySet
<1>2. ASSUME NEW e, e.source = shared, e.outstanding = count + 1,
             Of(n.pending, id) \cup Of(n.detached, id) = {e},
             e \in Of(n.pending, id) => e.span = i /\ (e.ambiguous <=> count > 0)
      PROVE  Tracks(n, id, S \cup {i}, source2, ids)
  <2>1. Counts(n, id, S \cup {i})
    BY <1>1, <1>2 DEF Counts, Starts
  <2>2. ASSUME id \notin n.dropped, shared # "unknown"
        PROVE  \A j \in S \cup {i} : source2[j] = shared
    BY <2>2 DEF Starts
  <2>3. ASSUME NEW f \in Of(n.pending, id)
        PROVE  /\ ids[f.span] = id
               /\ ~f.ambiguous /\ id \notin n.dropped => S \cup {i} = {f.span}
    <3>1. f = e /\ f.span = i /\ (f.ambiguous <=> count > 0)
      BY <1>2, <2>3
    <3>2. ~f.ambiguous /\ id \notin n.dropped => S = {}
      <4>1. ~f.ambiguous => count = 0
        BY <3>1
      <4>2. id \notin n.dropped => count = Cardinality(S)
        BY DEF Starts
      <4> QED BY <4>1, <4>2, <1>1
    <3> QED BY <3>1, <3>2
  <2>4. Attributes(n, id, S \cup {i}, source2, ids)
    BY <1>2, <2>2, <2>3 DEF Attributes
  <2> QED BY <2>1, <2>4 DEF Tracks
<1>3. CASE \E e \in Pending :
             /\ Of(n.pending, id) = {e} /\ Of(n.detached, id) = {}
             /\ e.source = shared /\ e.outstanding = count + 1
             /\ e.span = i /\ (e.ambiguous <=> count > 0)
  BY <1>2, <1>3
<1>4. CASE \E e \in Detached :
             /\ Of(n.pending, id) = {} /\ Of(n.detached, id) = {e}
             /\ e.source = shared /\ e.outstanding = count + 1
  BY <1>2, <1>4
<1> QED BY <1>3, <1>4 DEF Starts

LEMMA StartedIInv ==
    ASSUME IInv, NEW i \in Invocations, NEW id \in RequestIds, NEW from \in Sources,
           Started(i, id, from)
    PROVE  IInv'
<1> DEFINE b      == Books
           count  == Outstanding(Overlapped(id))
           shared == SharedSource(id, from)
           forgot == Forget(b, id)
           room   == MakeRoom(forgot)
           entry  == [id |-> id, source |-> shared, outstanding |-> count + 1,
                      span |-> i, ambiguous |-> count > 0]
           opened == [room EXCEPT !.pending = Append(@, entry), !.span[i] = "open"]
           moved  == Detach(room, id, shared, count + 1)
           S(x)   == Sharing(x)
<1>1. /\ TypeOK /\ IsFiniteSet(running) /\ Unstarted /\ OutcomeIsOwn /\ SourceIsOwn
      /\ Shape(b) /\ \A x \in RequestIds : Tracks(b, x, S(x), source, requestId)
      /\ b.span = span /\ b.dropped = dropped /\ b \in AllBooks
  BY DEF IInv, Books, Shape
<1>2. /\ requestId[i] = "none" /\ i \notin running /\ measured[i] = "unknown"
      /\ requestId' = [requestId EXCEPT ![i] = id] /\ source' = [source EXCEPT ![i] = from]
      /\ running' = running \cup {i} /\ measured' = measured
      /\ Apply(opened) \/ Apply(moved)
  BY <1>1 DEF Started, Unstarted
<1>3. /\ count \in Nat /\ count <= Cardinality(S(id))
      /\ id \notin dropped => count = Cardinality(S(id))
      /\ shared \in Source
      /\ shared # "unknown" => shared = from
      /\ id \notin dropped /\ shared # "unknown" => \A j \in S(id) : source[j] = from
  BY StartKnows
<1>4. /\ Shape(forgot) /\ Forgets(b, forgot)
      /\ Of(forgot.pending, id) = {} /\ Of(forgot.detached, id) = {}
      /\ forgot.dropped = b.dropped
      /\ \A x \in RequestIds \ {id} : Stays(b, forgot, x)
  BY <1>1, ForgetKeeps
<1> HIDE DEF b, forgot
<1>5. /\ Shape(room) /\ Forgets(forgot, room)
      /\ Len(room.pending) < maxPendingSpans
      /\ \A x \in RequestIds : Carries(forgot, room, x)
  BY <1>4, MakeRoomKeeps
<1> HIDE DEF room, count, shared
<1>6. /\ Of(room.pending, id) = {} /\ Of(room.detached, id) = {}
      /\ id \in room.dropped <=> id \in dropped
  <2>1. Stays(forgot, room, id)
    BY <1>4, <1>5, CarriesNothing
  <2> QED BY <2>1, <1>1, <1>4 DEF Stays
<1>7. \A x \in RequestIds \ {id} : Tracks(room, x, S(x), source, requestId)
  <2> SUFFICES ASSUME NEW x \in RequestIds \ {id}
               PROVE  Tracks(room, x, S(x), source, requestId)
    OBVIOUS
  <2>1. Carries(b, room, x)
    BY <1>4, <1>5, CarriesFromSame
  <2> QED BY <2>1, <1>1, CarriesTracks
<1>8. /\ dropped \subseteq room.dropped /\ room \in AllBooks
      /\ \A j \in Invocations : room.span[j] = span[j] \/ room.span[j] = "evicted"
  BY <1>1, <1>4, <1>5 DEF Forgets, Shape
<1>9. room.span[i] # "open"
  <2>1. \A x \in RequestIds : \A e \in Of(b.pending, x) : e.span # i
    BY <1>1, <1>2, HandlerAssumption DEF Tracks, Attributes
  <2>2. span[i] # "open"
    BY <2>1, <1>1 DEF Shape, OpenIsNamed
  <2> QED BY <2>2, <1>8
(* Whether the tracer gave a span or not.                                  *)
<1>10. /\ Shape(Books') /\ Starts(room, Books', i, id, shared, count)
       /\ \A x \in RequestIds \ {id} : Carries(room, Books', x)
  <2>1. CASE Apply(opened)
    <3>1. entry \in Pending /\ entry.id = id
      BY <1>3 DEF Pending
    <3>2. Opens(room, opened, entry)
      <4> DEFINE p == Append(room.pending, entry)
      <4>1. p \in Seq(Pending)
        BY <1>8, <3>1, AppendProperties DEF AllBooks
      <4>2. opened = [room EXCEPT !.pending = p, !.span[i] = "open"]
        BY <1>8 DEF AllBooks
      <4> HIDE DEF p, opened
      <4>3. opened = [pending |-> p, detached |-> room.detached,
                      span |-> [room.span EXCEPT ![i] = "open"], dropped |-> room.dropped]
        BY <1>8, <4>2 DEF AllBooks
      <4>4. opened \in AllBooks
        BY <1>8, <4>1, <4>3 DEF AllBooks
      <4>5. \A j \in Invocations : opened.span[j] = IF j = i THEN "open" ELSE room.span[j]
        BY <1>8, <4>3 DEF AllBooks
      <4> QED BY <4>3, <4>4, <4>5 DEF Opens, p
    <3>3. Books' = opened
      <4> HIDE DEF opened
      <4>1. opened = [pending |-> opened.pending, detached |-> opened.detached,
                      span |-> opened.span, dropped |-> opened.dropped]
        BY <3>2 DEF Opens, AllBooks
      <4> QED BY <4>1, <2>1 DEF Apply, Books
    <3> HIDE DEF opened
    <3>4. entry.span = i /\ entry.source = shared /\ entry.outstanding = count + 1
      OBVIOUS
    <3>5. entry.ambiguous <=> count > 0
      BY <1>3
    <3> HIDE DEF entry
    <3>6. /\ Shape(opened) /\ Of(opened.pending, id) = {entry}
          /\ \A x \in RequestIds \ {id} : Stays(room, opened, x)
      BY <3>1, <3>2, <3>4, <1>5, <1>6, <1>9, OpensKeeps
    <3>7. Starts(room, opened, i, id, shared, count)
      <4>1. Of(opened.detached, id) = {} /\ opened.dropped = room.dropped
        BY <1>6, <3>2 DEF Opens
      <4>2. \A j \in Invocations : opened.span[j] \in Invocations => opened.span[j] = room.span[j]
        BY <3>2, <3>4, HandlerAssumption DEF Opens
      <4> QED BY <3>1, <3>4, <3>5, <3>6, <4>1, <4>2 DEF Starts
    <3> QED BY <3>3, <3>6, <3>7 DEF Carries
  <2>2. CASE Apply(moved)
    <3>1. count + 1 \in Nat /\ count + 1 # 0
      BY <1>3
    <3>2. /\ Shape(moved) /\ Forgets(room, moved)
          /\ Detaches(room, moved, id, shared, count + 1)
          /\ \A x \in RequestIds \ {id} : Carries(room, moved, x)
      BY <1>3, <1>5, <1>6, <3>1, DetachKeeps
    <3> HIDE DEF moved
    <3>3. Books' = moved
      <4>1. moved = [pending |-> moved.pending, detached |-> moved.detached,
                     span |-> moved.span, dropped |-> moved.dropped]
        BY <3>2 DEF Shape, AllBooks
      <4> QED BY <4>1, <2>2 DEF Apply, Books
    <3>4. Starts(room, moved, i, id, shared, count)
      <4> DEFINE e == [id |-> id, source |-> shared, outstanding |-> count + 1]
      <4>1. e \in Detached /\ e.source = shared /\ e.outstanding = count + 1
        BY <1>3, <3>1 DEF Detached
      <4>2. Of(moved.pending, id) = {} /\ Of(moved.detached, id) = {e}
        BY <3>1, <3>2, <1>6 DEF Detaches
      <4> HIDE DEF e
      <4> QED BY <4>1, <4>2, <3>2 DEF Starts, Detaches, Forgets
    <3> QED BY <3>2, <3>3, <3>4
  <2> QED BY <1>2, <2>1, <2>2
<1>11. /\ Books'.dropped = dropped' /\ Books'.span = span'
       /\ dropped \subseteq dropped' /\ (id \in dropped' <=> id \in dropped)
       /\ \A j \in Invocations : span'[j] \in Invocations => span'[j] = span[j]
  <2>1. Books'.dropped = dropped' /\ Books'.span = span'
    BY DEF Books
  <2>2. \A j \in Invocations : span'[j] \in Invocations => span'[j] = room.span[j]
    BY <1>10, <2>1 DEF Starts
  <2>3. "evicted" \notin Invocations
    BY HandlerAssumption
  <2> QED BY <1>6, <1>8, <1>10, <2>1, <2>2, <2>3 DEF Starts
<1>12. /\ requestId' \in [Invocations -> RequestIds \cup {"none"}]
       /\ source' \in [Invocations -> Source] /\ running' \subseteq Invocations
       /\ IsFiniteSet(running')
       /\ requestId'[i] = id /\ source'[i] = from /\ id # "none"
       /\ \A j \in Invocations \ {i} : requestId'[j] = requestId[j] /\ source'[j] = source[j]
  BY <1>1, <1>2, FS_AddElement, HandlerAssumption DEF TypeOK, Source
<1>13. TypeOK'
  <2>1. Books' \in AllBooks
    BY <1>10 DEF Shape
  <2>2. /\ pending' \in Seq(Pending) /\ detached' \in Seq(Detached)
        /\ span' \in [Invocations -> {"none", "open", "evicted"} \cup Invocations]
        /\ dropped' \subseteq RequestIds
    BY <2>1 DEF AllBooks, Books
  <2> QED BY <1>1, <1>2, <1>12, <2>2 DEF TypeOK
<1>14. Unstarted'
  BY <1>1, <1>2, <1>12 DEF Unstarted
<1>15. /\ Sharing(id)' = S(id) \cup {i} /\ i \notin S(id)
       /\ \A x \in RequestIds \ {id} : Sharing(x)' = S(x) /\ i \notin S(x)
  BY <1>1, <1>2, <1>12 DEF Sharing, TypeOK
<1>16. \A x \in RequestIds : S(x) \in SUBSET Invocations /\ IsFiniteSet(S(x))
  BY <1>1, FS_Subset DEF Sharing, TypeOK
<1> HIDE DEF S
<1>17. ASSUME NEW x \in RequestIds
       PROVE  Tracks(Books', x, Sharing(x)', source', requestId')
  <2>1. CASE x = id
    <3>1. shared # "unknown" => source'[i] = shared
      BY <1>3, <1>12
    <3>2. id \notin room.dropped => count = Cardinality(S(id))
      BY <1>3, <1>6
    <3>3. id \notin room.dropped /\ shared # "unknown" => \A j \in S(id) : source'[j] = shared
      BY <1>3, <1>6, <1>12, <1>15, <1>16
    <3>4. Tracks(Books', id, S(id) \cup {i}, source', requestId')
      BY <1>3, <1>10, <1>12, <1>15, <1>16, <3>1, <3>2, <3>3, StartedTracks
    <3> QED BY <2>1, <3>4, <1>15
  <2>2. CASE x # id
    <3>1. Tracks(Books', x, S(x), source, requestId)
      BY <2>2, <1>7, <1>10, CarriesTracks
    <3>2. Tracks(Books', x, S(x), source', requestId')
      BY <2>2, <3>1, <1>1, <1>2, <1>10, <1>15, <1>16, TracksOther DEF TypeOK
    <3> QED BY <2>2, <3>2, <1>15
  <2> QED BY <2>1, <2>2
<1>18. OutcomeIsOwn'
  <2> SUFFICES ASSUME NEW j \in Invocations, span'[j] \in Invocations, requestId'[j] \notin dropped'
               PROVE  span'[j] = j
    BY DEF OutcomeIsOwn
  <2>1. span'[j] = span[j]
    BY <1>11
  <2>2. requestId[j] \notin dropped
    <3>1. CASE j = i
      BY <3>1, <1>1, <1>2, HandlerAssumption DEF TypeOK
    <3>2. CASE j # i
      BY <3>2, <1>11, <1>12
    <3> QED BY <3>1, <3>2
  <2> QED BY <2>1, <2>2, <1>1 DEF OutcomeIsOwn
<1>19. SourceIsOwn'
  <2> SUFFICES ASSUME NEW j \in Invocations, requestId'[j] \notin dropped'
               PROVE  measured'[j] \in {source'[j], "unknown"}
    BY DEF SourceIsOwn
  <2>1. CASE j = i
    BY <2>1, <1>2
  <2>2. CASE j # i
    BY <2>2, <1>1, <1>2, <1>11, <1>12 DEF SourceIsOwn
  <2> QED BY <2>1, <2>2
<1> QED BY <1>10, <1>12, <1>13, <1>14, <1>17, <1>18, <1>19 DEF IInv

(* What is known of id once i, one of the S that share it, has ended.      *)
LEMMA TracksLess ==
    ASSUME NEW b, NEW n, NEW id, NEW S, IsFiniteSet(S), NEW i \in S,
           NEW from, NEW ids, Tracks(b, id, S, from, ids),
           id \in n.dropped <=> id \in b.dropped, Of(n.pending, id) = {},
           NEW e \in Of(b.pending, id) \cup Of(b.detached, id), e.outstanding \in Nat \ {0},
           \/ /\ Of(n.detached, id) = {}
              /\ e.outstanding = 1 \/ (id \notin b.dropped => S = {i})
           \/ \E f : /\ Of(n.detached, id) = {f}
                    /\ f.source = e.source /\ f.outstanding = e.outstanding - 1
    PROVE  Tracks(n, id, S \ {i}, from, ids)
<1>1. /\ Cardinality(S \ {i}) = Cardinality(S) - 1 /\ Cardinality(S) \in Nat \ {0}
      /\ IsFiniteSet(S \ {i}) /\ (Cardinality(S \ {i}) = 0 <=> S \ {i} = {})
  <2>1. IsFiniteSet(S \ {i}) /\ Cardinality(S \ {i}) = Cardinality(S) - 1
    BY FS_RemoveElement
  <2>2. Cardinality(S) \in Nat /\ Cardinality(S) # 0
    BY FS_CardinalityType, FS_EmptySet
  <2> QED BY <2>1, <2>2, FS_EmptySet
<1>2. /\ e.outstanding <= Cardinality(S)
      /\ id \notin b.dropped => e.outstanding = Cardinality(S)
      /\ id \notin b.dropped /\ e.source # "unknown" => \A j \in S : from[j] = e.source
  BY DEF Tracks, Counts, Attributes
<1>3. CASE /\ Of(n.detached, id) = {}
           /\ e.outstanding = 1 \/ (id \notin b.dropped => S = {i})
  <2>1. id \notin n.dropped => S \ {i} = {}
    BY <1>1, <1>2, <1>3
  <2> QED BY <1>3, <2>1 DEF Tracks, Counts, Attributes
<1>4. ASSUME NEW f, Of(n.detached, id) = {f},
             f.source = e.source, f.outstanding = e.outstanding - 1
      PROVE  Tracks(n, id, S \ {i}, from, ids)
  <2>1. Counts(n, id, S \ {i})
    BY <1>1, <1>2, <1>4 DEF Counts
  <2>2. Attributes(n, id, S \ {i}, from, ids)
    BY <1>2, <1>4 DEF Attributes
  <2> QED BY <2>1, <2>2 DEF Tracks
<1> QED BY <1>3, <1>4

(* n is b after the end of i, whose ID is id; ids as above.                *)
Ends(b, n, i, id, ids) ==
    /\ b.dropped \subseteq n.dropped /\ (id \in n.dropped <=> id \in b.dropped)
    /\ \A j \in Invocations : n.span[j] \in Invocations =>
          \/ n.span[j] = b.span[j]
          \/ n.span[j] = i /\ ids[j] = id /\ (id \notin b.dropped => j = i)

LEMMA RemoveClears ==
    ASSUME NEW b, Shape(b), NEW id \in RequestIds, NEW e \in Of(b.pending, id),
           NEW c \in AllBooks, NEW v, v # "open",
           c.pending = Without(b.pending, id), c.detached = b.detached, c.dropped = b.dropped,
           \A j \in Invocations : c.span[j] = IF j = e.span THEN v ELSE b.span[j]
    PROVE  /\ Shape(c) /\ Of(c.pending, id) = {} /\ Of(c.detached, id) = {}
           /\ \A x \in RequestIds \ {id} : Stays(b, c, x)
<1>1. /\ IsMap(b.pending, Pending) /\ Len(b.pending) <= maxPendingSpans
      /\ IsMap(b.detached, Detached) /\ Len(b.detached) <= maxPendingSpans
  BY DEF Shape, Bounded
<1>2. /\ IsMap(c.pending, Pending) /\ Len(c.pending) <= Len(b.pending)
      /\ Lacks(c.pending, b.pending, id)
  BY <1>1, WithoutMap
<1>3. Len(b.pending) \in Nat /\ Len(c.pending) \in Nat /\ maxPendingSpans \in Nat
  BY <1>1, <1>2, LenProperties, HandlerAssumption DEF IsMap
<1>4. Bounded(c)
  BY <1>1, <1>2, <1>3 DEF Bounded
<1>5. Of(b.pending, id) = {e} /\ Of(b.detached, id) = {}
  BY SpanOfEntry DEF Shape, Exclusive
<1>6. \A j \in Invocations : IF \E x \in Of(b.pending, id) : x.span = j
                             THEN c.span[j] # "open" ELSE c.span[j] = b.span[j]
  BY <1>5
<1>7. Clears(b, c, id)
  BY <1>2, <1>4, <1>6 DEF Clears
<1> QED BY <1>5, <1>7, ClearsKeeps

(* An end that finds its entry in the second map.                          *)
LEMMA RecountKeeps ==
    ASSUME NEW b, Shape(b), NEW id \in RequestIds, NEW k \in Positions(b.detached, id),
           NEW d, d.pending = b.pending, d.span = b.span, d.dropped = b.dropped,
           d = [pending |-> d.pending, detached |-> d.detached, span |-> d.span,
                dropped |-> d.dropped],
           d.detached = IF b.detached[k].outstanding > 1
                        THEN [b.detached EXCEPT ![k].outstanding = @ - 1]
                        ELSE Without(b.detached, id)
    PROVE  /\ Shape(d)
           /\ b.detached[k] \in Of(b.detached, id) /\ Of(b.pending, id) = {}
           /\ b.detached[k].outstanding \in Nat \ {0} /\ b.detached[k].source \in Source
           /\ \/ Of(d.detached, id) = {} /\ b.detached[k].outstanding = 1
              \/ \E f : /\ Of(d.detached, id) = {f}
                       /\ f.source = b.detached[k].source
                       /\ f.outstanding = b.detached[k].outstanding - 1
           /\ \A x \in RequestIds \ {id} : Stays(b, d, x)
<1> DEFINE e == b.detached[k]
<1>1. /\ IsMap(b.detached, Detached) /\ Len(b.detached) <= maxPendingSpans
      /\ b.detached \in Seq(Detached)
  BY DEF Shape, Bounded, IsMap
<1>2. k \in 1..Len(b.detached) /\ Of(b.detached, id) = {e}
  BY <1>1, OfProperties
<1>3. /\ e \in Detached /\ e.id = id
      /\ e.outstanding \in Nat \ {0} /\ e.source \in Source
  <2>1. e \in Of(b.detached, id)
    BY <1>2
  <2> QED BY <2>1, EntryOfDetached
<1>4. Of(b.pending, id) = {}
  BY <1>2 DEF Shape, Exclusive
<1>5. /\ Bounded(d)
      /\ \A x \in RequestIds \ {id} : Of(d.detached, x) = Of(b.detached, x)
      /\ \/ Of(d.detached, id) = {} /\ e.outstanding = 1
         \/ \E f : /\ Of(d.detached, id) = {f}
                  /\ f.source = e.source /\ f.outstanding = e.outstanding - 1
  <2>1. CASE e.outstanding > 1
    <3> DEFINE f == [e EXCEPT !.outstanding = @ - 1]
    <3>1. f = [id |-> id, source |-> e.source, outstanding |-> e.outstanding - 1]
      BY <1>3 DEF Detached
    <3>2. f \in Detached /\ f.id = id /\ f.source = e.source /\ f.outstanding = e.outstanding - 1
      BY <1>3, <2>1, <3>1 DEF Detached
    <3>3. d.detached = [b.detached EXCEPT ![k] = f]
      BY <2>1
    <3> HIDE DEF f
    <3>4. /\ IsMap([b.detached EXCEPT ![k] = f], Detached)
          /\ Len([b.detached EXCEPT ![k] = f]) = Len(b.detached)
          /\ Gains([b.detached EXCEPT ![k] = f], b.detached, f)
      BY <1>1, <1>2, <1>3, <3>2, SetMap
    <3>5. Bounded(d)
      BY <1>1, <3>3, <3>4 DEF Bounded, Shape
    <3>6. Of(d.detached, id) = {f} /\ \A x \in RequestIds \ {id} : Of(d.detached, x) = Of(b.detached, x)
      BY <3>2, <3>3, <3>4 DEF Gains
    <3> QED BY <3>2, <3>5, <3>6
  <2>2. CASE ~(e.outstanding > 1)
    <3>1. d.detached = Without(b.detached, id) /\ e.outstanding = 1
      BY <2>2, <1>3
    <3>2. /\ IsMap(d.detached, Detached) /\ Len(d.detached) <= Len(b.detached)
          /\ Lacks(d.detached, b.detached, id)
      BY <1>1, <3>1, WithoutMap
    <3>3. Len(b.detached) \in Nat /\ Len(d.detached) \in Nat /\ maxPendingSpans \in Nat
      BY <1>1, <3>2, LenProperties, HandlerAssumption DEF IsMap
    <3>4. Bounded(d)
      BY <1>1, <3>2, <3>3 DEF Bounded, Shape
    <3> QED BY <3>1, <3>2, <3>4 DEF Lacks
  <2> QED BY <2>1, <2>2
<1>6. Exclusive(d)
  BY <1>4, <1>5 DEF Shape, Exclusive
<1>7. OpenIsNamed(d) /\ NamedOnce(d)
  BY DEF Shape, OpenIsNamed, NamedOnce
<1>8. \A x \in RequestIds \ {id} : Stays(b, d, x)
  BY <1>5 DEF Stays
<1>9. d \in AllBooks
  BY <1>5 DEF Shape, Bounded, IsMap, AllBooks
<1> QED BY <1>2, <1>3, <1>4, <1>5, <1>6, <1>7, <1>8, <1>9 DEF Shape

LEMMA TerminatedIInv ==
    ASSUME IInv, NEW i \in Invocations, Terminated(i)
    PROVE  IInv'
<1> DEFINE id   == requestId[i]
           b    == Books
           S(x) == Sharing(x)
           Own(from) == id \notin dropped /\ from # "unknown" => source[i] = from
           Ended ==
              /\ Shape(Books') /\ Ends(b, Books', i, id, requestId)
              /\ Tracks(Books', id, S(id) \ {i}, source, requestId)
              /\ \A x \in RequestIds \ {id} : Carries(b, Books', x)
              /\ \/ measured' = measured
                 \/ \E from \in Source : Own(from) /\ measured' = [measured EXCEPT ![i] = from]
<1>1. /\ TypeOK /\ IsFiniteSet(running) /\ Unstarted /\ OutcomeIsOwn /\ SourceIsOwn
      /\ Shape(b) /\ \A x \in RequestIds : Tracks(b, x, S(x), source, requestId)
      /\ b.pending = pending /\ b.detached = detached
      /\ b.span = span /\ b.dropped = dropped /\ b \in AllBooks
  BY DEF IInv, Books, Shape
<1>2. /\ i \in running /\ running' = running \ {i}
      /\ requestId' = requestId /\ source' = source
  BY DEF Terminated
<1>3. id \in RequestIds /\ i \in S(id)
  BY <1>1, <1>2 DEF Unstarted, Sharing, TypeOK
<1>4. \A x \in RequestIds : S(x) \in SUBSET Invocations /\ IsFiniteSet(S(x))
  BY <1>1, FS_Subset DEF Sharing, TypeOK
<1>5. \A e \in Of(pending, id) \cup Of(detached, id) : Own(e.source)
  BY <1>1, <1>3 DEF Tracks, Attributes
<1>6. Ended
  <2>1. ASSUME NEW e \in Of(pending, id),
               Apply(IF e.ambiguous
                     THEN Detach(EndEarly([Books EXCEPT !.pending = Without(@, id)], e.span),
                                 id, e.source, e.outstanding - 1)
                     ELSE [[Books EXCEPT !.pending = Without(@, id)] EXCEPT !.span[e.span] = i]),
               measured' = [measured EXCEPT ![i] = e.source]
        PROVE  Ended
    <3> DEFINE rest    == Without(pending, id)
               removed == [Books EXCEPT !.pending = Without(@, id)]
               early   == EndEarly(removed, e.span)
               moved   == Detach(early, id, e.source, e.outstanding - 1)
               ended   == [removed EXCEPT !.span[e.span] = i]
    <3>1. /\ Of(b.pending, id) = {e} /\ e.span \in Invocations /\ e.source \in Source
          /\ e.outstanding \in Nat \ {0} /\ e.ambiguous \in BOOLEAN
          /\ e \in Of(b.pending, id)
      BY <1>1, <1>3, <2>1, SpanOfEntry
    <3>2. IsMap(rest, Pending) /\ rest \in Seq(Pending)
      BY <1>1, WithoutMap DEF Shape, Bounded, IsMap
    <3>3. removed = [pending |-> rest, detached |-> detached, span |-> span, dropped |-> dropped]
      <4>1. removed = [Books EXCEPT !.pending = rest]
        BY DEF Books
      <4> HIDE DEF removed, rest
      <4> QED BY <4>1 DEF Books
    <3> HIDE DEF rest
    <3>4. removed \in AllBooks
      BY <1>1, <3>2, <3>3 DEF AllBooks
    <3>5. measured' = [measured EXCEPT ![i] = e.source] /\ e.source \in Source /\ Own(e.source)
      BY <1>5, <2>1, <3>1
    <3> HIDE DEF Own
    <3>6. CASE e.ambiguous
      <4>1. Apply(moved)
        BY <2>1, <3>6
      <4> HIDE DEF removed
      <4>2. /\ early \in AllBooks
            /\ early.pending = rest /\ early.detached = detached /\ early.dropped = dropped
            /\ \A j \in Invocations : early.span[j] = IF j = e.span THEN "evicted" ELSE span[j]
        BY <3>1, <3>3, <3>4, EndEarlyFields
      <4> HIDE DEF early
      <4>3. /\ Shape(early) /\ Of(early.pending, id) = {} /\ Of(early.detached, id) = {}
            /\ \A x \in RequestIds \ {id} : Stays(b, early, x)
        <5>1. early.pending = Without(b.pending, id)
          BY <1>1, <4>2 DEF rest
        <5>2. "evicted" # "open"
          OBVIOUS
        <5> HIDE DEF b
        <5> QED BY <1>1, <1>3, <3>1, <4>2, <5>1, <5>2, RemoveClears
      <4>4. e.outstanding - 1 \in Nat
        BY <3>1
      <4>5. /\ Shape(moved) /\ Forgets(early, moved)
            /\ Detaches(early, moved, id, e.source, e.outstanding - 1)
            /\ \A x \in RequestIds \ {id} : Carries(early, moved, x)
        <5> DEFINE n == e.outstanding - 1
                   from == e.source
        <5>1. n \in Nat /\ from \in Source /\ moved = Detach(early, id, from, n)
          BY <3>1, <4>4
        <5> HIDE DEF n, from, moved, id
        <5>2. /\ Shape(moved) /\ Forgets(early, moved)
              /\ Detaches(early, moved, id, from, n)
              /\ \A x \in RequestIds \ {id} : Carries(early, moved, x)
          BY <1>3, <4>3, <5>1, DetachKeeps
        <5> QED BY <5>2 DEF n, from
      <4> HIDE DEF moved
      <4>6. Books' = moved
        <5>1. moved = [pending |-> moved.pending, detached |-> moved.detached,
                       span |-> moved.span, dropped |-> moved.dropped]
          BY <4>5 DEF Shape, AllBooks
        <5> QED BY <5>1, <4>1 DEF Apply, Books
      <4>7. \A x \in RequestIds \ {id} : Carries(b, moved, x)
        BY <4>3, <4>5, CarriesFromSame
      <4>8. Ends(b, moved, i, id, requestId)
        <5>1. \A j \in Invocations : moved.span[j] \in Invocations => moved.span[j] = span[j]
          BY <4>2, <4>5, HandlerAssumption DEF Forgets
        <5> QED BY <1>1, <4>2, <4>5, <5>1 DEF Ends, Forgets, Detaches
      <4>9. Tracks(moved, id, S(id) \ {i}, source, requestId)
        <5> DEFINE f == [id |-> id, source |-> e.source, outstanding |-> e.outstanding - 1]
        <5>1. /\ Of(moved.pending, id) = {}
              /\ id \in moved.dropped <=> id \in b.dropped
              /\ \/ Of(moved.detached, id) = {} /\ e.outstanding = 1
                 \/ Of(moved.detached, id) = {f}
          BY <1>1, <3>1, <4>2, <4>3, <4>5 DEF Detaches
        <5>2. f.source = e.source /\ f.outstanding = e.outstanding - 1
          OBVIOUS
        <5> HIDE DEF f, b, S, id
        <5> QED BY <1>1, <1>3, <1>4, <3>1, <5>1, <5>2, TracksLess
      <4> QED BY <3>5, <4>5, <4>6, <4>7, <4>8, <4>9
    <3>7. CASE ~e.ambiguous
      <4>1. Apply(ended)
        BY <2>1, <3>7
      <4> HIDE DEF removed
      <4>2. ended = [pending |-> rest, detached |-> detached,
                     span |-> [span EXCEPT ![e.span] = i], dropped |-> dropped]
        BY <3>3
      <4>3. /\ ended \in AllBooks
            /\ ended.pending = rest /\ ended.detached = detached /\ ended.dropped = dropped
            /\ \A j \in Invocations : ended.span[j] = IF j = e.span THEN i ELSE span[j]
        BY <1>1, <3>2, <4>2 DEF AllBooks
      <4> HIDE DEF ended
      <4>4. /\ Shape(ended) /\ Of(ended.pending, id) = {} /\ Of(ended.detached, id) = {}
            /\ \A x \in RequestIds \ {id} : Stays(b, ended, x)
        <5>1. ended.pending = Without(b.pending, id)
          BY <1>1, <4>3 DEF rest
        <5>2. i # "open"
          BY HandlerAssumption
        <5>3. Shape(b) /\ ended.detached = b.detached /\ ended.dropped = b.dropped
          BY <1>1, <4>3
        <5>4. \A j \in Invocations : ended.span[j] = IF j = e.span THEN i ELSE b.span[j]
          BY <1>1, <4>3
        <5> HIDE DEF b, id, Ended
        <5> QED BY <1>3, <3>1, <4>3, <5>1, <5>2, <5>3, <5>4, RemoveClears
      <4>5. Books' = ended
        <5>1. ended = [pending |-> ended.pending, detached |-> ended.detached,
                       span |-> ended.span, dropped |-> ended.dropped]
          BY <4>2, <4>3
        <5> QED BY <5>1, <4>1 DEF Apply, Books
      <4>6. id \notin dropped => S(id) = {e.span} /\ e.span = i
        BY <1>1, <1>3, <3>1, <3>7 DEF Tracks, Attributes
      <4>7. Ends(b, ended, i, id, requestId)
        <5>1. requestId[e.span] = id
          BY <1>1, <1>3, <3>1 DEF Tracks, Attributes
        <5> QED BY <1>1, <4>3, <4>6, <5>1 DEF Ends
      <4>8. Tracks(ended, id, S(id) \ {i}, source, requestId)
        <5>1. id \notin ended.dropped => S(id) \ {i} = {}
          BY <4>3, <4>6
        <5> QED BY <4>4, <5>1 DEF Tracks, Counts, Attributes
      <4> QED BY <3>5, <4>4, <4>5, <4>7, <4>8 DEF Carries
    <3> QED BY <3>1, <3>6, <3>7
  <2>2. ASSUME NEW k \in Positions(detached, id), Of(pending, id) = {},
               detached' = IF detached[k].outstanding > 1
                           THEN [detached EXCEPT ![k].outstanding = @ - 1]
                           ELSE Without(detached, id),
               measured' = [measured EXCEPT ![i] = detached[k].source],
               UNCHANGED <<pending, span, dropped>>
        PROVE  Ended
    <3> DEFINE e == detached[k]
    <3>1. b.detached[k] = e /\ k \in Positions(b.detached, id)
      BY <1>1, <2>2
    <3>2. Books' = [pending |-> pending, detached |-> detached', span |-> span, dropped |-> dropped]
      BY <2>2 DEF Books
    <3>3. /\ Books'.pending = b.pending /\ Books'.span = b.span /\ Books'.dropped = b.dropped
          /\ Books'.detached = detached'
      BY <1>1, <3>2
    <3>4. e \in Of(detached, id)
      BY <2>2 DEF Of
    <3>5. Books' = [pending |-> Books'.pending, detached |-> Books'.detached,
                    span |-> Books'.span, dropped |-> Books'.dropped]
      BY <3>2
    <3>6. /\ Shape(Books')
          /\ e \in Of(b.detached, id) /\ Of(b.pending, id) = {}
          /\ e.outstanding \in Nat \ {0} /\ e.source \in Source
          /\ \/ Of(Books'.detached, id) = {} /\ e.outstanding = 1
             \/ \E f : /\ Of(Books'.detached, id) = {f}
                      /\ f.source = e.source
                      /\ f.outstanding = e.outstanding - 1
          /\ \A x \in RequestIds \ {id} : Stays(b, Books', x)
      <4> DEFINE d == Books'
      <4>1. d.detached = IF b.detached[k].outstanding > 1
                         THEN [b.detached EXCEPT ![k].outstanding = @ - 1]
                         ELSE Without(b.detached, id)
        BY <1>1, <2>2, <3>3
      <4> HIDE DEF d, b, id
      <4>2. /\ Shape(d)
            /\ b.detached[k] \in Of(b.detached, id) /\ Of(b.pending, id) = {}
            /\ b.detached[k].outstanding \in Nat \ {0} /\ b.detached[k].source \in Source
            /\ \/ Of(d.detached, id) = {} /\ b.detached[k].outstanding = 1
               \/ \E f : /\ Of(d.detached, id) = {f}
                        /\ f.source = b.detached[k].source
                        /\ f.outstanding = b.detached[k].outstanding - 1
            /\ \A x \in RequestIds \ {id} : Stays(b, d, x)
        BY <1>1, <1>3, <3>1, <3>3, <3>5, <4>1, RecountKeeps DEF d
      <4> QED BY <3>1, <4>2 DEF d
    <3>7. Ends(b, Books', i, id, requestId)
      BY <3>3 DEF Ends
    <3>8. Tracks(Books', id, S(id) \ {i}, source, requestId)
      <4> HIDE DEF e, b, S, id
      <4>1. Of(Books'.pending, id) = {} /\ (id \in Books'.dropped <=> id \in b.dropped)
        BY <3>3, <3>6
      <4> QED BY <1>1, <1>3, <1>4, <3>6, <4>1, TracksLess
    <3>9. Own(e.source) /\ measured' = [measured EXCEPT ![i] = e.source]
      BY <1>5, <2>2, <3>4
    <3> HIDE DEF Own
    <3> QED BY <3>6, <3>7, <3>8, <3>9 DEF Carries
  <2>3. ASSUME Of(pending, id) \cup Of(detached, id) = {},
               UNCHANGED <<pending, detached, span, dropped, measured>>
        PROVE  Ended
    <3>1. Books' = b
      BY <2>3 DEF Books
    <3>2. id \in dropped
      BY <1>1, <1>3, <2>3 DEF Tracks, Counts
    <3>3. Tracks(b, id, S(id) \ {i}, source, requestId)
      BY <1>1, <2>3, <3>2 DEF Tracks, Counts, Attributes
    <3>4. Ends(b, b, i, id, requestId)
      BY DEF Ends
    <3> QED BY <1>1, <2>3, <3>1, <3>3, <3>4 DEF Carries, Stays
  <2> HIDE DEF Ended, b, S, Own
  <2> QED BY <2>1, <2>2, <2>3 DEF Terminated
<1>7. /\ Books'.dropped = dropped' /\ Books'.span = span'
      /\ dropped \subseteq dropped' /\ (id \in dropped' <=> id \in dropped)
      /\ \A j \in Invocations : span'[j] \in Invocations =>
            \/ span'[j] = span[j]
            \/ span'[j] = i /\ requestId[j] = id /\ (id \notin dropped => j = i)
  <2>1. Books'.dropped = dropped' /\ Books'.span = span'
    BY DEF Books
  <2> QED BY <1>1, <1>6, <2>1 DEF Ends
<1>8. TypeOK' /\ IsFiniteSet(running')
  <2>1. Books' \in AllBooks
    BY <1>6 DEF Shape
  <2>2. /\ pending' \in Seq(Pending) /\ detached' \in Seq(Detached)
        /\ span' \in [Invocations -> {"none", "open", "evicted"} \cup Invocations]
        /\ dropped' \subseteq RequestIds
    BY <2>1 DEF AllBooks, Books
  <2>3. measured' \in [Invocations -> Source]
    BY <1>1, <1>6 DEF TypeOK
  <2>4. running' \subseteq Invocations /\ IsFiniteSet(running')
    BY <1>1, <1>2, FS_Subset DEF TypeOK
  <2> QED BY <1>1, <1>2, <2>2, <2>3, <2>4 DEF TypeOK
<1>9. \A j \in Invocations \ {i} : measured'[j] = measured[j]
  BY <1>1, <1>6 DEF TypeOK
<1>10. Unstarted'
  BY <1>1, <1>2, <1>3, <1>9, HandlerAssumption DEF Unstarted
<1>11. /\ Sharing(id)' = S(id) \ {i}
       /\ \A x \in RequestIds \ {id} : Sharing(x)' = S(x)
  BY <1>2 DEF Sharing
<1>12. ASSUME NEW x \in RequestIds
       PROVE  Tracks(Books', x, Sharing(x)', source', requestId')
  <2>1. CASE x = id
    BY <2>1, <1>2, <1>6, <1>11
  <2>2. CASE x # id
    <3>1. Tracks(Books', x, S(x), source, requestId)
      BY <2>2, <1>1, <1>6, CarriesTracks
    <3> QED BY <2>2, <3>1, <1>2, <1>11
  <2> QED BY <2>1, <2>2
<1>13. OutcomeIsOwn'
  BY <1>1, <1>2, <1>7 DEF OutcomeIsOwn
<1>14. SourceIsOwn'
  <2> SUFFICES ASSUME NEW j \in Invocations, requestId[j] \notin dropped'
               PROVE  measured'[j] \in {source[j], "unknown"}
    BY <1>2 DEF SourceIsOwn
  <2>1. measured[j] \in {source[j], "unknown"}
    BY <1>1, <1>7 DEF SourceIsOwn
  <2>2. CASE j = i
    BY <2>1, <2>2, <1>1, <1>6, <1>7 DEF TypeOK
  <2>3. CASE j # i
    BY <2>1, <2>3, <1>9
  <2> QED BY <2>2, <2>3
<1> QED BY <1>6, <1>8, <1>10, <1>12, <1>13, <1>14 DEF IInv

LEMMA StepIInv == IInv /\ [Next]_vars => IInv'
<1> SUFFICES ASSUME IInv, [Next]_vars PROVE IInv'
  OBVIOUS
<1>1. CASE Next
  BY <1>1, StartedIInv, TerminatedIInv DEF Next
<1>2. CASE UNCHANGED vars
  <2>1. Books' = Books /\ \A x : Sharing(x)' = Sharing(x)
    BY <1>2 DEF Books, Sharing, vars
  <2> QED BY <1>2, <2>1 DEF IInv, vars, TypeOK, Unstarted, OutcomeIsOwn, SourceIsOwn
<1> QED BY <1>1, <1>2

LEMMA Inductive == Spec => []IInv
BY InitIInv, StepIInv, PTL DEF Spec

(* Every variable keeps its type, in particular no entry of either map     *)
(* ever counts fewer than one invocation.                                  *)
THEOREM HandlerTypeCorrect == Spec => []TypeOK
<1>1. IInv => TypeOK
  BY DEF IInv
<1> QED BY <1>1, Inductive, PTL

(* Whatever the number of invocations and however they share request IDs,  *)
(* the handler holds at most maxPendingSpans entries in each map and one   *)
(* per ID: detach and onStarted make room before they add.                 *)
THEOREM HandlerMemoryBounded == Spec => []MemoryBounded
<1>1. IInv => MemoryBounded
  <2> SUFFICES ASSUME IInv PROVE MemoryBounded
    OBVIOUS
  <2>1. Shape(Books) /\ Books.pending = pending /\ Books.detached = detached
    BY DEF IInv, Books
  <2>2. ASSUME NEW x \in RequestIds
        PROVE  Cardinality(Of(pending, x)) + Cardinality(Of(detached, x)) <= 1
    <3>1. Cardinality({}) = 0 /\ \A e : Cardinality({e}) = 1
      BY FS_EmptySet, FS_Singleton
    <3>2. Of(pending, x) = {} \/ Of(detached, x) = {}
      BY <2>1 DEF Shape, Exclusive
    <3>3. \A e \in Of(pending, x) : Of(pending, x) = {e}
      BY <2>1, SpanOfEntry
    <3>4. \A e \in Of(detached, x) : Of(detached, x) = {e}
      BY <2>1, EntryOfDetached
    <3>5. Cardinality(Of(pending, x)) = 0 \/ Cardinality(Of(pending, x)) = 1
      BY <3>1, <3>3
    <3>6. Cardinality(Of(detached, x)) = 0 \/ Cardinality(Of(detached, x)) = 1
      BY <3>1, <3>4
    <3> QED BY <3>1, <3>2, <3>5, <3>6
  <2> QED BY <2>1, <2>2 DEF MemoryBounded, Shape, Bounded
<1> QED BY <1>1, Inductive, PTL

(* The counts of the two maps are those of the invocations that run, but   *)
(* for IDs that a full map dropped, which are never counted too high: the  *)
(* last terminal event of an ID leaves nothing behind.                     *)
THEOREM HandlerCountsAreExact == Spec => []CountsAreExact
<1>1. IInv => CountsAreExact
  <2> SUFFICES ASSUME IInv, NEW x \in RequestIds
               PROVE  LET counted == Outstanding(Of(pending, x)) + Outstanding(Of(detached, x))
                      IN  /\ counted <= Cardinality(Sharing(x))
                          /\ x \notin dropped => counted = Cardinality(Sharing(x))
    BY DEF CountsAreExact
  <2>1. /\ Shape(Books) /\ Counts(Books, x, Sharing(x))
        /\ Books.pending = pending /\ Books.detached = detached /\ Books.dropped = dropped
    BY DEF IInv, Books, Tracks
  <2>2. IsFiniteSet(Sharing(x)) /\ Cardinality(Sharing(x)) \in Nat
    <3>1. Sharing(x) \subseteq running /\ IsFiniteSet(running)
      BY DEF Sharing, IInv
    <3> QED BY <3>1, FS_Subset, FS_CardinalityType
  <2>3. Outstanding({}) = 0 /\ \A e : Outstanding({e}) = e.outstanding
    BY DEF Outstanding
  <2>4. Of(pending, x) = {} \/ Of(detached, x) = {}
    BY <2>1 DEF Shape, Exclusive
  <2>5. CASE Of(pending, x) = {} /\ Of(detached, x) = {}
    BY <2>1, <2>2, <2>3, <2>5, FS_EmptySet DEF Counts
  <2>6. ASSUME NEW e \in Of(pending, x)
        PROVE  Outstanding(Of(pending, x)) + Outstanding(Of(detached, x)) = e.outstanding
    <3>1. Of(pending, x) = {e} /\ Of(detached, x) = {} /\ e.outstanding \in Nat
      BY <2>1, <2>4, <2>6, SpanOfEntry
    <3> QED BY <2>3, <3>1
  <2>7. ASSUME NEW e \in Of(detached, x)
        PROVE  Outstanding(Of(pending, x)) + Outstanding(Of(detached, x)) = e.outstanding
    <3>1. Of(detached, x) = {e} /\ Of(pending, x) = {} /\ e.outstanding \in Nat
      BY <2>1, <2>4, <2>7, EntryOfDetached
    <3> QED BY <2>3, <3>1
  <2> QED BY <2>1, <2>5, <2>6, <2>7 DEF Counts
<1> QED BY <1>1, Inductive, PTL

(* A span is open exactly while an entry of the pending map names it: no   *)
(* span is left open when its entry is evicted, forgotten or taken by a    *)
(* terminal event.                                                         *)
THEOREM HandlerOpenSpansAreKnown == Spec => []OpenSpansAreKnown
<1>1. IInv => OpenSpansAreKnown
  <2> SUFFICES ASSUME IInv, NEW i \in Invocations
               PROVE  span[i] = "open" <=> \E k \in DOMAIN pending : pending[k].span = i
    BY DEF OpenSpansAreKnown
  <2>1. /\ Shape(Books) /\ Books.pending = pending /\ Books.span = span
        /\ IsMap(pending, Pending)
    BY DEF IInv, Books, Shape, Bounded
  <2>2. \A x : \A e \in Of(pending, x) : \E k \in DOMAIN pending : pending[k] = e
    BY DEF Of, Positions
  <2>3. ASSUME NEW k \in DOMAIN pending
        PROVE  pending[k].id \in RequestIds /\ pending[k] \in Of(pending, pending[k].id)
    <3>1. k \in 1..Len(pending) /\ pending[k] \in Pending
      BY <2>1, LenProperties, ElementOfSeq DEF IsMap
    <3> QED BY <3>1 DEF Pending, Of, Positions
  <2> QED BY <2>1, <2>2, <2>3 DEF Shape, OpenIsNamed
<1> QED BY <1>1, Inductive, PTL

(* While its ID has not been dropped, an invocation's outcome goes to its  *)
(* own span or to none, an entry that is not ambiguous is that of the only *)
(* invocation of its ID, and no metric carries another one's source.       *)
THEOREM HandlerNothingMisattributed == Spec => []NothingMisattributed
<1>1. IInv => NothingMisattributed
  <2> SUFFICES ASSUME IInv PROVE NothingMisattributed
    OBVIOUS
  <2>1. /\ IsMap(pending, Pending) /\ Books.pending = pending /\ Books.dropped = dropped
        /\ \A x \in RequestIds : Attributes(Books, x, Sharing(x), source, requestId)
    BY DEF IInv, Books, Shape, Bounded, Tracks
  <2>2. ASSUME NEW k \in DOMAIN pending
        PROVE  pending[k].id \in RequestIds /\ pending[k] \in Of(pending, pending[k].id)
    <3>1. k \in 1..Len(pending) /\ pending[k] \in Pending
      BY <2>1, LenProperties, ElementOfSeq DEF IsMap
    <3> QED BY <3>1 DEF Pending, Of, Positions
  <2>3. ContextIsOwn
    BY <2>1, <2>2 DEF ContextIsOwn, Attributes
  <2> QED BY <2>3 DEF IInv, NothingMisattributed
<1> QED BY <1>1, Inductive, PTL
=============================================================================
