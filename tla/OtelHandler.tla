------------------------------- MODULE OtelHandler -------------------------------
(***************************************************************************)
(* packages/otel/src/event-handler.ts: the onEvent hook that turns the     *)
(* events of invocations into spans and metrics.                           *)
(*                                                                         *)
(* Events name an invocation by its request ID only, which a host may use  *)
(* for several invocations at once.  The handler keeps two insertion-      *)
(* ordered maps of bounded size: request IDs whose span is open, and       *)
(* request IDs that still run although their span has been ended early.    *)
(* Each event is handled in one turn.                                      *)
(***************************************************************************)
EXTENDS Naturals, FiniteSets, SequencesExt

CONSTANTS
    Invocations,    \* invocations; a span is named by the one it was started for
    RequestIds,     \* request IDs that hosts pass
    Sources,        \* execution sources, normalized
    maxPendingSpans \* the capacity of each of the two maps

ASSUME HandlerAssumption ==
    /\ {"none", "open", "evicted"} \cap Invocations = {}
    /\ "none" \notin RequestIds
    /\ "unknown" \notin Sources
    /\ maxPendingSpans \in Nat \ {0}

VARIABLES
    running,   \* the invocations that have started and not terminated
    requestId, \* requestId[i]: the ID i was started with, "none" before
    source,    \* source[i]: the source i was started with
    pending,   \* entries with an open span, the oldest first
    detached,  \* entries whose span was ended early, the oldest first
    span,      \* span[i]: open, ended as evicted or with the outcome of an invocation
    measured,  \* measured[i]: the source on the metrics of i, once terminated
    dropped    \* the request IDs whose count was dropped from detached

vars == <<running, requestId, source, pending, detached, span, measured, dropped>>

Source == Sources \cup {"unknown"}
Detached == [id : RequestIds, source : Source, outstanding : Nat \ {0}]
Pending ==
    [id : RequestIds, source : Source, outstanding : Nat \ {0},
     span : Invocations, ambiguous : BOOLEAN]

Positions(map, id) == {k \in DOMAIN map : map[k].id = id}
Of(map, id) == {map[k] : k \in Positions(map, id)}

TypeOK ==
    /\ running \subseteq Invocations
    /\ requestId \in [Invocations -> RequestIds \cup {"none"}]
    /\ source \in [Invocations -> Source]
    /\ pending \in Seq(Pending)
    /\ detached \in Seq(Detached)
    /\ span \in [Invocations -> {"none", "open", "evicted"} \cup Invocations]
    /\ measured \in [Invocations -> Source]
    /\ dropped \subseteq RequestIds

Init ==
    /\ running = {}
    /\ requestId = [i \in Invocations |-> "none"]
    /\ source = [i \in Invocations |-> "unknown"]
    /\ pending = <<>>
    /\ detached = <<>>
    /\ span = [i \in Invocations |-> "none"]
    /\ measured = [i \in Invocations |-> "unknown"]
    /\ dropped = {}

-----------------------------------------------------------------------------
(* Map.delete(id): an ID has one entry at most.                            *)
Without(map, id) ==
    IF Positions(map, id) = {} THEN map
    ELSE RemoveAt(map, CHOOSE k \in Positions(map, id) : TRUE)

(* How many invocations a set of at most one entry counts.                 *)
Outstanding(entries) ==
    IF entries = {} THEN 0 ELSE (CHOOSE entry \in entries : TRUE).outstanding

(* Both maps, the spans and the IDs dropped, as one event changes them.    *)
Books == [pending |-> pending, detached |-> detached, span |-> span, dropped |-> dropped]

(* Mutant of EndEarly: the span is forgotten, not ended.                   *)
EndEarlyNot(books, i) == books

EndEarly(books, i) == [books EXCEPT !.span[i] = "evicted"]

(* Mutant of Detach: the map grows.                                        *)
DetachUnbounded(books, id, from, outstanding) ==
    IF outstanding = 0 THEN books
    ELSE [books EXCEPT
            !.detached = Append(@, [id |-> id, source |-> from, outstanding |-> outstanding])]

(* Remembers invocations that run on; a full map drops its oldest entry.   *)
Detach(books, id, from, outstanding) ==
    LET full  == Len(books.detached) >= maxPendingSpans
        rest  == IF full THEN Tail(books.detached) ELSE books.detached
        entry == [id |-> id, source |-> from, outstanding |-> outstanding]
    IN  IF outstanding = 0 THEN books
        ELSE [books EXCEPT
                !.detached = Append(rest, entry),
                !.dropped  = IF full THEN @ \cup {Head(books.detached).id} ELSE @]

(* The entries of id leave both maps, their spans ended.                   *)
Forget(books, id) ==
    LET open   == Of(books.pending, id)
        closed == [books EXCEPT !.pending  = Without(@, id),
                                !.detached = Without(@, id)]
    IN  IF open = {} THEN closed
        ELSE EndEarly(closed, (CHOOSE entry \in open : TRUE).span)

(* A full map of pending spans gives up its oldest one.                    *)
MakeRoom(books) ==
    LET oldest == Head(books.pending)
    IN  IF Len(books.pending) < maxPendingSpans THEN books
        ELSE Detach(EndEarly([books EXCEPT !.pending = Tail(@)], oldest.span),
                    oldest.id, oldest.source, oldest.outstanding)

(* Mutant of Overlapped: a count without a span is overlooked.             *)
OverlappedOpen(id) == Of(pending, id)

(* What is known of the running invocations that have the same ID.         *)
Overlapped(id) == Of(pending, id) \cup Of(detached, id)

(* Mutant of SharedSource: the latest start decides.                       *)
SharedSourceLatest(id, from) == from

(* The source that all of them share.                                      *)
SharedSource(id, from) ==
    IF \A entry \in Overlapped(id) : entry.source = from THEN from ELSE "unknown"

Apply(books) ==
    /\ pending' = books.pending
    /\ detached' = books.detached
    /\ span' = books.span
    /\ dropped' = books.dropped

(* onStarted; the tracer's startSpan may throw.                            *)
Started(i, id, from) ==
    LET count  == Outstanding(Overlapped(id))
        shared == SharedSource(id, from)
        room   == MakeRoom(Forget(Books, id))
        entry  == [id |-> id, source |-> shared, outstanding |-> count + 1,
                   span |-> i, ambiguous |-> count > 0]
    IN  /\ requestId[i] = "none"
        /\ requestId' = [requestId EXCEPT ![i] = id]
        /\ source' = [source EXCEPT ![i] = from]
        /\ running' = running \cup {i}
        /\ \/ Apply([room EXCEPT !.pending = Append(@, entry), !.span[i] = "open"])
           \/ Apply(Detach(room, id, shared, count + 1))
        /\ UNCHANGED measured

(* onTerminal.                                                             *)
Terminated(i) ==
    LET id      == requestId[i]
        removed == [Books EXCEPT !.pending = Without(@, id)]
    IN  /\ i \in running
        /\ running' = running \ {i}
        /\ \/ \E entry \in Of(pending, id) :
                 /\ Apply(IF entry.ambiguous
                          THEN Detach(EndEarly(removed, entry.span),
                                      id, entry.source, entry.outstanding - 1)
                          ELSE [removed EXCEPT !.span[entry.span] = i])
                 /\ measured' = [measured EXCEPT ![i] = entry.source]
           \/ \E k \in Positions(detached, id) :
                 /\ Of(pending, id) = {}
                 /\ detached' = IF detached[k].outstanding > 1
                                THEN [detached EXCEPT ![k].outstanding = @ - 1]
                                ELSE Without(detached, id)
                 /\ measured' = [measured EXCEPT ![i] = detached[k].source]
                 /\ UNCHANGED <<pending, span, dropped>>
           \/ /\ Of(pending, id) \cup Of(detached, id) = {}
              /\ UNCHANGED <<pending, detached, span, dropped, measured>>
        /\ UNCHANGED <<requestId, source>>

Next ==
    \E i \in Invocations :
        \/ \E id \in RequestIds, from \in Sources : Started(i, id, from)
        \/ Terminated(i)

Spec == Init /\ [][Next]_vars

-----------------------------------------------------------------------------
Sharing(id) == {i \in running : requestId[i] = id}

(* However many invocations run, and whatever IDs they share, both maps    *)
(* keep to their capacity, and an ID is in one of them at most.            *)
MemoryBounded ==
    /\ Len(pending) <= maxPendingSpans /\ Len(detached) <= maxPendingSpans
    /\ \A id \in RequestIds : Cardinality(Of(pending, id)) + Cardinality(Of(detached, id)) <= 1

(* The two maps count the invocations that run: exactly, unless a count of *)
(* the ID was dropped, and never more, so that nothing is left behind when *)
(* the last one ends.                                                      *)
CountsAreExact ==
    \A id \in RequestIds :
        LET counted == Outstanding(Of(pending, id)) + Outstanding(Of(detached, id))
        IN  /\ counted <= Cardinality(Sharing(id))
            /\ id \notin dropped => counted = Cardinality(Sharing(id))

(* A span is open exactly as long as an entry names it.                    *)
OpenSpansAreKnown ==
    \A i \in Invocations :
        span[i] = "open" <=> \E k \in DOMAIN pending : pending[k].span = i

(* AE-OBS-02: the handler "MUST NOT assign an outcome across the           *)
(* overlapping invocations within the maxPendingSpans bound"; contextFor   *)
(* gives a span only to its own invocation; and the metrics of an          *)
(* invocation carry its own source or none.                                *)
OutcomeIsOwn ==
    \A i \in Invocations :
        span[i] \in Invocations /\ requestId[i] \notin dropped => span[i] = i

ContextIsOwn ==
    \A k \in DOMAIN pending :
        LET entry == pending[k]
        IN  ~entry.ambiguous /\ entry.id \notin dropped =>
                Sharing(entry.id) = {entry.span}

SourceIsOwn ==
    \A i \in Invocations :
        requestId[i] \notin dropped => measured[i] \in {source[i], "unknown"}

NothingMisattributed == OutcomeIsOwn /\ ContextIsOwn /\ SourceIsOwn
=============================================================================
