--------------------------- MODULE AttachedSessionProofs ---------------------------
(***************************************************************************)
(* Proofs about AttachedSession for any number of browser sessions and of  *)
(* connect attempts.  The properties speak of what is so between events;   *)
(* what makes them inductive is what each event leaves in the queue of     *)
(* microtasks, and that all of it is about one attempt: one answer, or the *)
(* continuations of one close, of which one is sure to clear the slot.     *)
(***************************************************************************)
EXTENDS AttachedSession, SequenceTheorems, TLAPS

-----------------------------------------------------------------------------
(* The inductive invariant: what is known of an attempt, and of the        *)
(* microtasks that go with it.                                             *)

(* The continuations that await the close of a client, those that it may   *)
(* leave in the queue, and those that clear the slot of a session that     *)
(* closes.                                                                 *)
Waits == {"failConnection", "callFailed", "rejected", "expiring", "disconnect"}

Ends == Waits \cup {"expired", "shutdown"}

Clearing == {"callFailed", "rejected", "expiring", "expired", "disconnect"}

Awaiting(waiters) == {waiters[k] : k \in 1..Len(waiters)}
Queued(queue) == {queue[k].at : k \in 1..Len(queue)}

(* One of them will clear the slot, whatever its state is by then.         *)
ClearedBy(state, ats) ==
    \/ ats \cap Clearing # {}
    \/ state # "closing" /\ "failConnection" \in ats

NothingOffered(r) == r.connection # "offered" /\ r.authorization # "offered"

GivenBack(r) == {r.connection, r.authorization} \subseteq {"none", "closed"}

(* Nothing is owed to the peer, by the peer or to a caller any more.       *)
Over(r) ==
    /\ GivenBack(r)
    /\ r.closer \in {"closed", "failed"}
    /\ r.peer # "pending" /\ r.call = "none"
    /\ ~r.token /\ ~r.expiry

(* An attempt nobody closes: who is asked, or called, is so in time.       *)
Attempting(r) ==
    /\ r.closer = "none"
    /\ r.state \in {"connecting", "authorizing", "connected"}
    /\ r.peer = "pending" =>
          /\ r.asked # "none" /\ r.call = "none"
          /\ r.state = IF r.oauth /\ r.asked # "authorize" THEN "authorizing"
                                                           ELSE "connecting"
          /\ ~r.token /\ ~r.expiry
    /\ r.call # "none" => r.state = "connected"
    /\ r.state = "authorizing" \/ r.asked = "authorize" => r.oauth

(* One whose client is being closed.                                       *)
BeingClosed(r) ==
    /\ r.closer = "pending"
    /\ GivenBack(r)
    /\ r.peer # "pending" /\ r.call # "running"
    /\ Awaiting(r.waiters) \subseteq Waits
    /\ ClearedBy(r.state, Awaiting(r.waiters))

(* The active attempt, and what is queued, between events; with an answer  *)
(* or a deadline of the peer; with the end of a call; and once the client  *)
(* has closed.                                                             *)
Undecided(r, queue) ==
    /\ queue = <<>>
    /\ NothingOffered(r)
    /\ Attempting(r) \/ BeingClosed(r)

Answered(r, s, queue) ==
    /\ \E ok \in BOOLEAN :
          /\ queue = <<Job(r.asked, s, ok)>>
          /\ \/ Attempting(r) /\ ~r.token /\ ~r.expiry
             \/ BeingClosed(r) /\ ~ok
    /\ r.asked # "none" /\ r.peer # "pending" /\ r.call = "none"
    /\ r.connection = "offered" => r.asked = "initialize"
    /\ r.authorization = "offered" => r.asked = "authorize"

Ended(r, s, queue) ==
    /\ \E ok \in BOOLEAN : queue = <<Job("call", s, ok)>>
    /\ NothingOffered(r)
    /\ Attempting(r) \/ BeingClosed(r)
    /\ r.call = "ended"

Closed(r, queue) ==
    /\ r.closer \in {"closed", "failed"}
    /\ GivenBack(r)
    /\ r.peer # "pending" /\ r.call # "running"
    /\ Queued(queue) \subseteq Ends
    /\ ClearedBy(r.state, Queued(queue))

Current(r, s, queue) ==
    \/ Undecided(r, queue)
    \/ Answered(r, s, queue)
    \/ Ended(r, s, queue)
    \/ Closed(r, queue)

(* Only the last attempt is active, or has a microtask queued; those before*)
(* it are over, those after it have not been made.                         *)
OneAtATime ==
    /\ active \in {0, opened}
    /\ \A k \in 1..Len(jobs) : jobs[k].s = opened
    /\ \A s \in 1..opened : s # active => Over(slot[s])
    /\ \A s \in Slots : s > opened => slot[s] = Unused
    /\ active # 0 => Current(slot[active], active, jobs)
    /\ active = 0 => Queued(jobs) \subseteq Ends

IInv == TypeOK /\ OneAtATime /\ OnlyTheLastSpeaks

-----------------------------------------------------------------------------
(* What is done to the record of an attempt.                               *)
Jobs == [at : Continuations, s : Slots, ok : BOOLEAN]

LEMMA SlotFields ==
    ASSUME NEW r \in Slot
    PROVE  /\ r.state \in States /\ r.owner \in Owners \cup {None} /\ r.oauth \in BOOLEAN
           /\ r.asked \in Operations /\ r.peer \in {"idle", "pending", "late"}
           /\ r.call \in {"none", "running", "ended"}
           /\ r.connection \in Resource /\ r.authorization \in Resource
           /\ r.token \in BOOLEAN /\ r.expiry \in BOOLEAN
           /\ r.closer \in {"none", "pending", "closed", "failed"}
           /\ r.waiters \in Seq(Continuations)
           /\ r.closing \in BOOLEAN /\ r.shutdown \in BOOLEAN /\ r.records \in BOOLEAN
BY DEF Slot

LEMMA UnusedFields ==
    /\ Unused \in Slot /\ Unused.state = "unused" /\ Unused.owner = None
    /\ Unused.peer = "idle" /\ Unused.call = "none" /\ Unused.closer = "none"
    /\ Unused.connection = "none" /\ Unused.authorization = "none"
    /\ ~Unused.token /\ ~Unused.expiry /\ Unused.waiters = <<>>
<1>1. <<>> \in Seq(Continuations)
  OBVIOUS
<1> QED BY <1>1 DEF Unused, Slot, States, Operations, Resource

LEMMA OneWaiter ==
    ASSUME NEW w \in Continuations
    PROVE  <<w>> \in Seq(Continuations) /\ Awaiting(<<w>>) = {w}
BY DEF Awaiting

LEMMA MoreWaiters ==
    ASSUME NEW waiters \in Seq(Continuations), NEW w \in Continuations
    PROVE  /\ Append(waiters, w) \in Seq(Continuations)
           /\ Awaiting(Append(waiters, w)) = Awaiting(waiters) \cup {w}
<1>1. /\ Append(waiters, w) \in Seq(Continuations)
      /\ Len(waiters) \in Nat /\ Len(Append(waiters, w)) = Len(waiters) + 1
      /\ \A k \in 1..Len(waiters) : Append(waiters, w)[k] = waiters[k]
      /\ Append(waiters, w)[Len(waiters) + 1] = w
  BY AppendProperties, LenProperties
<1> QED BY <1>1 DEF Awaiting

(* The continuations but the first.                                        *)
LEMMA QueuedTail ==
    ASSUME NEW queue \in Seq(Jobs), queue # <<>>
    PROVE  /\ Head(queue) = queue[1] /\ Head(queue) \in Jobs
           /\ Tail(queue) \in Seq(Jobs)
           /\ Queued(queue) = {Head(queue).at} \cup Queued(Tail(queue))
           /\ \A k \in 1..Len(Tail(queue)) : Tail(queue)[k] = queue[k + 1]
           /\ Len(Tail(queue)) = Len(queue) - 1 /\ Len(queue) \in Nat
<1>1. /\ Head(queue) = queue[1] /\ Head(queue) \in Jobs
      /\ Tail(queue) \in Seq(Jobs) /\ Len(Tail(queue)) = Len(queue) - 1
      /\ \A k \in 1..Len(Tail(queue)) : Tail(queue)[k] = queue[k + 1]
      /\ Len(queue) \in Nat /\ Len(queue) # 0
  BY HeadTailProperties, LenProperties, EmptySeq
<1> DEFINE rest == Tail(queue)
<1>2. /\ rest \in Seq(Jobs) /\ Len(rest) = Len(queue) - 1
      /\ \A k \in 1..Len(rest) : rest[k] = queue[k + 1]
  BY <1>1
<1> HIDE DEF rest
<1>3. \A k \in 1..Len(queue) : k = 1 \/ (k - 1 \in 1..Len(rest) /\ queue[k] = rest[k - 1])
  BY <1>1, <1>2
<1>4. \A k \in 1..Len(rest) : k + 1 \in 1..Len(queue)
  BY <1>1, <1>2
<1>5. Queued(queue) = {queue[1].at} \cup Queued(rest)
  BY <1>1, <1>2, <1>3, <1>4 DEF Queued
<1> QED BY <1>1, <1>5 DEF rest

(* closeClientOnce.                                                        *)
LEMMA ClosingClientFields ==
    ASSUME NEW r \in Slot, NEW w \in Continuations
    PROVE  LET q == ClosingClient(r, w) IN
           /\ q \in Slot
           /\ q.state = r.state /\ q.owner = r.owner /\ q.peer = r.peer
           /\ q.call = r.call /\ q.asked = r.asked
           /\ r.closer = "none" =>
                 /\ q.closer = "pending" /\ q.waiters = <<w>>
                 /\ q.connection = TakenToClose(r.connection)
                 /\ q.authorization = TakenToClose(r.authorization)
           /\ r.closer # "none" =>
                 /\ q.closer = r.closer /\ q.waiters = Append(r.waiters, w)
                 /\ q.connection = r.connection /\ q.authorization = r.authorization
<1>1. CASE r.closer = "none"
  <2> DEFINE q == [r EXCEPT !.closer = "pending", !.waiters = <<w>>,
                            !.connection = TakenToClose(@), !.authorization = TakenToClose(@)]
  <2>1. ClosingClient(r, w) = q
    BY <1>1 DEF ClosingClient
  <2>2. \A x \in Resource : TakenToClose(x) \in Resource
    BY DEF TakenToClose, Resource
  <2>3. q \in Slot
    BY <2>2, OneWaiter DEF Slot
  <2> QED BY <1>1, <2>1, <2>3 DEF Slot
<1>2. CASE r.closer # "none"
  <2> DEFINE q == [r EXCEPT !.waiters = Append(@, w)]
  <2>1. ClosingClient(r, w) = q
    BY <1>2 DEF ClosingClient
  <2>2. Append(r.waiters, w) \in Seq(Continuations)
    BY SlotFields, MoreWaiters
  <2>3. q \in Slot
    BY <2>2 DEF Slot
  <2> QED BY <1>2, <2>1, <2>3 DEF Slot
<1> QED BY <1>1, <1>2

(* Whoever asks for it, the client is being closed then, and the slot will *)
(* be cleared.                                                             *)
LEMMA ClosingClientCloses ==
    ASSUME NEW r \in Slot, NEW w \in Waits, NothingOffered(r),
           r.peer # "pending", r.call # "running",
           \/ r.closer = "none"
           \/ /\ r.closer = "pending" /\ GivenBack(r)
              /\ Awaiting(r.waiters) \subseteq Waits
              /\ w \in Clearing \/ ClearedBy(r.state, Awaiting(r.waiters)),
           \/ w \in Clearing
           \/ r.state # "closing"
           \/ r.closer = "pending"
    PROVE  ClosingClient(r, w) \in Slot /\ BeingClosed(ClosingClient(r, w))
<1> DEFINE q == ClosingClient(r, w)
<1>1. w \in Continuations
  BY DEF Waits, Continuations
<1>2. /\ q \in Slot /\ q.state = r.state /\ q.peer = r.peer /\ q.call = r.call
  BY <1>1, ClosingClientFields
<1>3. CASE r.closer = "none"
  <2>1. /\ q.closer = "pending" /\ q.waiters = <<w>>
        /\ q.connection = TakenToClose(r.connection)
        /\ q.authorization = TakenToClose(r.authorization)
    BY <1>1, <1>3, ClosingClientFields
  <2>2. GivenBack(q)
    BY <2>1, SlotFields DEF GivenBack, TakenToClose, NothingOffered, Resource
  <2>3. Awaiting(q.waiters) = {w}
    BY <1>1, <2>1, OneWaiter
  <2>4. w \in Clearing \/ w = "failConnection"
    BY DEF Waits, Clearing
  <2>5. ClearedBy(q.state, {w})
    BY <1>2, <1>3, <2>4 DEF ClearedBy
  <2> HIDE DEF q
  <2> QED BY <1>2, <2>1, <2>2, <2>3, <2>5 DEF BeingClosed, q
<1>4. CASE r.closer = "pending"
  <2>1. /\ q.closer = "pending" /\ q.waiters = Append(r.waiters, w)
        /\ q.connection = r.connection /\ q.authorization = r.authorization
    BY <1>1, <1>4, ClosingClientFields
  <2>2. Awaiting(q.waiters) = Awaiting(r.waiters) \cup {w}
    BY <1>1, <2>1, SlotFields, MoreWaiters
  <2>3. ClearedBy(q.state, Awaiting(r.waiters) \cup {w})
    BY <1>2, <1>4 DEF ClearedBy
  <2> HIDE DEF q
  <2> QED BY <1>2, <1>4, <2>1, <2>2, <2>3 DEF BeingClosed, GivenBack, q
<1> QED BY <1>3, <1>4

-----------------------------------------------------------------------------
(* What a step does to the active attempt, to one that is over, and to the *)
(* queue.                                                                  *)

(* A session only goes on, and once its client is closed, only to its end. *)
Onward(r, q) ==
    /\ Rank[q.state] >= Rank[r.state]
    /\ r.closer # "none" => q.state \in {r.state, "closing"}

NeverBack ==
    \A s \in Slots :
        /\ Onward(slot[s], slot'[s])
        /\ s <= opened /\ active # s => active' # s /\ slot'[s].call # "running"

(* Whoever is remembered made the last attempt.                            *)
Remembered == {None} \cup {slot[s].owner : s \in {opened} \ {0}}

LEMMA Ranks ==
    /\ \A a \in States : Rank[a] \in 0..4 /\ Rank["closing"] >= Rank[a]
    /\ Rank["connecting"] >= Rank["unused"]
    /\ Rank["authorizing"] >= Rank["connecting"] /\ Rank["connected"] >= Rank["connecting"]
    /\ Rank["connected"] >= Rank["authorizing"]
BY DEF Rank, States

LEMMA OnwardWhen ==
    ASSUME NEW r \in Slot, NEW q, q.state \in {r.state, "closing"}
    PROVE  Onward(r, q)
BY Ranks, SlotFields DEF Onward

LEMMA Known ==
    ASSUME IInv
    PROVE  /\ TypeOK /\ OneAtATime
           /\ active \in 0..MaxSlots /\ opened \in 0..MaxSlots /\ MaxSlots \in Nat \ {0}
           /\ active # 0 => active \in Slots /\ active = opened /\ slot[active] \in Slot
           /\ \A s \in Slots : slot[s] \in Slot
           /\ \A s \in Slots : s # active => Over(slot[s]) \/ slot[s] = Unused
           /\ \A s \in Slots : s # active /\ s <= opened => Over(slot[s])
           /\ active # 0 => Current(slot[active], active, jobs)
           /\ jobs \in Seq(Jobs)
           /\ {retained, failed} \subseteq Remembered
BY SessionAssumption DEF IInv, TypeOK, OneAtATime, OnlyTheLastSpeaks, Slots, Jobs, Remembered

LEMMA NothingRuns ==
    ASSUME NEW r, Over(r) \/ r = Unused
    PROVE  /\ r.peer # "pending" /\ r.call = "none" /\ ~r.token /\ ~r.expiry
           /\ r.closer # "pending" /\ GivenBack(r)
BY UnusedFields DEF Over, GivenBack

(* What is queued is about the active attempt.                             *)
QueuedFor(s, queue) ==
    queue \in Seq(Jobs) /\ \A k \in 1..Len(queue) : queue[k].s = s

LEMMA OneQueued ==
    ASSUME NEW at \in Continuations, NEW s \in Slots, NEW ok \in BOOLEAN
    PROVE  /\ QueuedFor(s, <<Job(at, s, ok)>>)
           /\ <<>> \o <<Job(at, s, ok)>> = <<Job(at, s, ok)>>
<1>1. Job(at, s, ok) \in Jobs /\ Job(at, s, ok).s = s
  BY DEF Job, Jobs
<1>2. \A j \in Jobs : <<j>> \in Seq(Jobs)
  OBVIOUS
<1> QED BY <1>1, <1>2, ConcatEmptySeq DEF QueuedFor

LEMMA NoneQueued == \A s \in Slots : QueuedFor(s, <<>>)
BY EmptySeq DEF QueuedFor

(* A step of the active attempt, which stays active.                       *)
LEMMA ActiveStep ==
    ASSUME IInv, active # 0, NEW r \in Slot, slot' = [slot EXCEPT ![active] = r],
           UNCHANGED <<active, opened, retained, failed>>,
           QueuedFor(active, jobs'), Current(r, active, jobs'),
           r.owner = slot[active].owner,
           r.closer \in {"closed", "failed"} => r.waiters = <<>>,
           Onward(slot[active], r)
    PROVE  IInv' /\ NeverBack
<1>1. /\ active \in Slots /\ active = opened /\ slot'[active] = r
      /\ \A s \in Slots : s # active => slot'[s] = slot[s]
      /\ TypeOK /\ OneAtATime
  BY Known DEF TypeOK
<1>2. TypeOK'
  BY <1>1 DEF TypeOK, QueuedFor, Jobs
<1>3. OneAtATime'
  <2>1. \A s \in 1..opened : s # active => slot'[s] = slot[s]
    BY <1>1, Known DEF Slots
  <2> QED BY <1>1, <2>1 DEF OneAtATime, QueuedFor
<1>4. OnlyTheLastSpeaks'
  <2>1. {slot'[s].owner : s \in {opened} \ {0}} = {slot[s].owner : s \in {opened} \ {0}}
    BY <1>1
  <2> QED BY <2>1 DEF IInv, OnlyTheLastSpeaks
<1>5. NeverBack
  <2>1. \A s \in Slots : s # active => Onward(slot[s], slot'[s]) /\ slot'[s].call # "running"
    BY <1>1, Known, NothingRuns, OnwardWhen
  <2> QED BY <1>1, <2>1 DEF NeverBack
<1> QED BY <1>2, <1>3, <1>4, <1>5 DEF IInv

(* A step of an attempt that is over, and that changes nothing else.       *)
LEMMA OverStep ==
    ASSUME IInv, NEW s \in Slots, s # active, Over(slot[s]), NEW r \in Slot, Over(r),
           r.state = slot[s].state, r.owner = slot[s].owner, r.waiters = slot[s].waiters,
           slot' = [slot EXCEPT ![s] = r],
           UNCHANGED <<active, opened, retained, failed, jobs>>
    PROVE  IInv' /\ NeverBack
<1>1. /\ slot'[s] = r /\ \A t \in Slots : t # s => slot'[t] = slot[t]
      /\ TypeOK /\ OneAtATime
  BY Known DEF TypeOK
<1>2. TypeOK'
  BY <1>1 DEF TypeOK, Over
<1>3. s <= opened
  <2>1. slot[s] # Unused
    BY UnusedFields DEF Over
  <2> QED BY <1>1, <2>1, Known DEF OneAtATime, Slots
<1>4. OneAtATime'
  <2>1. active # 0 => slot'[active] = slot[active]
    BY <1>1, Known
  <2>2. \A t \in 1..opened : t \in Slots
    BY Known DEF Slots
  <2> QED BY <1>1, <1>3, <2>1, <2>2, Known DEF OneAtATime, Slots
<1>5. OnlyTheLastSpeaks'
  <2>1. \A t \in Slots : slot'[t].owner = slot[t].owner
    BY <1>1
  <2>2. \A t \in {opened} \ {0} : t \in Slots
    BY Known DEF Slots
  <2>3. {slot'[t].owner : t \in {opened} \ {0}} = {slot[t].owner : t \in {opened} \ {0}}
    BY <2>1, <2>2
  <2> QED BY <2>3 DEF IInv, OnlyTheLastSpeaks
<1>6. NeverBack
  <2>1. \A t \in Slots : slot'[t].state = slot[t].state
    BY <1>1
  <2>2. \A t \in Slots : Onward(slot[t], slot'[t])
    BY <2>1, OnwardWhen, Known
  <2>3. \A t \in Slots : t # active => slot'[t].call # "running"
    BY <1>1, Known, NothingRuns
  <2> QED BY <2>2, <2>3 DEF NeverBack
<1> QED BY <1>2, <1>4, <1>5, <1>6 DEF IInv

(* A step that changes nothing but what is remembered and queued.          *)
LEMMA QueueStep ==
    ASSUME IInv, UNCHANGED <<slot, active, opened>>,
           QueuedFor(opened, jobs'),
           {retained', failed'} \subseteq Remembered,
           active # 0 => /\ retained' = None /\ failed' = None
                         /\ Current(slot[active], active, jobs'),
           active = 0 => Queued(jobs') \subseteq Ends
    PROVE  IInv' /\ NeverBack
<1>1. TypeOK /\ OneAtATime
  BY Known
<1>2. \A t \in {opened} \ {0} : t \in Slots
  BY Known DEF Slots
<1>3. Remembered \subseteq Owners \cup {None}
  BY <1>2, SlotFields, Known DEF Remembered
<1>4. TypeOK'
  BY <1>1, <1>3 DEF TypeOK, QueuedFor, Jobs
<1>5. OneAtATime'
  BY <1>1 DEF OneAtATime, QueuedFor
<1>6. OnlyTheLastSpeaks'
  BY DEF OnlyTheLastSpeaks, Remembered
<1>7. NeverBack
  BY Known, NothingRuns, OnwardWhen DEF NeverBack
<1> QED BY <1>4, <1>5, <1>6, <1>7 DEF IInv

(* The slot is cleared, for the first time or once more.                   *)
LEMMA ClearStep ==
    ASSUME IInv, NEW r \in Slot, opened # 0, r.owner = slot[opened].owner,
           r.state = slot[opened].state, r.closer = slot[opened].closer,
           r.peer = slot[opened].peer, r.connection = slot[opened].connection,
           r.authorization = slot[opened].authorization, r.waiters = slot[opened].waiters,
           active = 0 \/ Closed(slot[opened], jobs),
           ClearSlot(opened, r), opened' = opened,
           QueuedFor(opened, jobs'),
           Queued(jobs') \subseteq Ends,
           failed' \in {None, slot[opened].owner, failed}
    PROVE  IInv' /\ NeverBack
<1> DEFINE q == [r EXCEPT !.records = FALSE, !.call = "none", !.token = FALSE,
                          !.expiry = FALSE]
<1>1. /\ TypeOK /\ OneAtATime /\ opened \in Slots
      /\ \A s \in 1..opened : s \in Slots
  BY Known DEF Slots
<1>2. /\ slot' = [slot EXCEPT ![opened] = q] /\ active' = 0
      /\ retained' \in {None, slot[opened].owner}
  BY <1>1, Known DEF ClearSlot, Becomes, OneAtATime
<1>3. /\ q \in Slot /\ q.state = r.state /\ q.owner = r.owner /\ q.closer = r.closer
      /\ q.peer = r.peer /\ q.connection = r.connection /\ q.waiters = r.waiters
      /\ q.authorization = r.authorization
      /\ ~q.token /\ ~q.expiry /\ q.call = "none"
  BY DEF Slot
<1> HIDE DEF q
<1>4. Over(q)
  <2>1. active = 0 => Over(slot[opened])
    BY <1>1, Known
  <2>2. /\ GivenBack(slot[opened]) /\ slot[opened].closer \in {"closed", "failed"}
        /\ slot[opened].peer # "pending"
    BY <2>1 DEF Over, Closed
  <2> QED BY <1>3, <2>2 DEF Over, GivenBack
<1>5. /\ slot'[opened] = q
      /\ \A s \in Slots : s # opened => slot'[s] = slot[s]
  BY <1>1, <1>2 DEF TypeOK
<1>6. /\ slot[opened].owner \in Owners \cup {None}
      /\ {retained, failed} \subseteq {None, slot[opened].owner}
  BY <1>1, Known, SlotFields DEF Remembered
<1>7. TypeOK'
  <2>1. slot' \in [Slots -> Slot]
    BY <1>1, <1>2, <1>3 DEF TypeOK
  <2>2. retained' \in Owners \cup {None} /\ failed' \in Owners \cup {None}
    BY <1>2, <1>6
  <2>3. \A s \in Slots : slot'[s].closer \in {"closed", "failed"} => slot'[s].waiters = <<>>
    BY <1>1, <1>3, <1>5 DEF TypeOK
  <2> QED BY <1>1, <1>2, <2>1, <2>2, <2>3, Known DEF TypeOK, QueuedFor, Jobs
<1>8. OneAtATime'
  <2>1. \A s \in 1..opened : Over(slot'[s])
    BY <1>1, <1>4, <1>5, Known DEF Slots, OneAtATime
  <2>2. \A s \in Slots : s > opened => slot'[s] = Unused
    BY <1>1, <1>5 DEF OneAtATime, Slots
  <2> QED BY <1>2, <2>1, <2>2 DEF OneAtATime, QueuedFor
<1>9. OnlyTheLastSpeaks'
  BY <1>2, <1>3, <1>5, <1>6 DEF OnlyTheLastSpeaks
<1>10. NeverBack
  <2>1. \A s \in Slots : slot'[s].state = slot[s].state
    BY <1>3, <1>5
  <2>2. \A s \in Slots : Onward(slot[s], slot'[s])
    BY <2>1, OnwardWhen, Known
  <2>3. \A s \in Slots : s # active => slot'[s].call # "running"
    BY <1>3, <1>5, Known, NothingRuns
  <2>4. \A s \in Slots : active' # s
    BY <1>2 DEF Slots
  <2> QED BY <2>2, <2>3, <2>4 DEF NeverBack
<1> QED BY <1>7, <1>8, <1>9, <1>10 DEF IInv

-----------------------------------------------------------------------------
(* Requests of a browser, timers, and answers: each finds nothing queued.  *)

(* The active attempt as an event finds it.                                *)
LEMMA Found ==
    ASSUME IInv, Quiet, active # 0
    PROVE  /\ NothingOffered(slot[active])
           /\ Attempting(slot[active]) \/ BeingClosed(slot[active])
           /\ slot[active] \in Slot /\ active \in Slots
<1>1. Queued(<<>>) = {}
  BY EmptySeq DEF Queued
<1>2. ~Closed(slot[active], jobs)
  BY <1>1 DEF Closed, ClearedBy, Quiet
<1>3. \A at, s, ok : <<Job(at, s, ok)>> # <<>>
  OBVIOUS
<1> QED BY <1>2, <1>3, Known DEF Current, Undecided, Answered, Ended, Quiet

(* What an event leaves between events.                                    *)
LEMMA LeavesQuiet ==
    ASSUME IInv, Quiet, active # 0, NEW r \in Slot, slot' = [slot EXCEPT ![active] = r],
           UNCHANGED <<active, opened, retained, failed, jobs>>,
           NothingOffered(r), Attempting(r) \/ BeingClosed(r),
           r.owner = slot[active].owner, Onward(slot[active], r)
    PROVE  IInv' /\ NeverBack
<1>1. jobs' = <<>> /\ QueuedFor(active, jobs')
  BY Known, NoneQueued DEF Quiet
<1>2. Current(r, active, jobs')
  BY <1>1 DEF Current, Undecided
<1>3. r.closer \notin {"closed", "failed"}
  BY DEF Attempting, BeingClosed
<1> QED BY <1>1, <1>2, <1>3, ActiveStep

LEMMA OpenStep ==
    ASSUME IInv, NEW owner \in Owners, NEW asked \in {"authorize", "initialize"},
           Open(owner, asked)
    PROVE  IInv' /\ NeverBack
<1> DEFINE s == opened + 1
           r == [Unused EXCEPT !.state = "connecting", !.owner = owner,
                               !.oauth = (asked = "authorize"),
                               !.asked = asked, !.peer = "pending"]
<1>1. /\ TypeOK /\ OneAtATime /\ jobs = <<>> /\ active = 0
      /\ s \in Slots /\ s # opened /\ opened' = s /\ active' = s /\ jobs' = jobs
      /\ slot' = [slot EXCEPT ![s] = r] /\ retained' = None /\ failed' = None
      /\ slot[s] = Unused
  BY Known DEF Open, Quiet, Becomes, Forgets, Slots, OneAtATime
<1>2. /\ r \in Slot /\ r.state = "connecting" /\ r.owner = owner
      /\ r.oauth = (asked = "authorize") /\ r.asked = asked /\ r.peer = "pending"
      /\ r.call = "none" /\ r.closer = "none" /\ ~r.token /\ ~r.expiry
      /\ r.connection = "none" /\ r.authorization = "none" /\ r.waiters = <<>>
  BY UnusedFields DEF Slot, States, Operations, Unused
<1> HIDE DEF r
<1>3. slot'[s] = r /\ \A t \in Slots : t # s => slot'[t] = slot[t]
  BY <1>1 DEF TypeOK
<1>4. TypeOK'
  <2>1. slot' \in [Slots -> Slot]
    BY <1>1, <1>2 DEF TypeOK
  <2>2. \A t \in Slots : slot'[t].closer \in {"closed", "failed"} => slot'[t].waiters = <<>>
    BY <1>1, <1>2, <1>3 DEF TypeOK
  <2>3. opened' \in 0..MaxSlots /\ active' \in 0..opened'
    BY <1>1, Known DEF Slots
  <2> QED BY <1>1, <2>1, <2>2, <2>3 DEF TypeOK
<1>5. Current(r, s, <<>>)
  <2>1. NothingOffered(r) /\ Attempting(r)
    BY <1>2 DEF NothingOffered, Attempting
  <2> QED BY <2>1 DEF Current, Undecided
<1>6. OneAtATime'
  <2>1. \A t \in 1..s : t # s => t \in Slots /\ t \in 1..opened /\ t # active
    BY <1>1, Known DEF Slots
  <2>2. \A t \in 1..s : t # s => Over(slot'[t])
    BY <1>1, <1>3, <2>1 DEF OneAtATime
  <2>3. \A t \in Slots : t > s => t > opened /\ t # s
    BY <1>1, Known DEF Slots
  <2>4. \A t \in Slots : t > s => slot'[t] = Unused
    BY <1>1, <1>3, <2>3 DEF OneAtATime
  <2>5. \A k \in 1..Len(jobs') : FALSE
    BY <1>1, EmptySeq
  <2>6. s # 0
    BY <1>1 DEF Slots
  <2> HIDE DEF s
  <2> QED BY <1>1, <1>3, <1>5, <2>2, <2>4, <2>5, <2>6 DEF OneAtATime
<1>7. OnlyTheLastSpeaks'
  BY <1>1 DEF OnlyTheLastSpeaks
<1>8. NeverBack
  <2>1. Onward(slot[s], r)
    BY <1>1, <1>2, UnusedFields, Ranks DEF Onward
  <2>2. \A t \in Slots : t # s => Onward(slot[t], slot'[t])
    BY <1>3, OnwardWhen, Known
  <2>3. \A t \in Slots : t <= opened => t # s /\ slot'[t].call # "running"
    BY <1>1, <1>3, Known, NothingRuns DEF Slots
  <2> HIDE DEF s
  <2> QED BY <1>1, <1>3, <2>1, <2>2, <2>3 DEF NeverBack
<1> QED BY <1>4, <1>6, <1>7, <1>8 DEF IInv

LEMMA CompleteStep ==
    ASSUME IInv, NEW s \in Slots, CompleteOAuth(s) PROVE IInv' /\ NeverBack
<1> DEFINE r == [slot[s] EXCEPT !.token = FALSE, !.expiry = FALSE,
                                !.asked = "initialize", !.peer = "pending"]
<1>1. /\ Quiet /\ active = s /\ active # 0 /\ slot[s].state = "authorizing"
      /\ slot[s].authorization = "held" /\ slot' = [slot EXCEPT ![active] = r]
      /\ UNCHANGED <<active, opened, retained, failed, jobs>>
  BY DEF CompleteOAuth, Is, Becomes, Slots
<1>2. /\ slot[s] \in Slot /\ NothingOffered(slot[s])
      /\ Attempting(slot[s])
  BY <1>1, Found DEF BeingClosed, GivenBack
<1>3. /\ r \in Slot /\ r.state = slot[s].state /\ r.owner = slot[s].owner
      /\ r.oauth = slot[s].oauth /\ r.asked = "initialize" /\ r.peer = "pending"
      /\ r.call = slot[s].call /\ r.closer = slot[s].closer /\ ~r.token /\ ~r.expiry
      /\ r.connection = slot[s].connection /\ r.authorization = slot[s].authorization
  BY <1>2 DEF Slot, Operations
<1> HIDE DEF r
<1>4. NothingOffered(r) /\ Attempting(r)
  BY <1>1, <1>2, <1>3 DEF NothingOffered, Attempting
<1>5. Onward(slot[active], r)
  BY <1>1, <1>2, <1>3, OnwardWhen
<1> QED BY <1>1, <1>3, <1>4, <1>5, LeavesQuiet

(* The client is closed while nobody is asked for anything.                *)
LEMMA CloseQuietly ==
    ASSUME IInv, Quiet, active # 0, NEW r \in Slot, NEW w \in Clearing \cap Waits,
           slot' = [slot EXCEPT ![active] = ClosingClient(r, w)],
           UNCHANGED <<active, opened, retained, failed, jobs>>,
           r.state = "closing", r.owner = slot[active].owner,
           r.closer = slot[active].closer, r.waiters = slot[active].waiters,
           r.connection = slot[active].connection,
           r.authorization = slot[active].authorization,
           r.peer # "pending", r.call # "running"
    PROVE  IInv' /\ NeverBack
<1>1. /\ NothingOffered(slot[active])
      /\ Attempting(slot[active]) \/ BeingClosed(slot[active])
      /\ slot[active] \in Slot
  BY Found
<1>2. NothingOffered(r)
  BY <1>1 DEF NothingOffered
<1>3. \/ r.closer = "none"
      \/ /\ r.closer = "pending" /\ GivenBack(r)
         /\ Awaiting(r.waiters) \subseteq Waits
  BY <1>1 DEF Attempting, BeingClosed, GivenBack
<1> DEFINE q == ClosingClient(r, w)
<1>4. q \in Slot /\ BeingClosed(q)
  BY <1>2, <1>3, ClosingClientCloses
<1>5. q.state = r.state /\ q.owner = r.owner
  BY ClosingClientFields DEF Waits, Continuations
<1> HIDE DEF q
<1>6. NothingOffered(q)
  BY <1>4 DEF BeingClosed, GivenBack, NothingOffered
<1>7. Onward(slot[active], q)
  BY <1>1, <1>5, OnwardWhen
<1> QED BY <1>4, <1>5, <1>6, <1>7, LeavesQuiet DEF q

(* Neither is a token kept, nor a call made, while the peer is asked.      *)
LEMMA Unasked ==
    ASSUME IInv, Quiet, active # 0
    PROVE  /\ slot[active].token \/ slot[active].expiry \/ slot[active].call # "none" =>
                 slot[active].peer # "pending"
           /\ slot[active].state # "connected" => slot[active].call # "running"
BY Found DEF Attempting, BeingClosed

LEMMA RejectStep ==
    ASSUME IInv, NEW s \in Slots, RejectOAuth(s) PROVE IInv' /\ NeverBack
<1> DEFINE r == [slot[s] EXCEPT !.token = FALSE, !.expiry = FALSE, !.state = "closing"]
<1>1. /\ Quiet /\ active = s /\ active # 0 /\ slot[s].token
      /\ slot[s].state = "authorizing"
      /\ slot' = [slot EXCEPT ![active] = ClosingClient(r, "rejected")]
      /\ UNCHANGED <<active, opened, retained, failed, jobs>>
  BY DEF RejectOAuth, Is, Becomes, Slots
<1>2. slot[s] \in Slot /\ slot[s].peer # "pending" /\ slot[s].call # "running"
  BY <1>1, Unasked, Known
<1>3. /\ r \in Slot /\ r.state = "closing" /\ r.owner = slot[s].owner
      /\ r.closer = slot[s].closer /\ r.waiters = slot[s].waiters
      /\ r.connection = slot[s].connection /\ r.authorization = slot[s].authorization
      /\ r.peer = slot[s].peer /\ r.call = slot[s].call
  BY <1>2 DEF Slot, States
<1> HIDE DEF r
<1> QED BY <1>1, <1>2, <1>3, CloseQuietly DEF Clearing, Waits

LEMMA ExpireStep ==
    ASSUME IInv, NEW s \in Slots, Expire(s) PROVE IInv' /\ NeverBack
<1> DEFINE r == [slot[s] EXCEPT !.expiry = FALSE]
           q == [r EXCEPT !.token = FALSE, !.state = "closing"]
<1>1. Quiet /\ slot[s].expiry /\ UNCHANGED <<active, opened, retained, failed, jobs>>
  BY DEF Expire
<1>2. active = s /\ active # 0
  BY <1>1, Known, NothingRuns DEF Slots
<1>3. slot[s] \in Slot /\ slot[s].peer # "pending"
  BY <1>1, <1>2, Unasked, Known
<1>4. /\ r \in Slot /\ r.state = slot[s].state /\ r.owner = slot[s].owner
      /\ r.closer = slot[s].closer /\ r.waiters = slot[s].waiters
      /\ r.connection = slot[s].connection /\ r.authorization = slot[s].authorization
      /\ r.peer = slot[s].peer /\ r.call = slot[s].call /\ r.asked = slot[s].asked
      /\ r.oauth = slot[s].oauth
  BY <1>3 DEF Slot
<1>5. CASE slot[s].state = "authorizing"
  <2>1. slot' = [slot EXCEPT ![active] = ClosingClient(q, "expiring")]
    BY <1>2, <1>5 DEF Expire, Is, Becomes
  <2>2. /\ q \in Slot /\ q.state = "closing" /\ q.owner = r.owner
        /\ q.closer = r.closer /\ q.waiters = r.waiters
        /\ q.connection = r.connection /\ q.authorization = r.authorization
        /\ q.peer = r.peer /\ q.call = r.call
    BY <1>4 DEF Slot, States
  <2>3. slot[s].call # "running"
    BY <1>1, <1>2, <1>5, Unasked
  <2> HIDE DEF r, q
  <2> QED BY <1>1, <1>2, <1>3, <1>4, <2>1, <2>2, <2>3, CloseQuietly DEF Clearing, Waits
<1>6. CASE slot[s].state # "authorizing"
  <2>1. slot' = [slot EXCEPT ![active] = r]
    BY <1>2, <1>6 DEF Expire, Is, Becomes
  <2> HIDE DEF r
  <2>2. NothingOffered(r) /\ (Attempting(r) \/ BeingClosed(r))
    BY <1>1, <1>2, <1>3, <1>4, Found
    DEF NothingOffered, Attempting, BeingClosed, GivenBack
  <2>3. Onward(slot[active], r)
    BY <1>2, <1>3, <1>4, OnwardWhen
  <2> QED BY <1>1, <1>2, <1>4, <2>1, <2>2, <2>3, LeavesQuiet
<1> QED BY <1>5, <1>6

(* The peer answers, or its deadline passes.                               *)

LEMMA OfferFields ==
    ASSUME NEW r \in Slot, NEW ok \in BOOLEAN
    PROVE  LET q == Offer(r, ok) IN
           /\ q \in Slot
           /\ q.state = r.state /\ q.owner = r.owner /\ q.oauth = r.oauth
           /\ q.asked = r.asked /\ q.peer = r.peer /\ q.call = r.call
           /\ q.closer = r.closer /\ q.waiters = r.waiters
           /\ q.token = r.token /\ q.expiry = r.expiry
           /\ q.connection = r.connection
              \/ (q.connection = "offered" /\ r.asked = "initialize")
           /\ q.authorization = r.authorization
              \/ (q.authorization = "offered" /\ r.asked = "authorize")
<1>1. CASE ok /\ r.asked = "authorize"
  <2>1. Offer(r, ok) = [r EXCEPT !.authorization = "offered"]
    BY <1>1 DEF Offer
  <2> QED BY <1>1, <2>1 DEF Slot, Resource
<1>2. CASE ok /\ r.asked = "initialize"
  <2>1. Offer(r, ok) = [r EXCEPT !.connection = "offered"]
    BY <1>2 DEF Offer
  <2> QED BY <1>2, <2>1 DEF Slot, Resource
<1>3. CASE r.asked = "catalog"
  <2>1. Offer(r, ok) = [r EXCEPT !.records = TRUE]
    BY <1>3 DEF Offer
  <2> QED BY <1>3, <2>1 DEF Slot
<1>4. CASE ~(ok /\ r.asked \in {"authorize", "initialize"}) /\ r.asked # "catalog"
  <2>1. Offer(r, ok) = r
    BY <1>4 DEF Offer
  <2> QED BY <2>1
<1> QED BY <1>1, <1>2, <1>3, <1>4

(* The answer, good or bad, or the deadline, is queued.                    *)
LEMMA AnswerStep ==
    ASSUME IInv, Quiet, NEW s \in Slots, slot[s].peer = "pending",
           NEW r \in Slot, NEW ok \in BOOLEAN, r.peer \in {"idle", "late"},
           r.state = slot[s].state, r.owner = slot[s].owner, r.oauth = slot[s].oauth,
           r.asked = slot[s].asked, r.call = slot[s].call, r.closer = slot[s].closer,
           r.waiters = slot[s].waiters, r.token = slot[s].token,
           r.expiry = slot[s].expiry,
           r.connection \in {slot[s].connection, "offered"},
           r.connection # slot[s].connection => r.asked = "initialize",
           r.authorization \in {slot[s].authorization, "offered"},
           r.authorization # slot[s].authorization => r.asked = "authorize",
           slot' = [slot EXCEPT ![s] = r],
           Post(<<Job(slot[s].asked, s, ok)>>),
           UNCHANGED <<active, opened, retained, failed>>
    PROVE  IInv' /\ NeverBack
<1>1. active = s /\ active # 0
  BY Known, NothingRuns DEF Slots
<1>2. /\ slot[s] \in Slot /\ NothingOffered(slot[s]) /\ Attempting(slot[s])
  BY <1>1, Found DEF BeingClosed
<1>3. r.asked \in {"authorize", "initialize", "catalog"} /\ r.asked \in Continuations
  BY <1>2, SlotFields DEF Attempting, Operations, Continuations
<1>4. jobs' = <<Job(r.asked, s, ok)>> /\ QueuedFor(s, jobs')
  BY <1>3, OneQueued DEF Post, Quiet
<1>5. Attempting(r) /\ ~r.token /\ ~r.expiry /\ r.call = "none"
  BY <1>2 DEF Attempting
<1>6. Answered(r, s, jobs')
  BY <1>2, <1>3, <1>4, <1>5 DEF Answered, NothingOffered
<1>7. Onward(slot[s], r)
  BY <1>2, OnwardWhen
<1>8. r.closer \notin {"closed", "failed"}
  BY <1>5 DEF Attempting
<1> QED BY <1>1, <1>4, <1>6, <1>7, <1>8, ActiveStep DEF Current

LEMMA PeerStep ==
    ASSUME IInv, NEW s \in Slots, NEW ok \in BOOLEAN, PeerAnswers(s, ok)
    PROVE  IInv' /\ NeverBack
<1> DEFINE p == [slot[s] EXCEPT !.peer = "idle"]
           r == Offer(p, ok)
           q == [r EXCEPT !.connection = LateClosed(@), !.authorization = LateClosed(@)]
<1>1. /\ Quiet /\ slot[s].peer # "idle" /\ UNCHANGED <<active, opened, retained, failed>>
      /\ slot[s] \in Slot
  BY Known DEF PeerAnswers
<1>2. /\ p \in Slot /\ p.state = slot[s].state /\ p.owner = slot[s].owner
      /\ p.oauth = slot[s].oauth /\ p.asked = slot[s].asked /\ p.peer = "idle"
      /\ p.call = slot[s].call /\ p.closer = slot[s].closer
      /\ p.waiters = slot[s].waiters /\ p.token = slot[s].token
      /\ p.expiry = slot[s].expiry /\ p.connection = slot[s].connection
      /\ p.authorization = slot[s].authorization
  BY <1>1 DEF Slot
<1>3. CASE slot[s].peer = "pending"
  <2>1. slot' = [slot EXCEPT ![s] = r] /\ Post(<<Job(r.asked, s, ok)>>)
    BY <1>3 DEF PeerAnswers, Becomes
  <2> HIDE DEF p
  <2>2. /\ r \in Slot
        /\ r.state = p.state /\ r.owner = p.owner /\ r.oauth = p.oauth
        /\ r.asked = p.asked /\ r.peer = p.peer /\ r.call = p.call
        /\ r.closer = p.closer /\ r.waiters = p.waiters
        /\ r.token = p.token /\ r.expiry = p.expiry
        /\ r.connection = p.connection
           \/ (r.connection = "offered" /\ p.asked = "initialize")
        /\ r.authorization = p.authorization
           \/ (r.authorization = "offered" /\ p.asked = "authorize")
    BY <1>2, OfferFields
  <2> HIDE DEF r
  <2> QED BY <1>1, <1>2, <1>3, <2>1, <2>2, AnswerStep
<1>4. CASE slot[s].peer # "pending"
  <2>1. slot' = [slot EXCEPT ![s] = q] /\ jobs' = jobs
    BY <1>4 DEF PeerAnswers, Becomes
  <2> HIDE DEF p
  <2>2. /\ r \in Slot
        /\ r.state = p.state /\ r.owner = p.owner /\ r.oauth = p.oauth
        /\ r.asked = p.asked /\ r.peer = p.peer /\ r.call = p.call
        /\ r.closer = p.closer /\ r.waiters = p.waiters
        /\ r.token = p.token /\ r.expiry = p.expiry
        /\ r.connection \in {p.connection, "offered"}
        /\ r.authorization \in {p.authorization, "offered"}
    BY <1>2, OfferFields
  <2> HIDE DEF r
  <2>3. \A x \in Resource :
           /\ LateClosed(x) \in Resource /\ LateClosed(x) # "offered"
           /\ x # "offered" => LateClosed(x) = x
           /\ x = "offered" => LateClosed(x) = "closed"
    BY DEF LateClosed, Resource
  <2>4. /\ q \in Slot
        /\ q.state = r.state /\ q.owner = r.owner /\ q.oauth = r.oauth
        /\ q.asked = r.asked /\ q.peer = r.peer /\ q.call = r.call
        /\ q.closer = r.closer /\ q.waiters = r.waiters
        /\ q.token = r.token /\ q.expiry = r.expiry
        /\ q.connection = LateClosed(r.connection)
        /\ q.authorization = LateClosed(r.authorization)
    BY <2>2, <2>3 DEF Slot
  <2> HIDE DEF q
  <2>5. /\ NothingOffered(q)
        /\ q.connection \in {slot[s].connection, "closed"}
        /\ q.authorization \in {slot[s].authorization, "closed"}
    BY <1>2, <2>2, <2>3, <2>4, SlotFields DEF NothingOffered
  <2>6. CASE active = s
    <3>1. active # 0
      BY <2>6 DEF Slots
    <3>2. Attempting(q) \/ BeingClosed(q)
      BY <1>1, <1>2, <1>4, <2>2, <2>4, <2>5, <2>6, <3>1, Found
      DEF Attempting, BeingClosed, GivenBack
    <3>3. Onward(slot[active], q) /\ q.owner = slot[active].owner
      BY <1>1, <1>2, <2>2, <2>4, <2>6, OnwardWhen
    <3> QED BY <1>1, <2>1, <2>4, <2>5, <2>6, <3>1, <3>2, <3>3, LeavesQuiet
  <2>7. CASE active # s
    <3>1. Over(slot[s])
      BY <1>1, <2>7, Known, UnusedFields
    <3>2. Over(q)
      BY <1>2, <2>2, <2>4, <2>5, <3>1 DEF Over, GivenBack
    <3>3. /\ q.state = slot[s].state /\ q.owner = slot[s].owner
          /\ q.waiters = slot[s].waiters
      BY <1>2, <2>2, <2>4
    <3> QED BY <1>1, <2>1, <2>4, <2>7, <3>1, <3>2, <3>3, OverStep
  <2> QED BY <2>6, <2>7
<1> QED BY <1>3, <1>4

LEMMA DeadlineStep ==
    ASSUME IInv, NEW s \in Slots, Deadline(s) PROVE IInv' /\ NeverBack
<1> DEFINE r == [slot[s] EXCEPT !.peer = "late"]
<1>1. /\ Quiet /\ slot[s].peer = "pending" /\ UNCHANGED <<active, opened, retained, failed>>
      /\ slot' = [slot EXCEPT ![s] = r] /\ Post(<<Job(slot[s].asked, s, FALSE)>>)
      /\ slot[s] \in Slot
  BY Known DEF Deadline, Becomes
<1>2. /\ r \in Slot /\ r.peer = "late"
      /\ r.state = slot[s].state /\ r.owner = slot[s].owner /\ r.oauth = slot[s].oauth
      /\ r.asked = slot[s].asked /\ r.call = slot[s].call
      /\ r.closer = slot[s].closer /\ r.waiters = slot[s].waiters
      /\ r.token = slot[s].token /\ r.expiry = slot[s].expiry
      /\ r.connection = slot[s].connection /\ r.authorization = slot[s].authorization
  BY <1>1 DEF Slot
<1> HIDE DEF r
<1> QED BY <1>1, <1>2, AnswerStep

-----------------------------------------------------------------------------
(* Calls.                                                                  *)

LEMMA CallStep ==
    ASSUME IInv, NEW owner \in Owners, Call(owner) PROVE IInv' /\ NeverBack
<1> DEFINE r == [slot[active] EXCEPT !.call = "running"]
<1>1. /\ Quiet /\ active # 0 /\ slot[active].state = "connected"
      /\ slot[active].connection = "held" /\ slot' = [slot EXCEPT ![active] = r]
      /\ UNCHANGED <<active, opened, retained, failed, jobs>>
  BY DEF Call, Becomes
<1>2. slot[active] \in Slot /\ NothingOffered(slot[active]) /\ Attempting(slot[active])
  BY <1>1, Found DEF BeingClosed, GivenBack
<1>3. /\ r \in Slot /\ r.call = "running" /\ r.peer = slot[active].peer
      /\ r.state = slot[active].state /\ r.owner = slot[active].owner
      /\ r.oauth = slot[active].oauth /\ r.asked = slot[active].asked
      /\ r.closer = slot[active].closer
      /\ r.connection = slot[active].connection
      /\ r.authorization = slot[active].authorization
  BY <1>2 DEF Slot
<1> HIDE DEF r
<1>4. NothingOffered(r) /\ Attempting(r)
  BY <1>1, <1>2, <1>3 DEF NothingOffered, Attempting
<1>5. Onward(slot[active], r)
  BY <1>2, <1>3, OnwardWhen
<1> QED BY <1>1, <1>3, <1>4, <1>5, LeavesQuiet

LEMMA CallEndsStep ==
    ASSUME IInv, NEW s \in Slots, NEW ok \in BOOLEAN, CallEnds(s, ok)
    PROVE  IInv' /\ NeverBack
<1> DEFINE r == [slot[s] EXCEPT !.call = "ended"]
<1>1. /\ Quiet /\ slot[s].call = "running" /\ slot' = [slot EXCEPT ![s] = r]
      /\ Post(<<Job("call", s, ok)>>) /\ UNCHANGED <<active, opened, retained, failed>>
  BY DEF CallEnds, Becomes
<1>2. active = s /\ active # 0
  BY <1>1, Known, NothingRuns DEF Slots
<1>3. slot[s] \in Slot /\ NothingOffered(slot[s]) /\ Attempting(slot[s])
  BY <1>1, <1>2, Found DEF BeingClosed
<1>4. /\ r \in Slot /\ r.call = "ended" /\ r.peer = slot[s].peer
      /\ r.state = slot[s].state /\ r.owner = slot[s].owner
      /\ r.oauth = slot[s].oauth /\ r.asked = slot[s].asked
      /\ r.closer = slot[s].closer
      /\ r.connection = slot[s].connection /\ r.authorization = slot[s].authorization
  BY <1>3 DEF Slot
<1> HIDE DEF r
<1>5. jobs' = <<Job("call", s, ok)>> /\ QueuedFor(s, jobs')
  BY <1>1, OneQueued DEF Post, Quiet, Continuations
<1>6. NothingOffered(r) /\ Attempting(r)
  BY <1>1, <1>3, <1>4 DEF NothingOffered, Attempting
<1>7. Ended(r, s, jobs')
  BY <1>4, <1>5, <1>6 DEF Ended
<1>8. Onward(slot[s], r)
  BY <1>3, <1>4, OnwardWhen
<1>9. r.closer \notin {"closed", "failed"}
  BY <1>6 DEF Attempting
<1> QED BY <1>1, <1>2, <1>4, <1>5, <1>7, <1>8, <1>9, ActiveStep DEF Current

-----------------------------------------------------------------------------
(* disconnect and close().                                                 *)

(* A close begins: what is awaited is rejected, all of it in one microtask.*)
LEMMA BeginStep ==
    ASSUME IInv, Quiet, active # 0, NEW shutdown \in BOOLEAN,
           BeginClose(active, shutdown), UNCHANGED <<active, opened, retained, failed>>
    PROVE  IInv' /\ NeverBack
<1> DEFINE r == slot[active]
           a == [r EXCEPT !.shutdown = @ \/ shutdown]
           b == Aborted(a)
           c == [b EXCEPT !.closing = TRUE, !.state = "closing"]
           q == ClosingClient(c, "disconnect")
<1>1. /\ NothingOffered(r) /\ r \in Slot /\ active \in Slots
      /\ Attempting(r) \/ BeingClosed(r)
  BY Found
<1>2. /\ a \in Slot /\ a.state = r.state /\ a.owner = r.owner /\ a.oauth = r.oauth
      /\ a.asked = r.asked /\ a.peer = r.peer /\ a.call = r.call
      /\ a.connection = r.connection /\ a.authorization = r.authorization
      /\ a.token = r.token /\ a.expiry = r.expiry
      /\ a.closer = r.closer /\ a.waiters = r.waiters /\ a.closing = r.closing
  BY <1>1 DEF Slot
<1>3. CASE r.closing
  <2>1. slot' = [slot EXCEPT ![active] = a] /\ jobs' = jobs
    BY <1>2, <1>3 DEF BeginClose, Becomes
  <2> HIDE DEF a
  <2>2. NothingOffered(a) /\ (Attempting(a) \/ BeingClosed(a))
    BY <1>1, <1>2 DEF NothingOffered, Attempting, BeingClosed, GivenBack
  <2>3. Onward(r, a)
    BY <1>1, <1>2, OnwardWhen
  <2> QED BY <1>2, <2>1, <2>2, <2>3, LeavesQuiet
<1>4. CASE ~r.closing
  <2>1. slot' = [slot EXCEPT ![active] = q] /\ Post(AbortJobs(active))
    BY <1>2, <1>4 DEF BeginClose, Becomes
  <2> HIDE DEF a
  <2>2. /\ b \in Slot /\ b.peer # "pending" /\ b.call # "running"
        /\ r.call = "running" => b.call = "ended"
        /\ r.call = "none" => b.call = "none"
        /\ b.owner = r.owner /\ b.asked = r.asked
        /\ b.connection = r.connection /\ b.authorization = r.authorization
        /\ b.closer = r.closer /\ b.waiters = r.waiters
    BY <1>2 DEF Slot, Aborted
  <2> HIDE DEF b
  <2>3. /\ c \in Slot /\ c.state = "closing" /\ c.peer = b.peer /\ c.call = b.call
        /\ c.owner = b.owner /\ c.asked = b.asked
        /\ c.connection = b.connection /\ c.authorization = b.authorization
        /\ c.closer = b.closer /\ c.waiters = b.waiters
    BY <2>2 DEF Slot, States
  <2> HIDE DEF c
  <2>4. /\ NothingOffered(c)
        /\ \/ c.closer = "none"
           \/ /\ c.closer = "pending" /\ GivenBack(c)
              /\ Awaiting(c.waiters) \subseteq Waits
    BY <1>1, <2>2, <2>3 DEF NothingOffered, Attempting, BeingClosed, GivenBack
  <2>5. "disconnect" \in Clearing \cap Waits /\ "disconnect" \in Continuations
    BY DEF Clearing, Waits, Continuations
  <2>6. q \in Slot /\ BeingClosed(q)
    BY <2>2, <2>3, <2>4, <2>5, ClosingClientCloses
  <2>7. q.state = "closing" /\ q.owner = r.owner /\ q.call = b.call /\ q.asked = r.asked
    BY <2>2, <2>3, <2>5, ClosingClientFields
  <2> HIDE DEF q
  <2>8. NothingOffered(q) /\ q.peer # "pending" /\ q.closer \notin {"closed", "failed"}
    BY <2>6 DEF BeingClosed, GivenBack, NothingOffered
  <2>9. Onward(r, q)
    BY <1>1, <2>7, OnwardWhen
  <2>10. QueuedFor(active, jobs') /\ Current(q, active, jobs')
    <3>1. CASE r.peer = "pending"
      <4>1. r.asked # "none" /\ r.call = "none" /\ r.asked \in Continuations
        BY <1>1, <3>1, SlotFields DEF Attempting, BeingClosed, Operations, Continuations
      <4>2. <<Job(r.asked, active, FALSE)>> \o <<>> = <<Job(r.asked, active, FALSE)>>
        BY <1>1, <4>1, OneQueued, ConcatEmptySeq DEF QueuedFor
      <4>3. /\ jobs' = <<Job(r.asked, active, FALSE)>> /\ QueuedFor(active, jobs')
        BY <1>1, <2>1, <3>1, <4>1, <4>2, OneQueued DEF Post, AbortJobs, Quiet
      <4>4. Answered(q, active, jobs')
        BY <2>2, <2>6, <2>7, <2>8, <4>1, <4>3 DEF Answered, NothingOffered
      <4> QED BY <4>3, <4>4 DEF Current
    <3>2. CASE r.peer # "pending" /\ r.call = "running"
      <4>1. <<>> \o <<Job("call", active, FALSE)>> = <<Job("call", active, FALSE)>>
        BY <1>1, OneQueued DEF Continuations
      <4>2. /\ jobs' = <<Job("call", active, FALSE)>> /\ QueuedFor(active, jobs')
        BY <1>1, <2>1, <3>2, <4>1, OneQueued DEF Post, AbortJobs, Quiet, Continuations
      <4>3. Ended(q, active, jobs')
        BY <2>2, <2>6, <2>7, <2>8, <3>2, <4>2 DEF Ended
      <4> QED BY <4>2, <4>3 DEF Current
    <3>3. CASE r.peer # "pending" /\ r.call # "running"
      <4>1. <<>> \o <<>> = <<>>
        BY ConcatEmptySeq, EmptySeq
      <4>2. jobs' = <<>>
        BY <2>1, <3>3, <4>1 DEF Post, AbortJobs, Quiet
      <4>3. Undecided(q, jobs')
        BY <2>6, <2>8, <4>2 DEF Undecided
      <4> QED BY <1>1, <4>2, <4>3, NoneQueued DEF Current
    <3> QED BY <3>1, <3>2, <3>3
  <2> QED BY <2>1, <2>6, <2>7, <2>8, <2>9, <2>10, ActiveStep
<1> QED BY <1>3, <1>4

LEMMA DisconnectStep ==
    ASSUME IInv, NEW owner \in Owners, Disconnect(owner) PROVE IInv' /\ NeverBack
BY BeginStep DEF Disconnect

LEMMA CloseStep == ASSUME IInv, Close PROVE IInv' /\ NeverBack
<1>1. CASE active = 0
  <2>1. /\ UNCHANGED <<slot, active, opened, jobs>> /\ jobs = <<>>
        /\ retained' = None /\ failed' = None
    BY <1>1 DEF Close, Quiet
  <2>2. QueuedFor(opened, jobs')
    BY <2>1, EmptySeq DEF QueuedFor
  <2>3. Queued(jobs') = {}
    BY <2>1, EmptySeq DEF Queued
  <2>4. {retained', failed'} \subseteq Remembered
    BY <2>1 DEF Remembered
  <2> QED BY <1>1, <2>1, <2>2, <2>3, <2>4, QueueStep
<1>2. CASE active # 0
  <2>1. Quiet /\ BeginClose(active, TRUE) /\ UNCHANGED <<active, opened, retained, failed>>
    BY <1>2 DEF Close
  <2> QED BY <1>2, <2>1, BeginStep
<1> QED BY <1>1, <1>2

(* Everybody who awaits the close of a client is told at once.             *)
LEMMA SettleStep ==
    ASSUME IInv, NEW s \in Slots, NEW ok \in BOOLEAN, CloseSettles(s, ok)
    PROVE  IInv' /\ NeverBack
<1> DEFINE settled == IF ok THEN "closed" ELSE "failed"
           q == [slot[s] EXCEPT !.closer = settled, !.waiters = <<>>]
           waiters == slot[s].waiters
           told == [i \in DOMAIN waiters |-> Job(waiters[i], s, ok)]
<1>1. /\ Quiet /\ slot[s].closer = "pending" /\ slot' = [slot EXCEPT ![s] = q]
      /\ Post(told) /\ UNCHANGED <<active, opened, retained, failed>>
  BY DEF CloseSettles, Becomes
<1>2. active = s /\ active # 0
  BY <1>1, Known, NothingRuns DEF Slots
<1>3. slot[s] \in Slot /\ BeingClosed(slot[s])
  BY <1>1, <1>2, Found DEF Attempting
<1>4. <<>> \in Seq(Continuations)
  OBVIOUS
<1>5. /\ q \in Slot /\ q.closer \in {"closed", "failed"} /\ q.waiters = <<>>
      /\ q.state = slot[s].state /\ q.owner = slot[s].owner /\ q.peer = slot[s].peer
      /\ q.call = slot[s].call
      /\ q.connection = slot[s].connection /\ q.authorization = slot[s].authorization
  BY <1>3, <1>4 DEF Slot
<1> HIDE DEF q
<1>6. /\ waiters \in Seq(Continuations) /\ Len(waiters) \in Nat
      /\ DOMAIN waiters = 1..Len(waiters)
      /\ \A k \in 1..Len(waiters) : waiters[k] \in Continuations
  BY <1>3, SlotFields, LenProperties, ElementOfSeq
<1> HIDE DEF waiters
<1>7. /\ told \in Seq(Jobs) /\ Len(told) = Len(waiters)
      /\ \A k \in 1..Len(waiters) : told[k].at = waiters[k] /\ told[k].s = s
  <2>1. \A k \in 1..Len(waiters) : Job(waiters[k], s, ok) \in Jobs
    BY <1>6 DEF Job, Jobs
  <2> QED BY <1>6, <2>1 DEF Job
<1> HIDE DEF told
<1>8. jobs' = told
  BY <1>1, <1>7, ConcatEmptySeq DEF Post, Quiet
<1>9. QueuedFor(s, jobs')
  BY <1>7, <1>8 DEF QueuedFor
<1>10. Queued(jobs') = Awaiting(waiters)
  BY <1>7, <1>8 DEF Queued, Awaiting
<1>11. Closed(q, jobs')
  BY <1>3, <1>5, <1>10 DEF Closed, BeingClosed, GivenBack, Ends, waiters
<1>12. Onward(slot[s], q)
  BY <1>3, <1>5, OnwardWhen
<1> QED BY <1>1, <1>2, <1>5, <1>9, <1>11, <1>12, ActiveStep DEF Current

-----------------------------------------------------------------------------
(* The first microtask runs.                                               *)

LEMMA AtHead ==
    ASSUME IInv, NEW at, Continue(at)
    PROVE  /\ jobs # <<>> /\ jobs \in Seq(Jobs) /\ Head(jobs) \in Jobs
           /\ Head(jobs).s = opened /\ opened # 0 /\ opened \in Slots
           /\ slot[opened] \in Slot
           /\ QueuedFor(opened, Tail(jobs))
           /\ Queued(jobs) = {at} \cup Queued(Tail(jobs))
           /\ active # 0 => active = opened /\ Current(slot[opened], opened, jobs)
<1>1. /\ jobs # <<>> /\ jobs \in Seq(Jobs) /\ Head(jobs).at = at /\ OneAtATime
  BY Known DEF Continue, Quiet
<1>2. 1 \in 1..Len(jobs)
  BY <1>1, EmptySeq, LenProperties
<1>3. Head(jobs) \in Jobs /\ Head(jobs).s = opened
  BY <1>1, <1>2, QueuedTail DEF OneAtATime
<1>4. opened \in Slots /\ opened # 0
  BY <1>3 DEF Jobs, Slots
<1>5. \A k \in 1..Len(Tail(jobs)) : k + 1 \in 1..Len(jobs)
  BY <1>1, QueuedTail
<1>6. QueuedFor(opened, Tail(jobs))
  BY <1>1, <1>5, QueuedTail DEF QueuedFor, OneAtATime
<1> QED BY <1>1, <1>3, <1>4, <1>6, QueuedTail, Known

LEMMA OneJob ==
    ASSUME NEW at, NEW s, NEW ok
    PROVE  LET queue == <<Job(at, s, ok)>> IN
           /\ queue # <<>> /\ Head(queue) = Job(at, s, ok) /\ Tail(queue) = <<>>
           /\ Head(queue).at = at /\ Head(queue).s = s /\ Head(queue).ok = ok
           /\ Queued(queue) = {at}
BY DEF Job, Queued

(* What the peer was asked for has an answer, or none in time.             *)
LEMMA AtAnswer ==
    ASSUME IInv, NEW at \in {"authorize", "initialize", "catalog"}, Continue(at)
    PROVE  LET r == slot[active] IN
           /\ active # 0 /\ active = Head(jobs).s /\ active \in Slots /\ r \in Slot
           /\ Head(jobs).ok \in BOOLEAN
           /\ Tail(jobs) = <<>>
           /\ r.asked = at /\ r.peer # "pending" /\ r.call = "none"
           /\ \/ Attempting(r) /\ ~r.token /\ ~r.expiry
              \/ BeingClosed(r) /\ ~Head(jobs).ok
           /\ r.connection = "offered" => r.asked = "initialize"
           /\ r.authorization = "offered" => r.asked = "authorize"
<1>1. at \in Queued(jobs) /\ at # "call" /\ at \notin Ends
  BY AtHead DEF Ends, Waits
<1>2. active # 0
  BY <1>1, Known DEF OneAtATime
<1>3. ~Closed(slot[active], jobs) /\ ~Undecided(slot[active], jobs)
  BY <1>1, AtHead DEF Closed, Undecided
<1>4. ~Ended(slot[active], active, jobs)
  BY <1>1, OneJob DEF Ended
<1>5. Answered(slot[active], active, jobs)
  BY <1>2, <1>3, <1>4, Known DEF Current
<1>6. PICK ok \in BOOLEAN :
          /\ jobs = <<Job(slot[active].asked, active, ok)>>
          /\ \/ Attempting(slot[active]) /\ ~slot[active].token /\ ~slot[active].expiry
             \/ BeingClosed(slot[active]) /\ ~ok
  BY <1>5 DEF Answered
<1>7. Tail(jobs) = <<>> /\ Head(jobs).ok = ok /\ Head(jobs).at = slot[active].asked
  BY <1>6, OneJob
<1> QED BY <1>2, <1>5, <1>6, <1>7, AtHead DEF Answered, Continue

LEMMA AtEnd ==
    ASSUME IInv, Continue("call")
    PROVE  LET r == slot[active] IN
           /\ active # 0 /\ active = Head(jobs).s /\ active \in Slots /\ r \in Slot
           /\ Tail(jobs) = <<>>
           /\ NothingOffered(r) /\ r.call = "ended"
           /\ Attempting(r) \/ BeingClosed(r)
<1>1. "call" \in Queued(jobs) /\ "call" \notin Ends
  BY AtHead DEF Ends, Waits
<1>2. active # 0
  BY <1>1, Known DEF OneAtATime
<1>3. ~Closed(slot[active], jobs) /\ ~Undecided(slot[active], jobs)
  BY <1>1, AtHead DEF Closed, Undecided
<1>4. ~Answered(slot[active], active, jobs)
  <2>1. slot[active].asked # "call"
    BY <1>2, Known, SlotFields DEF Operations
  <2> QED BY <1>1, <2>1, OneJob DEF Answered
<1>5. Ended(slot[active], active, jobs)
  BY <1>2, <1>3, <1>4, Known DEF Current
<1>6. Tail(jobs) = <<>>
  BY <1>5, OneJob DEF Ended
<1> QED BY <1>2, <1>5, <1>6, AtHead DEF Ended

LEMMA AtClosed ==
    ASSUME IInv, NEW at \in Ends, Continue(at)
    PROVE  /\ active = 0 \/ Closed(slot[opened], jobs)
           /\ Queued(Tail(jobs)) \subseteq Ends
<1>1. at \in Queued(jobs) /\ at \notin {"authorize", "initialize", "catalog", "call"}
  BY AtHead DEF Ends, Waits
<1>2. CASE active = 0
  BY <1>2, AtHead, Known DEF OneAtATime
<1>3. CASE active # 0
  <2> DEFINE r == slot[opened]
  <2>1. Current(r, opened, jobs) /\ r \in Slot
    BY <1>3, AtHead
  <2>2. r.asked = "none" \/ r.asked \in {"authorize", "initialize", "catalog"}
    BY <2>1, SlotFields DEF Operations
  <2> HIDE DEF r
  <2>3. ~Undecided(r, jobs) /\ ~Ended(r, opened, jobs) /\ ~Answered(r, opened, jobs)
    BY <1>1, <2>2, AtHead, OneJob DEF Undecided, Ended, Answered
  <2>4. Closed(r, jobs)
    BY <2>1, <2>3 DEF Current
  <2> QED BY <2>4, AtHead DEF Closed, r
<1> QED BY <1>2, <1>3

(* An answer was used, and nothing is queued.                              *)
LEMMA UsedStep ==
    ASSUME IInv, active # 0, NEW r \in Slot, slot' = [slot EXCEPT ![active] = r],
           UNCHANGED <<active, opened, retained, failed>>, jobs' = <<>>,
           NothingOffered(r), Attempting(r) \/ BeingClosed(r),
           r.owner = slot[active].owner, Onward(slot[active], r)
    PROVE  IInv' /\ NeverBack
<1>1. QueuedFor(active, jobs')
  BY Known, NoneQueued
<1>2. Current(r, active, jobs')
  BY DEF Current, Undecided
<1>3. r.closer \notin {"closed", "failed"}
  BY DEF Attempting, BeingClosed
<1> QED BY <1>1, <1>2, <1>3, ActiveStep

(* The attempt fails, or a session that closes is closed once more.        *)
LEMMA FailsStep ==
    ASSUME IInv, active # 0, NEW r \in Slot, Fails(active, r),
           UNCHANGED <<active, opened, retained, failed>>, jobs' = <<>>,
           r.state = slot[active].state, r.owner = slot[active].owner,
           r.closer = slot[active].closer, r.waiters = slot[active].waiters,
           r.peer # "pending", r.call # "running",
           \/ Attempting(slot[active])
           \/ /\ BeingClosed(slot[active]) /\ r.connection = slot[active].connection
              /\ r.authorization = slot[active].authorization
    PROVE  IInv' /\ NeverBack
<1> DEFINE a == [r EXCEPT !.connection = LateClosed(@), !.authorization = LateClosed(@)]
           q == ClosingClient(a, "failConnection")
<1>1. \A x \in Resource :
         /\ LateClosed(x) \in Resource /\ LateClosed(x) # "offered"
         /\ x # "offered" => LateClosed(x) = x
  BY DEF LateClosed, Resource
<1>2. /\ a \in Slot /\ a.state = r.state /\ a.owner = r.owner /\ a.closer = r.closer
      /\ a.waiters = r.waiters /\ a.peer = r.peer /\ a.call = r.call
      /\ a.connection = LateClosed(r.connection)
      /\ a.authorization = LateClosed(r.authorization)
  BY <1>1 DEF Slot
<1>3. slot' = [slot EXCEPT ![active] = q]
  BY DEF Fails, Becomes
<1> HIDE DEF a
<1>4. NothingOffered(a)
  BY <1>1, <1>2, SlotFields DEF NothingOffered
<1>5. \/ a.closer = "none" /\ a.state # "closing"
      \/ /\ a.closer = "pending" /\ GivenBack(a)
         /\ Awaiting(a.waiters) \subseteq Waits
         /\ ClearedBy(a.state, Awaiting(a.waiters))
  <2>1. CASE Attempting(slot[active])
    BY <1>2, <2>1 DEF Attempting
  <2>2. CASE /\ BeingClosed(slot[active]) /\ r.connection = slot[active].connection
             /\ r.authorization = slot[active].authorization
    <3>1. GivenBack(a)
      BY <1>1, <1>2, <2>2, SlotFields DEF BeingClosed, GivenBack
    <3> QED BY <1>2, <2>2, <3>1 DEF BeingClosed
  <2> QED BY <2>1, <2>2
<1>6. "failConnection" \in Waits /\ "failConnection" \in Continuations
  BY DEF Waits, Continuations
<1>7. q \in Slot /\ BeingClosed(q)
  BY <1>2, <1>4, <1>5, <1>6, ClosingClientCloses
<1>8. q.state = slot[active].state /\ q.owner = slot[active].owner
  BY <1>2, <1>6, ClosingClientFields
<1> HIDE DEF q
<1>9. NothingOffered(q)
  BY <1>7 DEF BeingClosed, GivenBack, NothingOffered
<1>10. Onward(slot[active], q)
  BY <1>8, Known, OnwardWhen
<1> QED BY <1>3, <1>7, <1>8, <1>9, <1>10, UsedStep

LEMMA AuthorizeStep ==
    ASSUME IInv, Continues("authorize", Authorized) PROVE IInv' /\ NeverBack
<1> DEFINE r == slot[active]
           ok == Head(jobs).ok
           q == [r EXCEPT !.authorization = "held", !.token = TRUE,
                          !.state = "authorizing", !.expiry = TRUE]
<1>1. /\ Continue("authorize") /\ Authorized(Head(jobs).s, ok)
      /\ UNCHANGED <<active, opened, retained, failed>> /\ jobs' = Tail(jobs)
  BY DEF Continues
<1>2. /\ active # 0 /\ active = Head(jobs).s /\ active \in Slots /\ r \in Slot
      /\ jobs' = <<>>
      /\ r.asked = "authorize" /\ r.peer # "pending" /\ r.call = "none"
      /\ \/ Attempting(r) /\ ~r.token /\ ~r.expiry
         \/ BeingClosed(r) /\ ~ok
      /\ r.connection # "offered"
  BY <1>1, AtAnswer
<1>3. CASE ok /\ StillWanted(active)
  <2>1. slot' = [slot EXCEPT ![active] = q] /\ Attempting(r) /\ r.state = "connecting"
    BY <1>1, <1>2, <1>3 DEF Authorized, Becomes, StillWanted, Is
  <2>2. /\ q.state = "authorizing" /\ q.owner = r.owner
        /\ q.oauth = r.oauth /\ q.asked = r.asked /\ q.peer = r.peer /\ q.call = r.call
        /\ q.closer = r.closer /\ q.connection = r.connection
        /\ q.authorization = "held"
    BY <1>2 DEF Slot
  <2>5. q \in Slot
    <3>1. "held" \in Resource /\ "authorizing" \in States
      BY DEF Resource, States
    <3> QED BY <1>2, <3>1 DEF Slot
  <2> HIDE DEF q
  <2>3. NothingOffered(q) /\ Attempting(q)
    BY <1>2, <2>1, <2>2 DEF NothingOffered, Attempting
  <2>4. Onward(r, q)
    BY <2>1, <2>2, Ranks DEF Onward, Attempting
  <2> QED BY <1>1, <1>2, <2>1, <2>2, <2>3, <2>4, <2>5, UsedStep
<1>4. CASE ~(ok /\ StillWanted(active))
  <2>1. Fails(active, r)
    BY <1>1, <1>2, <1>4 DEF Authorized
  <2> QED BY <1>1, <1>2, <2>1, FailsStep
<1> QED BY <1>3, <1>4

LEMMA InitializeStep ==
    ASSUME IInv, Continues("initialize", Initialized) PROVE IInv' /\ NeverBack
<1> DEFINE r == slot[active]
           ok == Head(jobs).ok
           a == [r EXCEPT !.records = TRUE]
           q == [a EXCEPT !.connection = "held", !.asked = "catalog", !.peer = "pending"]
           b == [a EXCEPT !.connection = "held"]
<1>1. /\ Continue("initialize") /\ Initialized(Head(jobs).s, ok)
      /\ UNCHANGED <<active, opened, retained, failed>> /\ jobs' = Tail(jobs)
  BY DEF Continues
<1>2. /\ active # 0 /\ active = Head(jobs).s /\ active \in Slots /\ r \in Slot
      /\ jobs' = <<>>
      /\ r.asked = "initialize" /\ r.peer # "pending" /\ r.call = "none"
      /\ \/ Attempting(r) /\ ~r.token /\ ~r.expiry
         \/ BeingClosed(r) /\ ~ok
      /\ r.authorization # "offered"
  BY <1>1, AtAnswer
<1>3. /\ a \in Slot /\ a.state = r.state /\ a.owner = r.owner /\ a.oauth = r.oauth
      /\ a.asked = r.asked /\ a.peer = r.peer /\ a.call = r.call
      /\ a.closer = r.closer /\ a.waiters = r.waiters
      /\ a.token = r.token /\ a.expiry = r.expiry
      /\ a.connection = r.connection /\ a.authorization = r.authorization
  BY <1>2 DEF Slot
<1>4. \/ ok /\ StillWanted(active) /\ slot' = [slot EXCEPT ![active] = q]
      \/ ok /\ StillWanted(active) /\ Fails(active, b)
      \/ Fails(active, a)
  BY <1>1, <1>2 DEF Initialized, Becomes
<1> HIDE DEF a
<1>5. CASE ok /\ StillWanted(active) /\ slot' = [slot EXCEPT ![active] = q]
  <2>1. /\ Attempting(r) /\ ~r.token /\ ~r.expiry
        /\ r.state = IF r.oauth THEN "authorizing" ELSE "connecting"
    BY <1>2, <1>5 DEF StillWanted, Is
  <2>2. /\ q \in Slot /\ q.state = a.state /\ q.owner = a.owner
        /\ q.oauth = a.oauth /\ q.asked = "catalog" /\ q.peer = "pending"
        /\ q.call = a.call /\ q.closer = a.closer /\ q.token = a.token
        /\ q.expiry = a.expiry /\ q.connection = "held"
        /\ q.authorization = a.authorization
    BY <1>3 DEF Slot, Operations, Resource
  <2> HIDE DEF q
  <2>3. NothingOffered(q) /\ Attempting(q)
    BY <1>2, <1>3, <2>1, <2>2 DEF NothingOffered, Attempting
  <2>4. Onward(r, q) /\ q.owner = r.owner
    BY <1>2, <1>3, <2>2, OnwardWhen
  <2> QED BY <1>1, <1>2, <1>5, <2>2, <2>3, <2>4, UsedStep
<1>6. CASE ok /\ StillWanted(active) /\ Fails(active, b)
  <2>1. /\ b \in Slot /\ b.state = a.state /\ b.owner = a.owner /\ b.peer = a.peer
        /\ b.call = a.call /\ b.closer = a.closer /\ b.waiters = a.waiters
    BY <1>3 DEF Slot, Resource
  <2> HIDE DEF b
  <2> QED BY <1>1, <1>2, <1>3, <1>6, <2>1, FailsStep
<1>7. CASE Fails(active, a)
  BY <1>1, <1>2, <1>3, <1>7, FailsStep
<1> QED BY <1>4, <1>5, <1>6, <1>7

LEMMA CatalogStep ==
    ASSUME IInv, Continues("catalog", Cataloged) PROVE IInv' /\ NeverBack
<1> DEFINE r == slot[active]
           ok == Head(jobs).ok
           q == [r EXCEPT !.state = "connected"]
<1>1. /\ Continue("catalog") /\ Cataloged(Head(jobs).s, ok)
      /\ UNCHANGED <<active, opened, retained, failed>> /\ jobs' = Tail(jobs)
  BY DEF Continues
<1>2. /\ active # 0 /\ active = Head(jobs).s /\ active \in Slots /\ r \in Slot
      /\ jobs' = <<>>
      /\ r.asked = "catalog" /\ r.peer # "pending" /\ r.call = "none"
      /\ \/ Attempting(r) /\ ~r.token /\ ~r.expiry
         \/ BeingClosed(r) /\ ~ok
      /\ r.connection # "offered" /\ r.authorization # "offered"
  BY <1>1, AtAnswer
<1>3. CASE ok /\ StillWanted(active)
  <2>1. /\ slot' = [slot EXCEPT ![active] = q] /\ Attempting(r)
        /\ r.state \in {"authorizing", "connecting"}
    BY <1>1, <1>2, <1>3 DEF Cataloged, Becomes, StillWanted, Is
  <2>2. /\ q \in Slot /\ q.state = "connected" /\ q.owner = r.owner
        /\ q.oauth = r.oauth /\ q.asked = r.asked /\ q.peer = r.peer /\ q.call = r.call
        /\ q.closer = r.closer /\ q.connection = r.connection
        /\ q.authorization = r.authorization
    BY <1>2 DEF Slot, States
  <2> HIDE DEF q
  <2>3. NothingOffered(q) /\ Attempting(q)
    BY <1>2, <2>1, <2>2 DEF NothingOffered, Attempting
  <2>4. Onward(r, q)
    BY <2>1, <2>2, Ranks DEF Onward, Attempting
  <2> QED BY <1>1, <1>2, <2>1, <2>2, <2>3, <2>4, UsedStep
<1>4. CASE ~(ok /\ StillWanted(active))
  <2>1. Fails(active, r)
    BY <1>1, <1>2, <1>4 DEF Cataloged
  <2> QED BY <1>1, <1>2, <2>1, FailsStep
<1> QED BY <1>3, <1>4

LEMMA CalledStep ==
    ASSUME IInv, Continues("call", Called) PROVE IInv' /\ NeverBack
<1> DEFINE r == slot[active]
           ok == Head(jobs).ok
           a == [r EXCEPT !.records = TRUE]
           b == [a EXCEPT !.state = "closing"]
           c == [a EXCEPT !.call = "none"]
           q == ClosingClient(b, "callFailed")
<1>1. /\ Continue("call") /\ Called(Head(jobs).s, ok)
      /\ UNCHANGED <<active, opened, retained, failed>> /\ jobs' = Tail(jobs)
  BY DEF Continues
<1>2. /\ active # 0 /\ active = Head(jobs).s /\ active \in Slots /\ r \in Slot
      /\ jobs' = <<>>
      /\ NothingOffered(r) /\ r.call = "ended"
      /\ Attempting(r) \/ BeingClosed(r)
  BY <1>1, AtEnd
<1>3. /\ a \in Slot /\ a.state = r.state /\ a.owner = r.owner /\ a.oauth = r.oauth
      /\ a.asked = r.asked /\ a.peer = r.peer /\ a.call = r.call
      /\ a.closer = r.closer /\ a.waiters = r.waiters
      /\ a.token = r.token /\ a.expiry = r.expiry
      /\ a.connection = r.connection /\ a.authorization = r.authorization
  BY <1>2 DEF Slot
<1>4. \/ slot' = [slot EXCEPT ![active] = q]
      \/ slot' = [slot EXCEPT ![active] = c]
  BY <1>1, <1>2 DEF Called, Becomes
<1> HIDE DEF a
<1>5. CASE slot' = [slot EXCEPT ![active] = q]
  <2>1. /\ b \in Slot /\ b.state = "closing" /\ b.owner = a.owner /\ b.peer = a.peer
        /\ b.call = a.call /\ b.closer = a.closer /\ b.waiters = a.waiters
        /\ b.connection = a.connection /\ b.authorization = a.authorization
    BY <1>3 DEF Slot, States
  <2> HIDE DEF b
  <2>2. "callFailed" \in Clearing \cap Waits /\ "callFailed" \in Continuations
    BY DEF Clearing, Waits, Continuations
  <2>3. r.peer # "pending"
    BY <1>2 DEF Attempting, BeingClosed
  <2>4. NothingOffered(b)
    BY <1>2, <1>3, <2>1 DEF NothingOffered
  <2>5. \/ b.closer = "none"
        \/ /\ b.closer = "pending" /\ GivenBack(b)
           /\ Awaiting(b.waiters) \subseteq Waits
    BY <1>2, <1>3, <2>1 DEF Attempting, BeingClosed, GivenBack
  <2>6. q \in Slot /\ BeingClosed(q)
    BY <1>2, <1>3, <2>1, <2>2, <2>3, <2>4, <2>5, ClosingClientCloses
  <2>7. q.state = "closing" /\ q.owner = r.owner
    BY <1>3, <2>1, <2>2, ClosingClientFields
  <2> HIDE DEF q
  <2>8. NothingOffered(q)
    BY <2>6 DEF BeingClosed, GivenBack, NothingOffered
  <2>9. Onward(r, q)
    BY <1>2, <2>7, OnwardWhen
  <2> QED BY <1>1, <1>2, <1>5, <2>6, <2>7, <2>8, <2>9, UsedStep
<1>6. CASE slot' = [slot EXCEPT ![active] = c]
  <2>1. /\ c \in Slot /\ c.state = a.state /\ c.owner = a.owner /\ c.oauth = a.oauth
        /\ c.asked = a.asked /\ c.peer = a.peer /\ c.call = "none"
        /\ c.closer = a.closer /\ c.waiters = a.waiters
        /\ c.token = a.token /\ c.expiry = a.expiry
        /\ c.connection = a.connection /\ c.authorization = a.authorization
    BY <1>3 DEF Slot
  <2> HIDE DEF c
  <2>2. NothingOffered(c) /\ (Attempting(c) \/ BeingClosed(c))
    BY <1>2, <1>3, <2>1 DEF NothingOffered, Attempting, BeingClosed, GivenBack
  <2>3. Onward(r, c) /\ c.owner = r.owner
    BY <1>2, <1>3, <2>1, OnwardWhen
  <2> QED BY <1>1, <1>2, <1>6, <2>1, <2>2, <2>3, UsedStep
<1> QED BY <1>4, <1>5, <1>6

-----------------------------------------------------------------------------
(* A close has ended: whoever awaited it goes on.                          *)

LEMMA QueuedAppend ==
    ASSUME NEW s \in Slots, NEW queue, QueuedFor(s, queue),
           NEW j \in Jobs, j.s = s
    PROVE  /\ QueuedFor(s, Append(queue, j)) /\ Append(queue, j) = queue \o <<j>>
           /\ Queued(Append(queue, j)) = Queued(queue) \cup {j.at}
<1>1. /\ queue \in Seq(Jobs) /\ Len(queue) \in Nat
      /\ \A k \in 1..Len(queue) : queue[k].s = s
  BY LenProperties DEF QueuedFor
<1> DEFINE more == Append(queue, j)
<1>2. /\ more \in Seq(Jobs) /\ Len(more) = Len(queue) + 1
      /\ \A k \in 1..Len(queue) : more[k] = queue[k]
      /\ more[Len(queue) + 1] = j
  BY <1>1, AppendProperties
<1> HIDE DEF more
<1>3. QueuedFor(s, more)
  BY <1>1, <1>2 DEF QueuedFor
<1>4. Queued(more) = Queued(queue) \cup {j.at}
  BY <1>1, <1>2 DEF Queued
<1>5. more = queue \o <<j>>
  BY <1>1, AppendIsConcat DEF more
<1> QED BY <1>3, <1>4, <1>5 DEF more

(* Whoever clears the slot finds it open and closed, or clear already.     *)
LEMMA ClearsStep ==
    ASSUME IInv, NEW at \in Waits \cup {"expired"}, Continue(at),
           ClearSlot(Head(jobs).s, slot[Head(jobs).s]),
           jobs' = Tail(jobs), opened' = opened,
           failed' \in {None, slot[Head(jobs).s].owner, failed}
    PROVE  IInv' /\ NeverBack
<1>1. /\ Head(jobs).s = opened /\ opened # 0 /\ slot[opened] \in Slot
      /\ QueuedFor(opened, jobs')
  BY AtHead
<1>2. /\ active = 0 \/ Closed(slot[opened], jobs)
      /\ Queued(jobs') \subseteq Ends
  BY AtClosed DEF Ends
<1> QED BY <1>1, <1>2, ClearStep

(* What is queued goes on, and will clear the slot if that is still to do. *)
LEMMA GoesOnStep ==
    ASSUME IInv, NEW at \in Ends, Continue(at),
           UNCHANGED <<slot, active, opened>>, QueuedFor(opened, jobs'),
           Queued(jobs') \subseteq Ends,
           {retained', failed'} \subseteq {None, retained, failed},
           active # 0 => ClearedBy(slot[opened].state, Queued(jobs'))
    PROVE  IInv' /\ NeverBack
<1>1. /\ active # 0 => active = opened
      /\ active = 0 \/ Closed(slot[opened], jobs)
  BY AtHead, AtClosed
<1>2. {retained', failed'} \subseteq Remembered
  BY Known DEF Remembered
<1>3. active # 0 => retained' = None /\ failed' = None
  BY DEF IInv, OnlyTheLastSpeaks
<1>4. active # 0 => Closed(slot[opened], jobs')
  BY <1>1 DEF Closed
<1>5. active # 0 => Current(slot[active], active, jobs')
  BY <1>1, <1>4 DEF Current
<1> QED BY <1>2, <1>3, <1>5, QueueStep

LEMMA FailedStep ==
    ASSUME IInv, Continue("failConnection"), ConnectionFailed(Head(jobs).s),
           jobs' = Tail(jobs), opened' = opened
    PROVE  IInv' /\ NeverBack
<1>1. "failConnection" \in Ends /\ "failConnection" \in Waits
  BY DEF Ends, Waits
<1>2. /\ Head(jobs).s = opened /\ QueuedFor(opened, jobs')
      /\ Queued(jobs) = {"failConnection"} \cup Queued(jobs')
      /\ active # 0 => active = opened
  BY AtHead
<1>3. /\ active = 0 \/ Closed(slot[opened], jobs)
      /\ Queued(jobs') \subseteq Ends
  BY <1>1, AtClosed
<1>4. CASE active = opened /\ slot[opened].state # "closing"
  <2>1. /\ ClearSlot(Head(jobs).s, slot[Head(jobs).s])
        /\ failed' = slot[Head(jobs).s].owner
    BY <1>2, <1>4 DEF ConnectionFailed
  <2> QED BY <1>1, <2>1, ClearsStep
<1>5. CASE ~(active = opened /\ slot[opened].state # "closing")
  <2>1. UNCHANGED <<slot, active, retained, failed>>
    BY <1>2, <1>5 DEF ConnectionFailed
  <2>2. active # 0 => ClearedBy(slot[opened].state, Queued(jobs'))
    BY <1>2, <1>3, <1>5 DEF Closed, ClearedBy, Clearing
  <2> QED BY <1>1, <1>2, <1>3, <2>1, <2>2, GoesOnStep
<1> QED BY <1>4, <1>5

LEMMA ExpiringStep == ASSUME IInv, Expiring PROVE IInv' /\ NeverBack
<1> DEFINE j == [Head(jobs) EXCEPT !.at = "expired"]
<1>1. /\ Continue("expiring") /\ jobs' = Append(Tail(jobs), j)
      /\ UNCHANGED <<slot, active, opened, retained, failed>>
  BY DEF Expiring
<1>2. "expiring" \in Ends /\ "expired" \in Ends \cap Clearing \cap Continuations
  BY DEF Ends, Waits, Clearing, Continuations
<1>3. /\ Head(jobs) \in Jobs /\ Head(jobs).s = opened /\ opened \in Slots
      /\ QueuedFor(opened, Tail(jobs))
  BY <1>1, AtHead
<1>4. j \in Jobs /\ j.s = opened /\ j.at = "expired"
  BY <1>2, <1>3 DEF Jobs
<1> HIDE DEF j
<1>5. QueuedFor(opened, jobs') /\ Queued(jobs') = Queued(Tail(jobs)) \cup {"expired"}
  BY <1>1, <1>3, <1>4, QueuedAppend
<1>6. Queued(jobs') \subseteq Ends
  BY <1>1, <1>2, <1>5, AtClosed
<1>7. ClearedBy(slot[opened].state, Queued(jobs'))
  BY <1>2, <1>5 DEF ClearedBy
<1> QED BY <1>1, <1>2, <1>5, <1>6, <1>7, GoesOnStep

LEMMA DisconnectedStep ==
    ASSUME IInv, Continue("disconnect"), Disconnected(Head(jobs).s, Head(jobs).ok),
           opened' = opened
    PROVE  IInv' /\ NeverBack
<1> DEFINE r == [slot[opened] EXCEPT !.records = TRUE]
           j == Job("shutdown", opened, Head(jobs).ok)
<1>1. /\ Head(jobs) \in Jobs /\ Head(jobs).s = opened /\ opened # 0 /\ opened \in Slots
      /\ slot[opened] \in Slot /\ QueuedFor(opened, Tail(jobs))
  BY AtHead
<1>2. "disconnect" \in Ends
  BY DEF Ends, Waits
<1>3. /\ active = 0 \/ Closed(slot[opened], jobs)
      /\ Queued(Tail(jobs)) \subseteq Ends
  BY <1>2, AtClosed
<1>4. /\ ClearSlot(opened, r) /\ failed' = None
      /\ \/ jobs' = Tail(jobs) \o <<j>>
         \/ jobs' = Tail(jobs) \o <<>>
  BY <1>1 DEF Disconnected
<1>5. /\ r \in Slot /\ r.owner = slot[opened].owner /\ r.state = slot[opened].state
      /\ r.closer = slot[opened].closer /\ r.peer = slot[opened].peer
      /\ r.connection = slot[opened].connection
      /\ r.authorization = slot[opened].authorization
      /\ r.waiters = slot[opened].waiters
  BY <1>1 DEF Slot
<1> HIDE DEF r
<1>6. QueuedFor(opened, jobs') /\ Queued(jobs') \subseteq Ends
  <2>1. CASE jobs' = Tail(jobs) \o <<j>>
    <3>1. j \in Jobs /\ j.s = opened /\ j.at = "shutdown"
      BY <1>1 DEF Job, Jobs, Continuations
    <3> HIDE DEF j
    <3>2. /\ QueuedFor(opened, jobs')
          /\ Queued(jobs') = Queued(Tail(jobs)) \cup {"shutdown"}
      BY <1>1, <2>1, <3>1, QueuedAppend
    <3> QED BY <1>3, <3>2 DEF Ends
  <2>2. CASE jobs' = Tail(jobs) \o <<>>
    <3>1. jobs' = Tail(jobs)
      BY <1>1, <2>2, ConcatEmptySeq DEF QueuedFor
    <3> QED BY <1>1, <1>3, <3>1
  <2> QED BY <1>4, <2>1, <2>2
<1> QED BY <1>1, <1>3, <1>4, <1>5, <1>6, ClearStep

LEMMA ShutdownStep ==
    ASSUME IInv, Continue("shutdown"), retained' = None, jobs' = Tail(jobs),
           UNCHANGED <<slot, active, opened, failed>>
    PROVE  IInv' /\ NeverBack
<1>1. "shutdown" \in Ends /\ "shutdown" \notin Clearing /\ "shutdown" # "failConnection"
  BY DEF Ends, Clearing
<1>2. /\ QueuedFor(opened, jobs') /\ Queued(jobs) = {"shutdown"} \cup Queued(jobs')
  BY AtHead
<1>3. /\ active = 0 \/ Closed(slot[opened], jobs)
      /\ Queued(jobs') \subseteq Ends
  BY <1>1, AtClosed
<1>4. active # 0 => ClearedBy(slot[opened].state, Queued(jobs'))
  BY <1>1, <1>2, <1>3 DEF Closed, ClearedBy
<1> QED BY <1>1, <1>2, <1>3, <1>4, GoesOnStep

-----------------------------------------------------------------------------
LEMMA Initially == Init => IInv
<1> SUFFICES ASSUME Init PROVE IInv
  OBVIOUS
<1>1. /\ \A s \in Slots : slot[s] = Unused
      /\ active = 0 /\ opened = 0 /\ jobs = <<>> /\ retained = None /\ failed = None
  BY DEF Init
<1>2. TypeOK
  <2>1. slot \in [Slots -> Slot]
    BY UnusedFields DEF Init
  <2>2. jobs \in Seq([at : Continuations, s : Slots, ok : BOOLEAN])
    BY <1>1, EmptySeq
  <2>3. 0 \in 0..opened /\ 0 \in 0..MaxSlots
    BY <1>1, SessionAssumption
  <2> QED BY <1>1, <2>1, <2>2, <2>3, UnusedFields DEF TypeOK
<1>3. OneAtATime
  BY <1>1, EmptySeq DEF OneAtATime, Queued
<1>4. OnlyTheLastSpeaks
  BY <1>1 DEF OnlyTheLastSpeaks
<1> QED BY <1>2, <1>3, <1>4 DEF IInv

LEMMA JobStep == ASSUME IInv, RunJob PROVE IInv' /\ NeverBack
<1>1. ASSUME NEW at \in {"callFailed", "rejected", "expired"}, NEW kept \in BOOLEAN,
             Clears(at, kept)
      PROVE  IInv' /\ NeverBack
  <2>1. at \in Waits \cup {"expired"}
    BY DEF Waits
  <2> QED BY <1>1, <2>1, ClearsStep DEF Clears
<1> QED BY <1>1, AuthorizeStep, InitializeStep, CatalogStep, CalledStep, FailedStep,
           ExpiringStep, DisconnectedStep, ShutdownStep DEF RunJob

LEMMA Steps == ASSUME IInv, Next PROVE IInv' /\ NeverBack
<1>1. CASE RunJob
  BY <1>1, JobStep
<1>2. CASE \E owner \in Owners :
              \/ \E asked \in {"authorize", "initialize"} : Open(owner, asked)
              \/ Call(owner)
              \/ Disconnect(owner)
  BY <1>2, OpenStep, CallStep, DisconnectStep
<1>3. CASE Close
  BY <1>3, CloseStep
<1>4. CASE \E s \in Slots :
              \/ CompleteOAuth(s) \/ RejectOAuth(s) \/ Expire(s) \/ Deadline(s)
              \/ \E ok \in BOOLEAN :
                    PeerAnswers(s, ok) \/ CallEnds(s, ok) \/ CloseSettles(s, ok)
  BY <1>4, CompleteStep, RejectStep, ExpireStep, DeadlineStep, PeerStep, CallEndsStep,
     SettleStep
<1> QED BY <1>1, <1>2, <1>3, <1>4 DEF Next

LEMMA Stutters == ASSUME IInv, UNCHANGED vars PROVE IInv' /\ NeverBack
<1>1. IInv'
  BY DEF vars, IInv, TypeOK, OneAtATime, OnlyTheLastSpeaks
<1>2. NeverBack
  BY Known, NothingRuns, OnwardWhen DEF vars, NeverBack
<1> QED BY <1>1, <1>2

LEMMA Invariance == Spec => []IInv
<1>1. IInv /\ [Next]_vars => IInv'
  BY Steps, Stutters
<1> QED BY <1>1, Initially, PTL DEF Spec

-----------------------------------------------------------------------------
(* createAttachedSessionController: every slot, and every microtask that   *)
(* is queued, has its type, and nothing awaits a close that has settled.   *)
THEOREM SessionTypeCorrect == Spec => []TypeOK
<1>1. IInv => TypeOK
  BY DEF IInv
<1> QED BY <1>1, Invariance, PTL

(* runWithDeadline, closeClientOnce and clearSlot, for any number of       *)
(* attempts: between events, what the peer handed over is in the active    *)
(* slot, which nobody closes, or has been closed, and a slot is left only  *)
(* when its client has closed.                                             *)
THEOREM PeerIsLetGo == Spec => []NothingLeaks
<1>1. IInv => NothingLeaks
  <2> SUFFICES ASSUME IInv, Quiet, NEW s \in 1..opened
               PROVE  /\ "offered" \notin {slot[s].connection, slot[s].authorization}
                      /\ "held" \in {slot[s].connection, slot[s].authorization} =>
                            active = s /\ slot[s].closer = "none"
                      /\ active # s => slot[s].closer \in {"closed", "failed"}
    BY DEF NothingLeaks
  <2>1. s \in Slots /\ s # 0
    BY Known DEF Slots
  <2>2. CASE active = s
    BY <2>1, <2>2, Found DEF NothingOffered, Attempting, BeingClosed, GivenBack
  <2>3. CASE active # s
    BY <2>1, <2>3, Known DEF Over, GivenBack, OneAtATime
  <2> QED BY <2>2, <2>3
<1> QED BY <1>1, Invariance, PTL

(* clearSlot, which may run twice for a slot: what is retained, and why    *)
(* the last attempt failed, is of the last attempt and of none before it.  *)
THEOREM LastSpeaks == Spec => []OnlyTheLastSpeaks
<1>1. IInv => OnlyTheLastSpeaks
  BY DEF IInv
<1> QED BY <1>1, Invariance, PTL

(* Whatever answer, deadline or call is under way, a session that closes,  *)
(* or has failed, is never connected again, and takes no call.             *)
THEOREM SessionsNeverReturn == Spec => NeverReturns
<1>1. IInv /\ [Next]_vars => [NeverBack]_vars
  BY Steps
<1>2. NeverBack =>
        \A s \in Slots :
          /\ Rank[slot'[s].state] >= Rank[slot[s].state]
          /\ slot[s].closer # "none" => slot'[s].state \in {slot[s].state, "closing"}
          /\ s <= opened /\ active # s => active' # s /\ slot'[s].call # "running"
  BY DEF NeverBack, Onward
<1> QED BY <1>1, <1>2, Invariance, PTL DEF Spec, NeverReturns
=============================================================================
