---------------------------- MODULE McpRequestProofs -----------------------------
(***************************************************************************)
(* Proofs for every interval and any number of reports: the forwarder by   *)
(* itself, then the HTTP boundary around it, which lets its forwarder do   *)
(* nothing the forwarder would not do alone and bounds what piles up       *)
(* behind it.                                                              *)
(***************************************************************************)
EXTENDS McpRequest, SequenceTheorems, TLAPS

-----------------------------------------------------------------------------
(* ProgressForwarder.                                                      *)

(* TypeOK, but for the type of writing.                                    *)
Numbers ==
    /\ call \in {"running", "succeeded", "failed"}
    /\ since \in 0..Interval
    /\ held \in 0..MaxReports /\ latest \in 0..MaxReports /\ sent \in 0..MaxReports
    /\ timer \in 0..Interval \cup {None}
    /\ unwritten \in 0..2 /\ (~closed => unwritten <= 1)

(* While the call runs, a write is under way unless writing denies it; a   *)
(* held report has a timer, and the timer does not fire before a whole     *)
(* interval has passed since the last notification.                        *)
Throttled ==
    ~closed =>
        /\ ~writing => unwritten = 0
        /\ held # 0 => timer # None
        /\ timer # None => Interval <= since + timer

Stopped == closed => held = 0 /\ timer = None

IInv == Numbers /\ writing \in BOOLEAN /\ LatestKept /\ Throttled /\ Stopped

LEMMA Initially == Init => IInv
<1> USE ForwarderAssumption DEF Init, closed
<1>1. Init => writing \in BOOLEAN
    OBVIOUS
<1>2. Init => Numbers /\ LatestKept /\ Throttled /\ Stopped
    BY DEF Numbers, LatestKept, Throttled, Stopped
<1> QED BY <1>1, <1>2 DEF IInv

LEMMA StepKeepsBoolean == writing \in BOOLEAN /\ [Next]_vars => writing' \in BOOLEAN
BY DEF Next, Report, RetryRefused, RetrySends, Written, Succeeds, Fails, Tick, Deliver, vars

LEMMA Step == IInv /\ [Next]_vars => IInv'
<1> SUFFICES ASSUME IInv, [Next]_vars
             PROVE  Numbers' /\ LatestKept' /\ Throttled' /\ Stopped'
    BY StepKeepsBoolean DEF IInv
<1> USE ForwarderAssumption DEF IInv, Numbers, LatestKept, Throttled, Stopped, closed
<1>1. CASE Report
    <2>1. CASE /\ Wait = 0 /\ timer = None /\ HasCapacity
               /\ Deliver(latest')
               /\ UNCHANGED <<held, timer>>
        BY <1>1, <2>1 DEF Report, Deliver, HasCapacity
    <2>2. CASE /\ held' = latest'
               /\ RetryAfter(IF Wait > 0 THEN Wait ELSE Interval)
               /\ UNCHANGED <<writing, since, sent, unwritten>>
        BY <1>1, <2>2 DEF Report, RetryAfter, Wait
    <2> QED BY <1>1, <2>1, <2>2 DEF Report
<1>2. CASE RetryRefused
    BY <1>2 DEF RetryRefused, Due
<1>3. CASE RetrySends
    BY <1>3 DEF RetrySends, Due, HasCapacity, Deliver
<1>4. CASE Written
    BY <1>4 DEF Written
<1>5. CASE Succeeds
    BY <1>5 DEF Succeeds, Deliver, Close
<1>6. CASE Fails
    BY <1>6 DEF Fails, Close
<1>7. CASE Tick
    BY <1>7 DEF Tick
<1>8. CASE UNCHANGED vars
    BY <1>8 DEF vars
<1> QED BY <1>1, <1>2, <1>3, <1>4, <1>5, <1>6, <1>7, <1>8 DEF Next

LEMMA Invariance == Spec => []IInv
BY Initially, Step, PTL DEF Spec

(* What a stalled reader leaves behind is bounded.                         *)
THEOREM BacklogBounded == Spec => []TypeOK
<1>1. IInv => TypeOK BY DEF IInv, Numbers, TypeOK
<1> QED BY <1>1, Invariance, PTL

(* The newest report is handed over or held, and handed over before the    *)
(* call succeeds.                                                          *)
THEOREM LatestNeverLost == Spec => []LatestKept
<1>1. IInv => LatestKept BY DEF IInv
<1> QED BY <1>1, Invariance, PTL

(* Notifications are an interval apart, until finish.                      *)
THEOREM SendsAreSpaced == Spec => SpacedSends
<1>1. ASSUME IInv, [Next]_vars PROVE [sent' # sent => since = Interval \/ closed']_vars
    <2> USE ForwarderAssumption DEF IInv, Numbers, Throttled, closed, vars
    <2>1. CASE Report
        BY <1>1, <2>1 DEF Report, Wait
    <2>2. CASE RetrySends
        BY <1>1, <2>2 DEF RetrySends, Due
    <2>3. CASE Succeeds
        BY <2>3 DEF Succeeds, Close
    <2>4. CASE RetryRefused \/ Written \/ Fails \/ Tick
        BY <2>4 DEF RetryRefused, Written, Fails, Tick
    <2>5. CASE UNCHANGED vars
        BY <2>5
    <2> QED BY <1>1, <2>1, <2>2, <2>3, <2>4, <2>5 DEF Next
<1> QED BY <1>1, Invariance, PTL DEF Spec, SpacedSends

-----------------------------------------------------------------------------
(* McpRequest.                                                             *)

(* Nothing is queued before there is a stream, and only the relay takes    *)
(* what is queued.                                                         *)
Placed ==
    /\ chunks \in Seq(Nat) /\ relay \in Seq(Nat) /\ Len(relay) <= 1
    /\ source = "open" /\ streaming => stage = "dispatching" \/ Relaying
    /\ chunks # <<>> => stage = "dispatching" \/ Relaying
    /\ relay # <<>> => Relaying
    /\ source \notin {"open", "ended"} => chunks = <<>>
    /\ settled => chunks = <<>> /\ source \notin {"none", "open"}

(* Before the call there is no stream, and a call without a token reports  *)
(* nothing.                                                                *)
Started ==
    /\ stage \in {"authenticating", "reading"} => source = "none"
    /\ source = "none" => stage \in {"authenticating", "reading", "done"}
    /\ ~streaming => held = 0
    /\ source = "ended" => closed

(* A chunk that has not reached the relay was sent in this very tick:      *)
(* before the clock moves on, the relay has taken it.                      *)
Fresh == ~closed /\ chunks # <<>> /\ relay = <<>> => since # Interval

Capacity == IF ~closed THEN 1 ELSE IF source = "ended" THEN 3 ELSE 2

Fits == Len(chunks) + Len(relay) <= Capacity

BufferInv == Placed /\ Started /\ Fresh /\ Fits

-----------------------------------------------------------------------------
LEMMA InitIsInit == HttpInit => Init
BY DEF HttpInit

LEMMA StepIsStep == [HttpNext]_httpVars => [Next]_vars
<1> SUFFICES ASSUME HttpNext \/ UNCHANGED httpVars PROVE Next \/ UNCHANGED vars
    OBVIOUS
<1>1. CASE CallReports
    BY <1>1 DEF CallReports, Next
<1>2. CASE Retries
    BY <1>2 DEF Retries, Next
<1>3. CASE CallSucceeds \/ CallFails \/ SendSettles \/ TimePasses
    BY <1>3 DEF CallSucceeds, CallFails, SendSettles, TimePasses, Next
<1>4. CASE Refuse \/ Authenticate \/ BodyFails \/ Dispatch \/ StartRelay
    BY <1>4 DEF Refuse, Authenticate, BodyFails, Dispatch, StartRelay
<1>5. CASE AnswerStream \/ AnswerWhole \/ Pull \/ TakeChunk \/ EndStream
    BY <1>5 DEF AnswerStream, AnswerWhole, Pull, TakeChunk, EndStream
<1>6. CASE ClientReads \/ SourceBreaks \/ ConnectionCloses
    BY <1>6 DEF ClientReads, SourceBreaks, ConnectionCloses
<1>7. CASE UNCHANGED httpVars
    BY <1>7 DEF httpVars
<1> QED BY <1>1, <1>2, <1>3, <1>4, <1>5, <1>6, <1>7 DEF HttpNext

(* McpRequest implements ProgressForwarder: whatever the request, the      *)
(* client and the stream do, its notifications are those of a forwarder    *)
(* with some reader.                                                       *)
THEOREM RequestImplementsForwarder == HttpSpec => Spec
BY InitIsInit, StepIsStep, PTL DEF HttpSpec, Spec

(* And so the newest report is not lost on the way through the boundary,   *)
(* and notifications stay an interval apart.                               *)
COROLLARY RequestKeepsLatest == HttpSpec => []LatestKept /\ SpacedSends
BY RequestImplementsForwarder, LatestNeverLost, SendsAreSpaced, PTL

-----------------------------------------------------------------------------
LEMMA BufferInit == HttpInit => BufferInv
BY ForwarderAssumption
   DEF HttpInit, Init, BufferInv, Placed, Started, Fresh, Fits, Capacity, Relaying, closed

(* What is queued with a step of the forwarder.                            *)
LEMMA QueueGrows ==
    ASSUME Placed, Queues, sent' \in Nat
    PROVE  /\ chunks' \in Seq(Nat)
           /\ Len(chunks') <= Len(chunks) + 1
           /\ sent' = sent \/ source # "open" => chunks' = chunks
           /\ chunks' # chunks => source = "open" /\ sent' # sent
BY DEF Placed, Queues

LEMMA BufferStep ==
    ASSUME BufferInv, IInv, IInv', [HttpNext]_httpVars
    PROVE  BufferInv'
<1> USE ForwarderAssumption DEF BufferInv, Placed, Started, Fresh, Fits, Capacity, Relaying, closed
<1>n. /\ sent' \in Nat /\ since \in 0..Interval /\ since' \in 0..Interval
      /\ call \in {"running", "succeeded", "failed"}
    BY DEF IInv, Numbers
<1>1. CASE CallReports
    <2>1. CASE sent' = sent
        BY <1>1, <2>1, <1>n, QueueGrows DEF CallReports, Report, Deliver, Queues
    <2>2. CASE sent' # sent
        <3>1. sent' = latest' /\ since = Interval /\ CanSend /\ since' = 0
            BY <1>1, <2>2, <1>n DEF CallReports, Report, Deliver, Wait
        <3>2. chunks = <<>> /\ relay = <<>>
            BY <3>1, <1>1 DEF CanSend, CallReports, Report
        <3> QED BY <1>1, <2>2, <3>1, <3>2, <1>n, QueueGrows DEF CallReports, Report, Queues
    <2> QED BY <2>1, <2>2
<1>2. CASE Retries
    <2>1. CASE RetryRefused /\ Queues
        BY <2>1, <1>n, QueueGrows DEF RetryRefused, Queues
    <2>2. CASE RetrySends /\ Queues /\ CanSend /\ Quiet
        <3>1. chunks = <<>> /\ relay = <<>>
            BY <2>2 DEF CanSend, Quiet, Pulls
        <3>2. since' = 0 /\ streaming /\ call' = call
            BY <2>2 DEF RetrySends, Due, Deliver
        <3> QED BY <2>2, <3>1, <3>2, <1>n, QueueGrows DEF RetrySends, Due, Queues
    <2> QED BY <1>2, <2>1, <2>2 DEF Retries
<1>3. CASE CallSucceeds
    <2>1. call' = "succeeded" /\ held' = 0 /\ ~closed /\ (held = 0 => sent' = sent)
        BY <1>3 DEF CallSucceeds, Succeeds, Close, Deliver
    <2> QED BY <1>3, <2>1, <1>n, QueueGrows DEF CallSucceeds, Queues
<1>4. CASE CallFails
    BY <1>4, <1>n, QueueGrows DEF CallFails, Fails, Close, Queues
<1>5. CASE SendSettles
    BY <1>5, <1>n, QueueGrows DEF SendSettles, Written, Queues
<1>6. CASE TimePasses
    <2>1. chunks = <<>> \/ relay # <<>>
        BY <1>6 DEF TimePasses, Quiet, Pulls
    <2> QED BY <1>6, <2>1, <1>n, QueueGrows DEF TimePasses, Tick, Queues
<1>7. CASE Refuse \/ Authenticate \/ BodyFails \/ Dispatch \/ StartRelay
    <2>1. UNCHANGED <<vars, streaming, chunks, relay, settled>>
        BY <1>7 DEF Refuse, Authenticate, BodyFails, Dispatch, StartRelay
    <2>2. CASE Refuse \/ Authenticate \/ BodyFails
        BY <2>1, <2>2 DEF Refuse, Authenticate, BodyFails, vars
    <2>3. CASE Dispatch
        <3>1. chunks = <<>> /\ relay = <<>> /\ ~settled
            BY <2>3 DEF Dispatch
        <3>2. stage' = (IF streaming THEN "dispatching" ELSE "answering") /\ source' = "open"
            BY <2>3 DEF Dispatch
        <3>3. UNCHANGED <<call, since, held, streaming, chunks, relay, settled>>
            BY <2>1 DEF vars
        <3>4. CASE streaming
            BY <3>1, <3>2, <3>3, <3>4
        <3>5. CASE ~streaming
            BY <3>1, <3>2, <3>3, <3>5
        <3> QED BY <3>4, <3>5
    <2>4. CASE StartRelay
        BY <2>1, <2>4 DEF StartRelay, vars
    <2> QED BY <1>7, <2>2, <2>3, <2>4
<1>8. CASE AnswerStream
    <2>1. /\ chunks' \in Seq(Nat) /\ Len(chunks') = Len(chunks) + 1
          /\ relay' = relay
        BY <1>8, ForwarderAssumption DEF AnswerStream, Result
    <2> QED BY <1>8, <2>1 DEF AnswerStream, Answers, vars
<1>9. CASE AnswerWhole
    BY <1>9 DEF AnswerWhole, Answers, Called, vars
<1>10. CASE Pull
    <2>1. CASE chunks # <<>>
        <3>1. /\ relay = <<>> /\ relay' = <<Head(chunks)>> /\ chunks' = Tail(chunks)
            BY <1>10, <2>1 DEF Pull, Pulls
        <3>2. Head(chunks) \in Nat /\ Tail(chunks) \in Seq(Nat) /\ Len(Tail(chunks)) = Len(chunks) - 1
            BY <2>1
        <3>3. relay' \in Seq(Nat) /\ Len(relay') = 1 /\ Len(relay) = 0
            BY <3>1, <3>2
        <3> QED BY <1>10, <2>1, <3>1, <3>2, <3>3 DEF Pull, Pulls, vars
    <2>2. CASE chunks = <<>>
        BY <1>10, <2>2 DEF Pull, Pulls, Settle, vars
    <2> QED BY <2>1, <2>2
<1>11. CASE TakeChunk
    BY <1>11, <1>n DEF TakeChunk, vars
<1>12. CASE EndStream \/ ClientReads
    BY <1>12 DEF EndStream, ClientReads, vars
<1>13. CASE SourceBreaks
    BY <1>13 DEF SourceBreaks, Settle, vars
<1>14. CASE ConnectionCloses
    <2>1. UNCHANGED <<vars, streaming>> /\ stage' = IF stage = "draining" THEN "relaying" ELSE stage
        BY <1>14 DEF ConnectionCloses
    <2>2. CASE Relaying /\ ~settled
        <3>1. relay' = <<>> /\ chunks' = <<>> /\ source' = "cancelled"
            BY <1>14, <2>2 DEF ConnectionCloses
        <3> QED BY <2>1, <2>2, <3>1 DEF vars
    <2>3. CASE ~(Relaying /\ ~settled)
        <3>1. UNCHANGED <<settled, source, relay, chunks>>
            BY <1>14, <2>3 DEF ConnectionCloses
        <3> QED BY <2>1, <3>1 DEF vars
    <2> QED BY <2>2, <2>3
<1>15. CASE UNCHANGED httpVars
    BY <1>15 DEF httpVars, requestVars, vars
<1> QED BY <1>1, <1>2, <1>3, <1>4, <1>5, <1>6, <1>7, <1>8, <1>9, <1>10, <1>11, <1>12,
           <1>13, <1>14, <1>15 DEF HttpNext

(* Whatever the client does, at most one chunk waits behind the relay or   *)
(* in it while the call runs, and three when it has ended.                 *)
THEOREM ReaderBoundsBuffers == HttpSpec => []BuffersBounded
<1>1. BufferInv => BuffersBounded
    BY DEF BufferInv, Placed, Fits, Capacity, BuffersBounded
<1>2. HttpSpec => []IInv
    BY RequestImplementsForwarder, Invariance, PTL
<1>3. BufferInv /\ IInv /\ IInv' /\ [HttpNext]_httpVars => BufferInv'
    BY BufferStep
<1> QED BY <1>1, <1>2, <1>3, BufferInit, PTL DEF HttpSpec
-----------------------------------------------------------------------------
(* What the client has, what the relay holds and what is queued.           *)
Flow == written \o (relay \o chunks)

Rising(f) == \A i, j \in 1..Len(f) : i < j => f[i] < f[j]

(* The result comes with the end of the stream, and reports as they are    *)
(* sent.                                                                   *)
Known(f) ==
    \A i \in 1..Len(f) :
        /\ f[i] = Result => closed /\ source # "open"
        /\ f[i] # Result => f[i] <= sent

NewestBeforeResult(f) ==
    \A i \in 1..Len(f) :
        f[i] = Result /\ call = "succeeded" /\ latest # 0 => i > 1 /\ f[i - 1] = latest

(* Until the stream ends or is given up, the latest notification is last.  *)
Whole(f) == source = "open" /\ sent # 0 => Len(f) > 0 /\ f[Len(f)] = sent

Uncalled == source = "none" => ~closed /\ held = 0 /\ sent = 0

FlowInv ==
    /\ written \in Seq(Nat)
    /\ Rising(Flow) /\ Known(Flow) /\ NewestBeforeResult(Flow) /\ Whole(Flow)
    /\ Uncalled

LEMMA FlowType ==
    ASSUME Placed, written \in Seq(Nat)
    PROVE  Flow \in Seq(Nat) /\ relay \o chunks \in Seq(Nat)
BY ConcatProperties DEF Placed, Flow

(* A step that moves nothing but the books.                                *)
LEMMA FlowStays ==
    ASSUME FlowInv, IInv, IInv', Flow \in Seq(Nat), Flow' = Flow, written' \in Seq(Nat),
           sent <= sent',
           closed => call' = call /\ latest' = latest,
           source' = "open" => sent' = sent /\ source \in {"none", "open"},
           source' = "none" => source = "none" /\ UNCHANGED <<call, held, sent>>
    PROVE  FlowInv'
<1> USE DEF closed
<1>n. sent \in Nat /\ sent' \in Nat
    BY ForwarderAssumption DEF IInv, Numbers
<1> DEFINE f == Flow
<1>f. f \in Seq(Nat) /\ f = Flow /\ f = Flow'
    OBVIOUS
<1> HIDE DEF f
<1>1. Rising(Flow)'
    BY DEF FlowInv, Rising
<1>2. \A i \in 1..Len(f) : f[i] = Result => closed /\ source # "open" /\ source # "none"
    BY <1>f DEF FlowInv, Known, Uncalled
<1>3. \A i \in 1..Len(f) : f[i] = Result => closed' /\ source' # "open"
    BY <1>2
<1>4. \A i \in 1..Len(f) : f[i] \in Nat
    BY <1>f, ElementOfSeq
<1>5. \A i \in 1..Len(f) : f[i] # Result => f[i] <= sent'
    BY <1>n, <1>f, <1>4 DEF FlowInv, Known
<1>6. Known(Flow)'
    BY <1>3, <1>5, <1>f DEF Known, Result
<1>7. NewestBeforeResult(Flow)'
    BY <1>2, <1>f DEF FlowInv, NewestBeforeResult, Result
<1>8. Whole(Flow)'
    BY <1>f DEF FlowInv, Whole, Uncalled
<1>9. Uncalled'
    BY DEF FlowInv, Uncalled
<1> QED BY <1>1, <1>6, <1>7, <1>8, <1>9 DEF FlowInv
(* A notification is queued.                                               *)
LEMMA FlowGrows ==
    ASSUME FlowInv, IInv, IInv', Flow \in Seq(Nat), Flow' = Append(Flow, sent'),
           written' \in Seq(Nat), sent < sent',
           source = "open", source' = "open"
    PROVE  FlowInv'
<1> USE DEF closed
<1>n. sent \in Nat /\ sent' \in Nat /\ sent' < Result /\ Result \in Nat
    BY ForwarderAssumption DEF IInv, Numbers, Result
<1> DEFINE f == Flow
           g == Flow'
           n == Len(Flow)
<1>f. /\ f \in Seq(Nat) /\ g \in Seq(Nat) /\ n \in Nat /\ n = Len(f) /\ Len(g) = n + 1
      /\ g[n + 1] = sent' /\ \A i \in 1..n : g[i] = f[i] /\ f[i] \in Nat
    BY <1>n, ElementOfSeq
<1> HIDE DEF f, g, n
<1>1. \A i \in 1..n : f[i] # Result /\ f[i] <= sent
    BY <1>f DEF FlowInv, Known, f, n
<1>2. \A i, j \in 1..n : i < j => f[i] < f[j]
    BY <1>f DEF FlowInv, Rising, f, n
<1>3. \A i \in 1..n + 1 : i \in 1..n \/ i = n + 1
    BY <1>f
<1>4. \A i \in 1..n + 1 : g[i] # Result /\ g[i] <= sent'
    <2> TAKE i \in 1..n + 1
    <2>1. CASE i \in 1..n
        BY <1>1, <1>f, <1>n, <2>1
    <2>2. CASE i = n + 1
        BY <1>f, <1>n, <2>2
    <2> QED BY <1>3, <2>1, <2>2
<1>5. \A i, j \in 1..n + 1 : i < j => g[i] < g[j]
    <2> TAKE i, j \in 1..n + 1
    <2> HAVE i < j
    <2>1. i \in 1..n
        BY <1>f
    <2>2. CASE j \in 1..n
        BY <1>2, <1>f, <2>1, <2>2
    <2>3. CASE j = n + 1
        BY <1>1, <1>f, <1>n, <2>1, <2>3
    <2> QED BY <1>3, <2>2, <2>3
<1>6. Rising(Flow)'
    BY <1>5, <1>f DEF Rising, g
<1>7. Known(Flow)' /\ NewestBeforeResult(Flow)'
    BY <1>4, <1>f DEF Known, NewestBeforeResult, g, Result
<1>8. Whole(Flow)' /\ Uncalled'
    BY <1>f DEF Whole, Uncalled, g
<1> QED BY <1>6, <1>7, <1>8 DEF FlowInv

(* The result is queued, and the stream ends.                              *)
LEMMA FlowEnds ==
    ASSUME FlowInv, IInv, Flow \in Seq(Nat), Flow' = Append(Flow, Result),
           written' \in Seq(Nat), UNCHANGED vars, closed,
           source = "open", source' = "ended"
    PROVE  FlowInv'
<1>n. /\ sent \in Nat /\ sent < Result /\ Result \in Nat
      /\ sent' = sent /\ call' = call /\ latest' = latest
      /\ call = "succeeded" => sent = latest
    BY ForwarderAssumption DEF IInv, Numbers, LatestKept, Result, vars
<1> DEFINE f == Flow
           g == Flow'
           n == Len(Flow)
<1>f. /\ f \in Seq(Nat) /\ g \in Seq(Nat) /\ n \in Nat /\ n = Len(f) /\ Len(g) = n + 1
      /\ g[n + 1] = Result /\ \A i \in 1..n : g[i] = f[i] /\ f[i] \in Nat
    BY <1>n, ElementOfSeq
<1>w. sent # 0 => n > 0 /\ f[n] = sent
    BY DEF FlowInv, Whole
<1> HIDE DEF f, g, n
<1>1. \A i \in 1..n : f[i] # Result /\ f[i] <= sent
    BY <1>f DEF FlowInv, Known, f, n
<1>2. \A i, j \in 1..n : i < j => f[i] < f[j]
    BY <1>f DEF FlowInv, Rising, f, n
<1>3. \A i \in 1..n + 1 : i \in 1..n \/ i = n + 1
    BY <1>f
<1>5. \A i, j \in 1..n + 1 : i < j => g[i] < g[j]
    <2> TAKE i, j \in 1..n + 1
    <2> HAVE i < j
    <2>1. i \in 1..n
        BY <1>f
    <2>2. CASE j \in 1..n
        BY <1>2, <1>f, <2>1, <2>2
    <2>3. CASE j = n + 1
        BY <1>1, <1>f, <1>n, <2>1, <2>3
    <2> QED BY <1>3, <2>2, <2>3
<1>6. Rising(Flow)'
    BY <1>5, <1>f DEF Rising, g
<1>7. Known(Flow)'
    <2>1. \A i \in 1..n + 1 : g[i] # Result => g[i] <= sent
        BY <1>1, <1>3, <1>f
    <2> QED BY <2>1, <1>f, <1>n DEF Known, g, Result, closed, vars
<1>8. \A i \in 1..n + 1 : g[i] = Result /\ call = "succeeded" /\ latest # 0 => i > 1 /\ g[i - 1] = latest
    <2> TAKE i \in 1..n + 1
    <2> HAVE g[i] = Result /\ call = "succeeded" /\ latest # 0
    <2>1. i = n + 1
        BY <1>1, <1>3, <1>f
    <2>2. n > 0 /\ f[n] = latest
        BY <1>w, <1>n
    <2> QED BY <2>1, <2>2, <1>f
<1>9. NewestBeforeResult(Flow)'
    BY <1>8, <1>f, <1>n DEF NewestBeforeResult, g, Result
<1>10. Whole(Flow)' /\ Uncalled'
    BY DEF Whole, Uncalled
<1> QED BY <1>6, <1>7, <1>9, <1>10 DEF FlowInv

(* What has not been written is given up.                                  *)
LEMMA FlowDrops ==
    ASSUME FlowInv, Placed, UNCHANGED <<vars, written>>, relay' = <<>>, chunks' = <<>>,
           source \notin {"none"}, source' \notin {"none", "open"}
    PROVE  FlowInv'
<1>1. /\ Flow \in Seq(Nat) /\ written \in Seq(Nat) /\ relay \o chunks \in Seq(Nat)
      /\ Len(written) \in Nat /\ Len(relay \o chunks) \in Nat
    BY FlowType, LenProperties DEF FlowInv
<1>2. /\ Len(Flow) = Len(written) + Len(relay \o chunks)
      /\ \A i \in 1..Len(written) : Flow[i] = written[i]
    BY <1>1, ConcatProperties DEF Flow
<1>3. Flow' = written
    BY <1>1, ConcatEmptySeq DEF Flow
<1>4. \A i \in 1..Len(written) : i \in 1..Len(Flow)
    BY <1>1, <1>2
<1>5. Rising(Flow)'
    BY <1>2, <1>3, <1>4 DEF FlowInv, Rising
<1>6. Known(Flow)'
    BY <1>2, <1>3, <1>4 DEF FlowInv, Known, Result, closed, vars
<1>7. NewestBeforeResult(Flow)'
    <2>1. \A i \in 1..Len(written) :
            written[i] = Result /\ call = "succeeded" /\ latest # 0 => i > 1 /\ written[i - 1] = latest
        <3> TAKE i \in 1..Len(written)
        <3> HAVE written[i] = Result /\ call = "succeeded" /\ latest # 0
        <3>1. i > 1 /\ Flow[i - 1] = latest
            BY <1>2, <1>4 DEF FlowInv, NewestBeforeResult
        <3>2. i - 1 \in 1..Len(written)
            BY <1>1, <3>1
        <3> QED BY <3>1, <3>2, <1>2
    <2> QED BY <2>1, <1>3 DEF NewestBeforeResult, Result, vars
<1>8. Whole(Flow)' /\ Uncalled'
    BY DEF Whole, Uncalled
<1> QED BY <1>5, <1>6, <1>7, <1>8 DEF FlowInv
LEMMA FlowInit == HttpInit => FlowInv
<1> SUFFICES ASSUME HttpInit PROVE FlowInv
    OBVIOUS
<1>1. written = <<>> /\ relay = <<>> /\ chunks = <<>>
    BY DEF HttpInit
<1>2. Flow = <<>> /\ Len(Flow) = 0
    BY <1>1 DEF Flow
<1> QED BY <1>1, <1>2
        DEF HttpInit, Init, FlowInv, Rising, Known, NewestBeforeResult, Whole, Uncalled, closed

LEMMA SingleChunk ==
    ASSUME NEW r \in Seq(Nat), r # <<>>, Len(r) <= 1
    PROVE  r = <<Head(r)>>
<1> DEFINE n == Len(r)
<1>1. n \in Nat \ {0} /\ n <= 1
    BY EmptySeq
<1>2. n = 1
    <2> HIDE DEF n
    <2> QED BY <1>1
<1> QED BY <1>2

LEMMA FlowStep ==
    ASSUME FlowInv, BufferInv, BufferInv', IInv, IInv', [HttpNext]_httpVars
    PROVE  FlowInv'
<1>p. Placed /\ Placed' /\ written \in Seq(Nat)
    BY DEF BufferInv, FlowInv
<1>t. /\ Placed /\ written \in Seq(Nat) /\ Flow \in Seq(Nat) /\ relay \o chunks \in Seq(Nat)
      /\ relay \in Seq(Nat) /\ chunks \in Seq(Nat) /\ Len(relay) <= 1
    BY <1>p, FlowType DEF Placed
<1>n. /\ sent \in Nat /\ sent' \in Nat /\ held \in Nat
      /\ held # 0 => sent < held
      /\ ~closed => latest = (IF held = 0 THEN sent ELSE held)
    BY ForwarderAssumption DEF IInv, Numbers, LatestKept
<1>q. ASSUME NEW x \in Nat, chunks' = Append(chunks, x), UNCHANGED <<relay, written>>
      PROVE  Flow' = Append(Flow, x)
    <2>0. <<x>> \in Seq(Nat) /\ Append(chunks, x) = chunks \o <<x>>
        BY <1>t, AppendIsConcat
    <2>1. /\ <<x>> \in Seq(Nat)
          /\ chunks' = chunks \o <<x>>
          /\ Append(Flow, x) = Flow \o <<x>>
        <3> DEFINE f == Flow
        <3>1. f \in Seq(Nat)
            BY <1>t
        <3> HIDE DEF f
        <3>2. Append(f, x) = f \o <<x>>
            BY <3>1, AppendIsConcat
        <3> QED BY <2>0, <1>q, <3>2 DEF f
    <2>2. relay \o (chunks \o <<x>>) = (relay \o chunks) \o <<x>>
        BY <2>1, <1>t, ConcatAssociative
    <2>3. written \o ((relay \o chunks) \o <<x>>) = (written \o (relay \o chunks)) \o <<x>>
        BY <2>1, <1>t, ConcatAssociative
    <2> QED BY <1>q, <2>1, <2>2, <2>3 DEF Flow
(* The steps of the forwarder.                                             *)
<1>s. ASSUME Queues, sent <= sent', closed => call' = call /\ latest' = latest, Called
      PROVE  FlowInv'
    <2>1. /\ UNCHANGED <<relay, written, source>>
          /\ chunks' = IF sent' # sent /\ source = "open" THEN Append(chunks, sent') ELSE chunks
        BY <1>s DEF Queues
    <2>2. CASE sent' # sent /\ source = "open"
        <3>1. Flow' = Append(Flow, sent')
            BY <2>1, <2>2, <1>n, <1>q
        <3> QED BY <2>1, <2>2, <3>1, <1>s, <1>n, <1>t, FlowGrows
    <2>3. CASE ~(sent' # sent /\ source = "open")
        <3>1. Flow' = Flow
            BY <2>1, <2>3 DEF Flow
        <3> QED BY <2>1, <2>3, <3>1, <1>s, <1>t, FlowStays DEF Called
    <2> QED BY <2>2, <2>3
<1>1. CASE CallReports
    <2>1. sent' = sent \/ sent' = latest'
        BY <1>1 DEF CallReports, Report, Deliver
    <2>2. ~closed /\ latest' = latest + 1 /\ Called /\ Queues
        BY <1>1 DEF CallReports, Report
    <2> QED BY <2>1, <2>2, <1>n, <1>s
<1>2. CASE Retries
    <2>1. sent' = sent \/ sent' = held
        BY <1>2 DEF Retries, RetrySends, RetryRefused, Deliver
    <2>2. ~closed /\ held # 0 /\ Queues /\ UNCHANGED <<call, latest>>
        BY <1>2 DEF Retries, RetrySends, RetryRefused, Due
    <2>3. Called
        BY <2>2 DEF FlowInv, Uncalled, Called
    <2> QED BY <2>1, <2>2, <2>3, <1>n, <1>s
<1>3. CASE CallSucceeds
    <2>1. ~closed /\ (sent' = sent \/ (held # 0 /\ sent' = held)) /\ Queues /\ Called
        BY <1>3 DEF CallSucceeds, Succeeds, Deliver
    <2> QED BY <2>1, <1>n, <1>s
<1>4. CASE CallFails
    <2>1. ~closed /\ sent' = sent /\ Queues /\ Called
        BY <1>4 DEF CallFails, Fails
    <2> QED BY <2>1, <1>n, <1>s
<1>5. CASE SendSettles \/ TimePasses
    <2>1. UNCHANGED <<call, held, latest, sent>> /\ Queues
        BY <1>5 DEF SendSettles, TimePasses, Written, Tick
    <2>2. UNCHANGED <<relay, written, source, chunks>>
        BY <2>1 DEF Queues
    <2>3. Flow' = Flow
        BY <2>2 DEF Flow
    <2>4. source' = "open" => source \in {"none", "open"}
        BY <2>2
    <2>5. source' = "none" => source = "none"
        BY <2>2
    <2> QED BY <2>1, <2>2, <2>3, <2>4, <2>5, <1>n, <1>t, FlowStays
(* The steps of the request.                                               *)
<1>6. ASSUME UNCHANGED vars, Flow' = Flow, written' \in Seq(Nat),
             source' = "open" => source \in {"none", "open"},
             source' = "none" => source = "none"
      PROVE  FlowInv'
    <2>1. UNCHANGED <<call, held, latest, sent>>
        BY <1>6 DEF vars
    <2> QED BY <2>1, <1>6, <1>n, <1>t, FlowStays
<1>7. ASSUME UNCHANGED <<vars, chunks, relay, written>>,
             source' = "open" => source \in {"none", "open"},
             source' = "none" => source = "none"
      PROVE  FlowInv'
    <2>1. Flow' = Flow
        BY <1>7 DEF Flow
    <2> QED BY <1>7, <2>1, <1>6, <1>t
<1>8. CASE Refuse \/ Authenticate \/ BodyFails \/ Dispatch \/ StartRelay
    <2>1. UNCHANGED <<vars, chunks, relay, written>>
        BY <1>8 DEF Refuse, Authenticate, BodyFails, Dispatch, StartRelay
    <2>2. CASE Dispatch
        <3>1. stage = "reading" /\ source' = "open"
            BY <2>2 DEF Dispatch
        <3>2. source = "none"
            BY <3>1 DEF BufferInv, Started
        <3> QED BY <2>1, <3>1, <3>2, <1>7
    <2>3. CASE UNCHANGED source
        BY <2>1, <2>3, <1>7
    <2> QED BY <1>8, <2>2, <2>3 DEF Refuse, Authenticate, BodyFails, StartRelay
<1>9. CASE AnswerStream
    <2>1. /\ closed /\ source = "open" /\ source' = "ended" /\ chunks' = Append(chunks, Result)
          /\ UNCHANGED <<vars, relay, written>>
        BY <1>9 DEF AnswerStream, Answers
    <2>2. Flow' = Append(Flow, Result)
        BY <2>1, <1>q, ForwarderAssumption DEF Result
    <2> QED BY <2>1, <2>2, <1>t, FlowEnds
<1>10. CASE AnswerWhole
    <2>1. UNCHANGED <<vars, chunks, relay, written>> /\ source' = "ended"
        BY <1>10 DEF AnswerWhole
    <2> QED BY <2>1, <1>7
<1>11. CASE Pull
    <2>1. UNCHANGED <<vars, written, source>> /\ relay = <<>>
        BY <1>11 DEF Pull, Pulls
    <2>2. CASE chunks # <<>>
        <3>1. relay' = <<Head(chunks)>> /\ chunks' = Tail(chunks)
            BY <1>11, <2>2 DEF Pull
        <3>2. <<Head(chunks)>> \o Tail(chunks) = chunks
            BY <2>2, <1>t
        <3>3. Flow' = Flow
            BY <2>1, <3>1, <3>2, <1>t, ConcatEmptySeq DEF Flow
        <3> QED BY <2>1, <3>3, <1>6, <1>t
    <2>3. CASE chunks = <<>>
        <3>1. UNCHANGED <<relay, chunks>>
            BY <1>11, <2>3 DEF Pull
        <3> QED BY <2>1, <3>1, <1>7
    <2> QED BY <2>2, <2>3
<1>12. CASE TakeChunk
    <2>1. /\ UNCHANGED <<vars, chunks, source>> /\ relay # <<>> /\ relay' = <<>>
          /\ written' = Append(written, Head(relay))
        BY <1>12 DEF TakeChunk
    <2>2. relay = <<Head(relay)>>
        BY <2>1, <1>t, SingleChunk
    <2>3. Head(relay) \in Nat /\ written' \in Seq(Nat)
        BY <2>1, <1>t
    <2>4. written' = written \o relay
        BY <2>1, <2>2, <2>3, <1>t, AppendIsConcat
    <2>5. Flow' = Flow
        <3>1. <<>> \o chunks = chunks
            BY <1>t, ConcatEmptySeq
        <3>2. (written \o relay) \o chunks = written \o (relay \o chunks)
            BY <1>t, ConcatAssociative, SMTT(30)
        <3> QED BY <2>1, <2>4, <3>1, <3>2 DEF Flow
    <2> QED BY <2>1, <2>3, <2>5, <1>6
<1>13. CASE EndStream \/ ClientReads
    <2>1. UNCHANGED <<vars, chunks, relay, written, source>>
        BY <1>13 DEF EndStream, ClientReads
    <2> QED BY <2>1, <1>7
<1>14. CASE SourceBreaks
    <2>1. /\ UNCHANGED <<vars, written, relay>> /\ relay = <<>> /\ chunks' = <<>>
          /\ source' = "broken" /\ Relaying
        BY <1>14 DEF SourceBreaks
    <2>2. source # "none"
        BY <2>1 DEF BufferInv, Started, Relaying
    <2> QED BY <2>1, <2>2, <1>t, FlowDrops
<1>15. CASE ConnectionCloses
    <2>1. UNCHANGED <<vars, written>>
        BY <1>15 DEF ConnectionCloses
    <2>2. CASE Relaying /\ ~settled
        <3>1. relay' = <<>> /\ chunks' = <<>> /\ source' = "cancelled"
            BY <1>15, <2>2 DEF ConnectionCloses
        <3>2. source # "none"
            BY <2>2 DEF BufferInv, Started, Relaying
        <3> QED BY <2>1, <3>1, <3>2, <1>t, FlowDrops
    <2>3. CASE ~(Relaying /\ ~settled)
        BY <1>15, <2>1, <2>3, <1>7 DEF ConnectionCloses
    <2> QED BY <2>2, <2>3
<1>16. CASE UNCHANGED httpVars
    <2>1. UNCHANGED <<vars, chunks, relay, written, source>>
        BY <1>16 DEF httpVars, requestVars
    <2> QED BY <2>1, <1>7
<1> QED BY <1>1, <1>2, <1>3, <1>4, <1>5, <1>8, <1>9, <1>10, <1>11, <1>12, <1>13, <1>14,
           <1>15, <1>16 DEF HttpNext

(* What the client reads increases, the result comes last, and right       *)
(* before the result of a call that succeeded comes its newest report.     *)
THEOREM NewestReportArrives == HttpSpec => []NewestArrives
<1>1. BufferInv /\ FlowInv => NewestArrives
    <2> SUFFICES ASSUME BufferInv, FlowInv PROVE NewestArrives
        OBVIOUS
    <2>1. /\ Flow \in Seq(Nat) /\ written \in Seq(Nat) /\ relay \o chunks \in Seq(Nat)
          /\ Len(written) \in Nat /\ Len(relay \o chunks) \in Nat
          /\ DOMAIN written = 1..Len(written)
        BY FlowType, LenProperties DEF FlowInv, BufferInv
    <2>2. /\ Len(Flow) = Len(written) + Len(relay \o chunks)
          /\ \A i \in 1..Len(written) : Flow[i] = written[i]
        BY <2>1, ConcatProperties DEF Flow
    <2>3. \A i \in 1..Len(written) : i \in 1..Len(Flow)
        BY <2>1, <2>2
    <2>4. \A i, j \in DOMAIN written : i < j => written[i] < written[j]
        BY <2>1, <2>2, <2>3 DEF FlowInv, Rising
    <2>5. \A i \in DOMAIN written :
            written[i] = Result /\ call = "succeeded" /\ latest # 0 =>
                i > 1 /\ written[i - 1] = latest
        <3> TAKE i \in DOMAIN written
        <3> HAVE written[i] = Result /\ call = "succeeded" /\ latest # 0
        <3>1. i > 1 /\ Flow[i - 1] = latest
            BY <2>1, <2>2, <2>3 DEF FlowInv, NewestBeforeResult
        <3>2. i - 1 \in 1..Len(written)
            BY <2>1, <3>1
        <3> QED BY <3>1, <3>2, <2>2
    <2> QED BY <2>4, <2>5 DEF NewestArrives
<1>2. HttpSpec => []IInv
    BY RequestImplementsForwarder, Invariance, PTL
<1>3. BufferInv /\ IInv /\ IInv' /\ [HttpNext]_httpVars => BufferInv'
    BY BufferStep
<1>4. FlowInv /\ BufferInv /\ BufferInv' /\ IInv /\ IInv' /\ [HttpNext]_httpVars => FlowInv'
    BY FlowStep
<1> QED BY <1>1, <1>2, <1>3, <1>4, BufferInit, FlowInit, PTL DEF HttpSpec
=============================================================================
