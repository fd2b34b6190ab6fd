---------------------------- MODULE ProgressForwarder ----------------------------
(***************************************************************************)
(* packages/mcp/src/progress.ts, as the tools/call handler of              *)
(* packages/mcp/src/protocol-server.ts uses it: the progress reports of    *)
(* one call become notifications, throttled by a timer and by the reader.  *)
(*                                                                         *)
(* The core delivers increasing values, so a report is the number of       *)
(* reports made so far.  Time is counted in ticks, of which Interval make  *)
(* up MIN_PROGRESS_NOTIFICATION_INTERVAL_MS; a timer fires no earlier than *)
(* its delay, and may be late.                                             *)
(***************************************************************************)
EXTENDS Naturals

CONSTANTS
    Interval,   \* ticks between two notifications
    MaxReports, \* bound on the reports of the call
    None        \* no timer is set

ASSUME ForwarderAssumption ==
    Interval \in Nat \ {0} /\ MaxReports \in Nat /\ None \notin 0..Interval

VARIABLES
    call,      \* "running", then "succeeded" or "failed"
    writing,   \* a write has begun and no write has ended since
    since,     \* ticks since lastSentAt, at most Interval; Interval before the first
    held,      \* the report that waits, 0 if none does
    timer,     \* ticks until retry runs, or None
    latest,    \* the latest report the capability made
    sent,      \* the latest report handed to the transport
    unwritten  \* notifications handed over whose write has not ended

vars == <<call, writing, since, held, timer, latest, sent, unwritten>>

closed == call # "running"

(* ADR 0043: "A slow or stalled reader therefore leaves at most one        *)
(* unwritten notification and one held report", both of them unwritten     *)
(* once finish has handed over the latter.                                 *)
TypeOK ==
    /\ call \in {"running", "succeeded", "failed"}
    /\ writing \in BOOLEAN
    /\ since \in 0..Interval
    /\ held \in 0..MaxReports /\ latest \in 0..MaxReports /\ sent \in 0..MaxReports
    /\ timer \in 0..Interval \cup {None}
    /\ unwritten \in 0..2 /\ (~closed => unwritten <= 1)

Init ==
    /\ call = "running"
    /\ writing = FALSE
    /\ since = Interval
    /\ held = 0
    /\ timer = None
    /\ latest = 0
    /\ sent = 0
    /\ unwritten = 0

-----------------------------------------------------------------------------
(* hasCapacity may hold; canSend is asked then, and may refuse.            *)
HasCapacity == ~writing

(* send returns a promise, or throws and counts as written.                *)
Deliver(report) ==
    /\ sent' = report
    /\ since' = 0
    /\ \/ writing' = TRUE /\ unwritten' = unwritten + 1
       \/ writing' = FALSE /\ UNCHANGED unwritten

RetryAfter(delay) == timer' = IF timer = None THEN delay ELSE timer

Wait == Interval - since

(* report; it is held for whatever reason, canSend's refusal among them.   *)
Report ==
    /\ ~closed
    /\ latest < MaxReports
    /\ latest' = latest + 1
    /\ \/ /\ Wait = 0 /\ timer = None /\ HasCapacity
          /\ Deliver(latest')
          /\ UNCHANGED <<held, timer>>
       \/ /\ held' = latest'
          /\ RetryAfter(IF Wait > 0 THEN Wait ELSE Interval)
          /\ UNCHANGED <<writing, since, sent, unwritten>>
    /\ UNCHANGED call

(* A timer is set only while a report is held.                             *)
Due == ~closed /\ timer = 0 /\ held # 0

(* retry, while a write is under way or canSend refuses.                   *)
RetryRefused ==
    /\ Due
    /\ timer' = Interval
    /\ UNCHANGED <<call, writing, since, held, latest, sent, unwritten>>

(* retry, otherwise.                                                       *)
RetrySends ==
    /\ Due
    /\ HasCapacity
    /\ timer' = None
    /\ held' = 0
    /\ Deliver(held)
    /\ UNCHANGED <<call, latest>>

(* Mutant of Written: a write that fails is not noticed.                   *)
WrittenWell ==
    /\ unwritten > 0
    /\ unwritten' = unwritten - 1
    /\ writing' \in {writing, FALSE}
    /\ UNCHANGED <<call, since, held, timer, latest, sent>>

(* The write of a notification ends, or fails.                             *)
Written ==
    /\ unwritten > 0
    /\ unwritten' = unwritten - 1
    /\ writing' = FALSE
    /\ UNCHANGED <<call, since, held, timer, latest, sent>>

Close(outcome) ==
    /\ call' = outcome
    /\ held' = 0
    /\ timer' = None

(* Mutant of Succeeds: the held report waits for capacity, in vain.        *)
SucceedsIfIdle ==
    /\ ~closed
    /\ IF held # 0 /\ ~writing THEN Deliver(held)
       ELSE UNCHANGED <<writing, since, sent, unwritten>>
    /\ Close("succeeded")
    /\ UNCHANGED latest

(* finish, before the result is returned: whatever the reader does.        *)
Succeeds ==
    /\ ~closed
    /\ IF held # 0 THEN Deliver(held)
       ELSE UNCHANGED <<writing, since, sent, unwritten>>
    /\ Close("succeeded")
    /\ UNCHANGED latest

(* The call is answered with an error.                                     *)
Fails ==
    /\ ~closed
    /\ Close("failed")
    /\ UNCHANGED <<writing, since, latest, sent, unwritten>>

(* Time passes.                                                            *)
Tick ==
    /\ ~closed
    /\ since < Interval \/ timer \in 1..Interval
    /\ since' = IF since < Interval THEN since + 1 ELSE since
    /\ timer' = IF timer \in 1..Interval THEN timer - 1 ELSE timer
    /\ UNCHANGED <<call, writing, held, latest, sent, unwritten>>

Next ==
    \/ Report \/ RetryRefused \/ RetrySends \/ Written
    \/ Succeeds \/ Fails
    \/ Tick

Spec == Init /\ [][Next]_vars

-----------------------------------------------------------------------------
(* ADR 0043: "at most one notification per 100 milliseconds for one        *)
(* request", although retry itself never looks at the clock.  The report   *)
(* that finish delivers is the exception.                                  *)
SpacedSends == [][sent' # sent => since = Interval \/ closed']_vars

(* The stream increases, and its newest report is either handed over or    *)
(* held, and handed over before a successful result, so that a final n/n   *)
(* report arrives.                                                         *)
LatestKept ==
    /\ ~closed => latest = (IF held = 0 THEN sent ELSE held)
    /\ call = "succeeded" => sent = latest
    /\ held # 0 => sent < held

(* A report that is held goes out, or a newer one does, unless the call    *)
(* fails: no refusal leaves it without a timer.                            *)
HeldGoesOut ==
    \A n \in 1..MaxReports : (held = n) ~> (sent >= n \/ call = "failed")
=============================================================================
