----------------------------- MODULE AttachedSession -----------------------------
(***************************************************************************)
(* createAttachedSessionController of packages/devtools/src/               *)
(* attached-session.ts: the one MCP target a workbench may be attached to. *)
(*                                                                         *)
(* A connect attempt gets a slot.  Its work awaits the peer, under a       *)
(* deadline; requests of the browser, answers of the peer and timers are   *)
(* events of their own, each of which finds the microtasks of the one      *)
(* before it done.  jobs is the queue of those microtasks: a continuation  *)
(* is queued when the promise it awaits settles, behind what is queued     *)
(* already, and several continuations of one promise in the order of their *)
(* awaits.                                                                 *)
(***************************************************************************)
EXTENDS Naturals, Sequences

CONSTANTS
    Owners,   \* browser sessions
    MaxSlots, \* bound on the connect attempts
    None      \* no owner

ASSUME SessionAssumption == MaxSlots \in Nat \ {0} /\ None \notin Owners

VARIABLES
    slot,     \* slot[s]: the ActiveSlot of attempt s
    active,   \* the slot that is active, 0 if none is
    opened,   \* how many slots there have been
    retained, \* whose activity is retained, or None
    failed,   \* whose last validation failure is kept, or None
    jobs      \* the microtasks, each with the slot and the outcome it is about

vars == <<slot, active, opened, retained, failed, jobs>>

Slots == 1..MaxSlots

States == {"unused", "connecting", "authorizing", "connected", "closing"}
Operations == {"none", "authorize", "initialize", "catalog"}

(* offered: a promise has settled with it; held: in the slot; closed: its  *)
(* close() has been called.                                                *)
Resource == {"none", "offered", "held", "closed"}

Continuations ==
    {"authorize", "initialize", "catalog", "call", "failConnection", "callFailed",
     "rejected", "expiring", "expired", "disconnect", "shutdown"}

Slot ==
    [state : States, owner : Owners \cup {None}, oauth : BOOLEAN,
     asked : Operations,                   \* the operation the peer was asked for last,
     peer : {"idle", "pending", "late"},   \* and whether its deadline is over
     call : {"none", "running", "ended"},  \* callActive
     connection : Resource, authorization : Resource,
     token : BOOLEAN, expiry : BOOLEAN,    \* oauthState, oauthExpiry
     closer : {"none", "pending", "closed", "failed"}, \* closeClientPromise
     waiters : Seq(Continuations),         \* the awaits on it, in their order
     closing : BOOLEAN,                    \* there is a closingPromise
     shutdown : BOOLEAN,                   \* close() awaits it
     records : BOOLEAN]                    \* there is activity

Unused ==
    [state |-> "unused", owner |-> None, oauth |-> FALSE, asked |-> "none",
     peer |-> "idle", call |-> "none", connection |-> "none",
     authorization |-> "none", token |-> FALSE, expiry |-> FALSE,
     closer |-> "none", waiters |-> <<>>, closing |-> FALSE, shutdown |-> FALSE,
     records |-> FALSE]

(* Nothing awaits a close that has settled.                                *)
TypeOK ==
    /\ slot \in [Slots -> Slot]
    /\ active \in 0..opened
    /\ opened \in 0..MaxSlots
    /\ retained \in Owners \cup {None}
    /\ failed \in Owners \cup {None}
    /\ jobs \in Seq([at : Continuations, s : Slots, ok : BOOLEAN])
    /\ \A s \in Slots : slot[s].closer \in {"closed", "failed"} => slot[s].waiters = <<>>

Init ==
    /\ slot = [s \in Slots |-> Unused]
    /\ active = 0
    /\ opened = 0
    /\ retained = None
    /\ failed = None
    /\ jobs = <<>>

-----------------------------------------------------------------------------
Quiet == jobs = <<>>
Job(at, s, ok) == [at |-> at, s |-> s, ok |-> ok]
Post(queued) == jobs' = jobs \o queued
Becomes(s, r) == slot' = [slot EXCEPT ![s] = r]

Is(s, state) == active = s /\ slot[s].state = state

TakenToClose(resource) == IF resource = "held" THEN "closed" ELSE resource

(* closeClientOnce, and an await on it.                                    *)
ClosingClient(r, waiter) ==
    IF r.closer = "none"
    THEN [r EXCEPT !.closer = "pending", !.waiters = <<waiter>>,
                   !.connection = TakenToClose(@), !.authorization = TakenToClose(@)]
    ELSE [r EXCEPT !.waiters = Append(@, waiter)]

(* Mutant of LateClosed: what arrives after its deadline is dropped.       *)
LateDropped(resource) == IF resource = "offered" THEN "held" ELSE resource

LateClosed(resource) == IF resource = "offered" THEN "closed" ELSE resource

(* clearSlot: whoever calls it, the activity left in s replaces what was   *)
(* retained; only active is looked at first.                               *)
ClearSlot(s, r) ==
    /\ Becomes(s, [r EXCEPT !.records = FALSE, !.call = "none", !.token = FALSE,
                            !.expiry = FALSE])
    /\ retained' = IF r.records THEN r.owner ELSE None
    /\ active' = IF active = s THEN 0 ELSE active

-----------------------------------------------------------------------------
(* connect, and beginOAuth, which asks for an authorization first.         *)

(* Mutant of Forgets: what earlier attempts left behind is kept.           *)
ForgetsNothing == UNCHANGED <<retained, failed>>

Forgets == retained' = None /\ failed' = None

Open(owner, asked) ==
    /\ Quiet
    /\ active = 0
    /\ opened < MaxSlots
    /\ opened' = opened + 1
    /\ active' = opened + 1
    /\ Becomes(opened + 1, [Unused EXCEPT !.state = "connecting", !.owner = owner,
                                          !.oauth = (asked = "authorize"),
                                          !.asked = asked, !.peer = "pending"])
    /\ Forgets
    /\ UNCHANGED jobs

(* completeOAuth with the state of this authorization: it is consumed, and *)
(* the session stays authorizing while the peer is asked.                  *)
CompleteOAuth(s) ==
    /\ Quiet
    /\ Is(s, "authorizing")
    /\ slot[s].token /\ slot[s].authorization = "held"
    /\ Becomes(s, [slot[s] EXCEPT !.token = FALSE, !.expiry = FALSE,
                                  !.asked = "initialize", !.peer = "pending"])
    /\ UNCHANGED <<active, opened, retained, failed, jobs>>

RejectOAuth(s) ==
    /\ Quiet
    /\ Is(s, "authorizing")
    /\ slot[s].token
    /\ Becomes(s, ClosingClient([slot[s] EXCEPT !.token = FALSE, !.expiry = FALSE,
                                                !.state = "closing"], "rejected"))
    /\ UNCHANGED <<active, opened, retained, failed, jobs>>

(* The timer of an authorization nobody completed.                         *)
Expire(s) ==
    /\ Quiet
    /\ slot[s].expiry
    /\ LET r == [slot[s] EXCEPT !.expiry = FALSE]
       IN  Becomes(s, IF Is(s, "authorizing")
                      THEN ClosingClient([r EXCEPT !.token = FALSE, !.state = "closing"],
                                         "expiring")
                      ELSE r)
    /\ UNCHANGED <<active, opened, retained, failed, jobs>>

-----------------------------------------------------------------------------
(* runWithDeadline.                                                        *)

Offer(r, ok) ==
    CASE ok /\ r.asked = "authorize"  -> [r EXCEPT !.authorization = "offered"]
      [] ok /\ r.asked = "initialize" -> [r EXCEPT !.connection = "offered"]
      [] r.asked = "catalog"          -> [r EXCEPT !.records = TRUE]
      [] OTHER                        -> r

(* The peer answers in time, or too late to be of use.  A catalog request  *)
(* is recorded whenever it ends.                                           *)
PeerAnswers(s, ok) ==
    /\ Quiet
    /\ slot[s].peer # "idle"
    /\ LET r == Offer([slot[s] EXCEPT !.peer = "idle"], ok)
       IN  IF slot[s].peer = "pending"
           THEN Becomes(s, r) /\ Post(<<Job(r.asked, s, ok)>>)
           ELSE /\ Becomes(s, [r EXCEPT !.connection = LateClosed(@),
                                        !.authorization = LateClosed(@)])
                /\ UNCHANGED jobs
    /\ UNCHANGED <<active, opened, retained, failed>>

(* Mutant of Deadline: the operation is aborted, but its await goes on.    *)
DeadlineAbortsOnly(s) ==
    /\ Quiet
    /\ slot[s].peer = "pending"
    /\ Becomes(s, [slot[s] EXCEPT !.peer = "late"])
    /\ UNCHANGED <<active, opened, retained, failed, jobs>>

Deadline(s) ==
    /\ Quiet
    /\ slot[s].peer = "pending"
    /\ Becomes(s, [slot[s] EXCEPT !.peer = "late"])
    /\ Post(<<Job(slot[s].asked, s, FALSE)>>)
    /\ UNCHANGED <<active, opened, retained, failed>>

-----------------------------------------------------------------------------
(* The continuations of connect, beginOAuth and completeOAuth.             *)

(* The slot is active, in the state it had when the peer was asked.        *)
StillWanted(s) ==
    Is(s, IF slot[s].oauth /\ slot[s].asked # "authorize" THEN "authorizing" ELSE "connecting")

(* What came too late is closed, and the attempt fails: failConnection.    *)
Fails(s, r) ==
    Becomes(s, ClosingClient([r EXCEPT !.connection = LateClosed(@),
                                       !.authorization = LateClosed(@)], "failConnection"))

Authorized(s, ok) ==
    IF ok /\ StillWanted(s)
    THEN Becomes(s, [slot[s] EXCEPT !.authorization = "held", !.token = TRUE,
                                    !.state = "authorizing", !.expiry = TRUE])
    ELSE Fails(s, slot[s])

(* The connection is kept before its description is read, which may throw. *)
Initialized(s, ok) ==
    LET r == [slot[s] EXCEPT !.records = TRUE]
    IN  IF ok /\ StillWanted(s)
        THEN \/ Becomes(s, [r EXCEPT !.connection = "held", !.asked = "catalog",
                                     !.peer = "pending"])
             \/ Fails(s, [r EXCEPT !.connection = "held"])
        ELSE Fails(s, r)

Cataloged(s, ok) ==
    IF ok /\ StillWanted(s)
    THEN Becomes(s, [slot[s] EXCEPT !.state = "connected"])
    ELSE Fails(s, slot[s])

(* A slot that is being closed is left to whoever closes it.               *)
ConnectionFailed(s) ==
    IF active = s /\ slot[s].state # "closing"
    THEN ClearSlot(s, slot[s]) /\ failed' = slot[s].owner
    ELSE UNCHANGED <<slot, active, retained, failed>>

-----------------------------------------------------------------------------
(* call.                                                                   *)

Call(owner) ==
    /\ Quiet
    /\ active # 0
    /\ slot[active].owner = owner /\ slot[active].state = "connected"
    /\ slot[active].call = "none" /\ slot[active].connection = "held"
    /\ Becomes(active, [slot[active] EXCEPT !.call = "running"])
    /\ UNCHANGED <<active, opened, retained, failed, jobs>>

CallEnds(s, ok) ==
    /\ Quiet
    /\ slot[s].call = "running"
    /\ Becomes(s, [slot[s] EXCEPT !.call = "ended"])
    /\ Post(<<Job("call", s, ok)>>)
    /\ UNCHANGED <<active, opened, retained, failed>>

(* Mutant of Called: whatever became of the session while the call ran, it *)
(* is connected again afterwards.                                          *)
CalledReconnects(s, ok) ==
    LET r == [slot[s] EXCEPT !.records = TRUE]
    IN  Becomes(s, IF Is(s, "connected") /\ ~ok
                   THEN ClosingClient([r EXCEPT !.state = "closing"], "callFailed")
                   ELSE [r EXCEPT !.call = "none", !.state = "connected"])

(* A call that failed closes the session, without a closingPromise.        *)
Called(s, ok) ==
    LET r == [slot[s] EXCEPT !.records = TRUE]
    IN  Becomes(s, IF Is(s, "connected") /\ ~ok
                   THEN ClosingClient([r EXCEPT !.state = "closing"], "callFailed")
                   ELSE [r EXCEPT !.call = "none"])

-----------------------------------------------------------------------------
(* disconnect and close: beginClose.                                       *)

(* The abort rejects what is awaited, before anything is closed.           *)
Aborted(r) ==
    [r EXCEPT !.peer = IF @ = "pending" THEN "late" ELSE @,
              !.call = IF @ = "running" THEN "ended" ELSE @]

AbortJobs(s) ==
    (IF slot[s].peer = "pending" THEN <<Job(slot[s].asked, s, FALSE)>> ELSE <<>>)
    \o (IF slot[s].call = "running" THEN <<Job("call", s, FALSE)>> ELSE <<>>)

BeginClose(s, shutdown) ==
    LET r == [slot[s] EXCEPT !.shutdown = @ \/ shutdown]
    IN  IF r.closing
        THEN Becomes(s, r) /\ UNCHANGED jobs
        ELSE /\ Becomes(s, ClosingClient([Aborted(r) EXCEPT !.closing = TRUE,
                                                            !.state = "closing"],
                                         "disconnect"))
             /\ Post(AbortJobs(s))

Disconnect(owner) ==
    /\ Quiet
    /\ active # 0 /\ slot[active].owner = owner
    /\ BeginClose(active, FALSE)
    /\ UNCHANGED <<active, opened, retained, failed>>

Close ==
    /\ Quiet
    /\ IF active = 0
       THEN retained' = None /\ failed' = None /\ UNCHANGED <<slot, jobs>>
       ELSE BeginClose(active, TRUE) /\ UNCHANGED <<retained, failed>>
    /\ UNCHANGED <<active, opened>>

(* The client and the authorization have closed, or one would not.         *)
CloseSettles(s, ok) ==
    /\ Quiet
    /\ slot[s].closer = "pending"
    /\ Becomes(s, [slot[s] EXCEPT !.closer = IF ok THEN "closed" ELSE "failed",
                                  !.waiters = <<>>])
    /\ Post([i \in DOMAIN slot[s].waiters |-> Job(slot[s].waiters[i], s, ok)])
    /\ UNCHANGED <<active, opened, retained, failed>>

(* What was retained is dropped when the shutdown succeeded.               *)
Disconnected(s, ok) ==
    /\ ClearSlot(s, [slot[s] EXCEPT !.records = TRUE])
    /\ failed' = None
    /\ jobs' = Tail(jobs) \o (IF ok /\ slot[s].shutdown THEN <<Job("shutdown", s, ok)>>
                                                        ELSE <<>>)

-----------------------------------------------------------------------------
(* The first microtask runs.                                               *)
Continue(at) ==
    /\ ~Quiet
    /\ Head(jobs).at = at

Continues(at, Continuation(_, _)) ==
    /\ Continue(at)
    /\ Continuation(Head(jobs).s, Head(jobs).ok)
    /\ jobs' = Tail(jobs)
    /\ UNCHANGED <<active, opened, retained, failed>>

(* .finally() settles one microtask after the .catch() before it.          *)
Expiring ==
    /\ Continue("expiring")
    /\ jobs' = Append(Tail(jobs), [Head(jobs) EXCEPT !.at = "expired"])
    /\ UNCHANGED <<slot, active, opened, retained, failed>>

(* The slot is cleared, and with it goes the reason kept for its owner.    *)
Clears(at, kept) ==
    /\ Continue(at)
    /\ ClearSlot(Head(jobs).s, slot[Head(jobs).s])
    /\ failed' = IF kept THEN slot[Head(jobs).s].owner ELSE failed
    /\ jobs' = Tail(jobs)
    /\ UNCHANGED opened

RunJob ==
    \/ Continues("authorize", Authorized)
    \/ Continues("initialize", Initialized)
    \/ Continues("catalog", Cataloged)
    \/ Continues("call", Called)
    \/ /\ Continue("failConnection")
       /\ ConnectionFailed(Head(jobs).s)
       /\ jobs' = Tail(jobs) /\ UNCHANGED opened
    \/ Clears("callFailed", FALSE)
    \/ Clears("rejected", TRUE)
    \/ Expiring
    \/ Clears("expired", TRUE)
    \/ Continue("disconnect") /\ Disconnected(Head(jobs).s, Head(jobs).ok) /\ UNCHANGED opened
    \/ /\ Continue("shutdown")
       /\ retained' = None
       /\ jobs' = Tail(jobs) /\ UNCHANGED <<slot, active, opened, failed>>

Next ==
    \/ RunJob
    \/ \E owner \in Owners :
          \/ \E asked \in {"authorize", "initialize"} : Open(owner, asked)
          \/ Call(owner)
          \/ Disconnect(owner)
    \/ Close
    \/ \E s \in Slots :
          \/ CompleteOAuth(s) \/ RejectOAuth(s) \/ Expire(s) \/ Deadline(s)
          \/ \E ok \in BOOLEAN : PeerAnswers(s, ok) \/ CallEnds(s, ok) \/ CloseSettles(s, ok)

Spec == Init /\ [][Next]_vars

(* Microtasks run, timers fire (a call has one too), and the client's      *)
(* close() settles.  The peer never has to answer.                         *)
FairSpec ==
    /\ Spec
    /\ WF_vars(RunJob)
    /\ \A s \in Slots :
          /\ WF_vars(Deadline(s)) /\ WF_vars(Expire(s))
          /\ WF_vars(CallEnds(s, FALSE))
          /\ WF_vars(\E ok \in BOOLEAN : CloseSettles(s, ok))

-----------------------------------------------------------------------------
(* Whatever order answers, deadlines and requests come in: between events, *)
(* what the peer handed over is in the active slot, which has not begun to *)
(* close, or its close() was called; and a slot makes room for the next    *)
(* only when that close has settled.                                       *)
NothingLeaks ==
    Quiet => \A s \in 1..opened :
        /\ "offered" \notin {slot[s].connection, slot[s].authorization}
        /\ "held" \in {slot[s].connection, slot[s].authorization} =>
              active = s /\ slot[s].closer = "none"
        /\ active # s => slot[s].closer \in {"closed", "failed"}

(* clearSlot may run twice for a slot, and looks only at active.  Still no *)
(* clear comes so late that it speaks of one attempt while, or after,      *)
(* another one is made.                                                    *)
OnlyTheLastSpeaks ==
    /\ active # 0 => retained = None /\ failed = None
    /\ {retained, failed} \subseteq {None} \cup {slot[s].owner : s \in {opened} \ {0}}

Rank == [unused |-> 0, connecting |-> 1, authorizing |-> 2, connected |-> 3, closing |-> 4]

(* A session never comes back: once it closes, or its attempt has failed,  *)
(* no answer that was under way makes it connected, and no call begins.    *)
NeverReturns ==
    [][\A s \in Slots :
          /\ Rank[slot'[s].state] >= Rank[slot[s].state]
          /\ slot[s].closer # "none" => slot'[s].state \in {slot[s].state, "closing"}
          /\ s <= opened /\ active # s => active' # s /\ slot'[s].call # "running"]_vars

(* A peer that never answers blocks nobody: every attempt ends connected   *)
(* or idle, every close ends, and every call ends.                         *)
SessionsSettle ==
    \A s \in Slots :
        /\ (active = s) ~> (active # s \/ slot[s].state = "connected")
        /\ (slot[s].call # "none") ~> (slot[s].call = "none")
=============================================================================
