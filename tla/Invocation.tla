------------------------------ MODULE Invocation ------------------------------
(***************************************************************************)
(* engine.invoke of packages/core/src/engine.ts: the one path every        *)
(* adapter (CLI, MCP, HTTP, direct) takes to a capability.                 *)
(*                                                                         *)
(* JavaScript runs one piece of code at a time, so a step of this module   *)
(* is the code between two awaits.  Everything that can happen at an await *)
(* is a step of its own: a schema validator, an access rule or a handler   *)
(* settling, the caller's AbortSignal firing, the capability timer firing, *)
(* work the handler left behind reporting progress, and the microtask      *)
(* that carries a settled promise to the await that waits for it.  Several *)
(* invocations run side by side and may share one caller signal.           *)
(*                                                                         *)
(* Data is reduced to what the properties tell apart: an input is valid or *)
(* not, an error is its code, a progress report is its number.             *)
(***************************************************************************)
EXTENDS Naturals

CONSTANTS
    Invocations,   \* calls of engine.invoke
    Signals,       \* platform AbortSignals that callers own
    Capabilities,  \* the registered capability IDs
    Access,        \* [Capabilities -> access kind]
    Timed,         \* the capabilities with a timeoutMs
    Deprecated,    \* the capabilities with a deprecation notice
    Declaring,     \* the capabilities whose contract declares domain errors
    Requests,      \* the calls a caller may make (see RequestType)
    ThrownCodes,   \* the codes of EngineErrors that user code throws
    MaxProgress    \* bound on the numbers a handler reports

(* The codes a thrown EngineError may keep; DOMAIN_ERROR is absent because *)
(* only the runtime issues it.                                             *)
StableCodes ==
    {"CAPABILITY_NOT_FOUND", "INPUT_INVALID", "UNAUTHENTICATED", "FORBIDDEN",
     "OUTPUT_INVALID", "CANCELLED", "EXECUTION_FAILED"}

FailureCodes == StableCodes \cup {"DOMAIN_ERROR"}

(* What a caller's options and arguments amount to.  options: whether      *)
(* requestId, source and onProgress could be read and onProgress is a      *)
(* function; principal "malformed": reading or cloning it failed; signal   *)
(* "forged": not a platform AbortSignal, "unreadable": its accessor threw. *)
RequestType ==
    [options    : {"readable", "unreadable"},
     capability : Capabilities \cup {"unregistered"},
     principal  : {"anonymous", "known", "malformed"},
     signal     : Signals \cup {"absent", "forged", "unreadable"},
     onProgress : BOOLEAN]

NoRequest ==
    [options |-> "none", capability |-> "unregistered",
     principal |-> "anonymous", signal |-> "absent", onProgress |-> FALSE]

ASSUME InvocationAssumption ==
    /\ Access \in [Capabilities -> {"public", "authenticated", "function"}]
    /\ Timed \subseteq Capabilities
    /\ Deprecated \subseteq Capabilities
    /\ Declaring \subseteq Capabilities
    /\ "unregistered" \notin Capabilities
    /\ Signals \cap {"absent", "forged", "unreadable"} = {}
    /\ Requests \subseteq RequestType
    /\ ThrownCodes \subseteq StableCodes
    /\ MaxProgress \in Nat

VARIABLES
    callerAborted, \* callerAborted[s]: the caller has aborted its signal s
    request,       \* request[i]: the call, NoRequest before it is made
    pc,            \* pc[i]: the await the pipeline of i is suspended at
    verdict,       \* verdict[i]: what the function access rule answered
    controller,    \* controller[i]: the timeout wrapper's signal is aborted
    armed,         \* armed[i]: listeners and timer that cleanup() must release
    handler,       \* handler[i]: the promise of the capability's run
    race,          \* race[i]: what the pending raceWithCancellation settled to
    active,        \* active[i]: the progress reporter still delivers
    reported,      \* reported[i]: the last progress value delivered, 0 if none
    outcome,       \* outcome[i]: "pending", "completed" or the failure code
    warned         \* capabilities whose deprecation was already logged

vars == <<callerAborted, request, pc, verdict, controller, armed, handler,
          race, active, reported, outcome, warned>>

HandlerOutcomes == {"value", "raised", "unknown"} \cup ThrownCodes
    \* raised: a CapabilityError; unknown: anything else without a stable code

Racing == {"running", "resolving", "validatingOutput"}

Capability(i) == request[i].capability

CallerHasAborted(i) ==
    /\ request[i].signal \in Signals
    /\ callerAborted[request[i].signal]

(* Mutant of Aborted: cleanup() resets the wrapper.                        *)
AbortedUntilDone(i) ==
    /\ pc[i] # "done"
    /\ IF Capability(i) \in Timed THEN controller[i] ELSE CallerHasAborted(i)

(* context.signal is the wrapper's when the capability has a timeout and   *)
(* the caller's own otherwise.                                             *)
Aborted(i) ==
    IF Capability(i) \in Timed THEN controller[i] ELSE CallerHasAborted(i)

(* isStableEngineError and normalizeError: what a failure is published as. *)
Normalized(failure, aborted) ==
    IF failure \in StableCodes THEN failure
    ELSE IF aborted THEN "CANCELLED" ELSE "EXECUTION_FAILED"

TypeOK ==
    /\ callerAborted \in [Signals -> BOOLEAN]
    /\ request \in [Invocations -> Requests \cup {NoRequest}]
    /\ pc \in [Invocations -> {"idle", "validatingInput", "authorizing", "done"}
                                \cup Racing]
    /\ verdict \in [Invocations -> {"none", "allowed", "denied"}]
    /\ controller \in [Invocations -> BOOLEAN]
    /\ armed \in [Invocations -> SUBSET {"access", "caller", "timer"}]
    /\ handler \in [Invocations -> {"none", "scheduled", "running"}
                                     \cup HandlerOutcomes]
    /\ race \in [Invocations -> {"none", "open", "cancelled", "declared",
                   "undeclared", "valid", "invalid"} \cup HandlerOutcomes]
    /\ active \in [Invocations -> BOOLEAN]
    /\ reported \in [Invocations -> 0..MaxProgress]
    /\ outcome \in [Invocations -> {"pending", "completed"} \cup FailureCodes]
    /\ warned \subseteq Deprecated

Init ==
    /\ callerAborted \in [Signals -> BOOLEAN]
    /\ request = [i \in Invocations |-> NoRequest]
    /\ pc = [i \in Invocations |-> "idle"]
    /\ verdict = [i \in Invocations |-> "none"]
    /\ controller = [i \in Invocations |-> FALSE]
    /\ armed = [i \in Invocations |-> {}]
    /\ handler = [i \in Invocations |-> "none"]
    /\ race = [i \in Invocations |-> "none"]
    /\ active = [i \in Invocations |-> FALSE]
    /\ reported = [i \in Invocations |-> 0]
    /\ outcome = [i \in Invocations |-> "pending"]
    /\ warned = {}

-----------------------------------------------------------------------------
(* Mutant of Cleanup: removes the listener and forgets the timer.          *)
CleanupListener(i) == armed' = [armed EXCEPT ![i] = @ \ {"access", "caller"}]

(* createSignal's cleanup().                                               *)
Cleanup(i) == armed' = [armed EXCEPT ![i] = {}]

(* Mutant of CloseProgress: the reporter outlives run.                     *)
CloseProgressNever(i) == UNCHANGED active

(* The progress reporter's close().                                        *)
CloseProgress(i) == active' = [active EXCEPT ![i] = FALSE]

(* The end of an invocation: everything is released, the terminal event is *)
(* emitted and the caller's promise settles, all in one turn.              *)
Settle(i, result) ==
    /\ pc' = [pc EXCEPT ![i] = "done"]
    /\ outcome' = [outcome EXCEPT ![i] = result]
    /\ race' = [race EXCEPT ![i] = "none"]
    /\ Cleanup(i)
    /\ CloseProgress(i)

Suspend(i, point) == pc' = [pc EXCEPT ![i] = point]

(* From the call to the first await.  An unreadable option fails at once   *)
(* with both events; an unregistered ID fails after the started event; a   *)
(* malformed principal is remembered until the input has been validated.   *)
Start(i, r) ==
    /\ pc[i] = "idle"
    /\ request' = [request EXCEPT ![i] = r]
    /\ \/ /\ r.options = "unreadable"
          /\ Settle(i, "EXECUTION_FAILED")
          /\ UNCHANGED warned
       \/ /\ r.options = "readable"
          /\ r.capability = "unregistered"
          /\ Settle(i, "CAPABILITY_NOT_FOUND")
          /\ UNCHANGED warned
       \/ /\ r.options = "readable"
          /\ r.capability \in Capabilities
          /\ warned' = warned \cup ({r.capability} \cap Deprecated)
          /\ Suspend(i, "validatingInput")
          /\ UNCHANGED <<armed, race, active, outcome>>
    /\ UNCHANGED <<callerAborted, verdict, controller, handler, reported>>

(* The input validator settles.  Input validation is not raced against     *)
(* cancellation.                                                           *)
InputRejected(i) ==
    /\ pc[i] = "validatingInput"
    /\ Settle(i, "INPUT_INVALID")
    /\ UNCHANGED <<callerAborted, request, verdict, controller, handler,
                   reported, warned>>

(* Principal and signal are read only now.  A function rule gets a signal  *)
(* view of its own, without a deadline, and a signal that view cannot be   *)
(* made from fails here.                                                   *)
InputAccepted(i) ==
    LET r == request[i]
        byRule == Access[r.capability] = "function"
    IN
    /\ pc[i] = "validatingInput"
    /\ \/ /\ r.principal = "malformed"
          /\ Settle(i, "UNAUTHENTICATED")
       \/ /\ r.principal # "malformed"
          /\ r.signal = "unreadable" \/ (byRule /\ r.signal = "forged")
          /\ Settle(i, "EXECUTION_FAILED")
       \/ /\ r.principal # "malformed"
          /\ r.signal # "unreadable"
          /\ byRule => r.signal # "forged"
          /\ armed' = [armed EXCEPT ![i] =
                         IF byRule /\ r.signal \in Signals /\ ~CallerHasAborted(i)
                         THEN {"access"} ELSE {}]
          /\ Suspend(i, "authorizing")
          /\ UNCHANGED <<race, active, outcome>>
    /\ UNCHANGED <<callerAborted, request, verdict, controller, handler,
                   reported, warned>>

(* enforceAccess answers, the access view is released, and either the call *)
(* is refused or execution begins: the execution signal is derived, the    *)
(* deadline starts only now, and run is queued as the next microtask.      *)
Refused(i, code) ==
    /\ Settle(i, code)
    /\ UNCHANGED <<callerAborted, request, controller, handler, reported,
                   warned>>

Unauthorized(i) ==
    IF request[i].principal = "anonymous" THEN "UNAUTHENTICATED" ELSE "FORBIDDEN"

RuleDenies(i) ==
    /\ pc[i] = "authorizing"
    /\ Access[Capability(i)] = "function"
    /\ verdict' = [verdict EXCEPT ![i] = "denied"]
    /\ Refused(i, Unauthorized(i))

RuleThrows(i, failure) ==
    /\ pc[i] = "authorizing"
    /\ Access[Capability(i)] = "function"
    /\ Refused(i, Normalized(failure, FALSE))
    /\ UNCHANGED verdict

RequiresPrincipal(i) ==
    /\ pc[i] = "authorizing"
    /\ Access[Capability(i)] = "authenticated"
    /\ request[i].principal = "anonymous"
    /\ Refused(i, "UNAUTHENTICATED")
    /\ UNCHANGED verdict

(* Mutant of Admitted: anybody is authenticated.                           *)
AdmittedAnyone(i) == TRUE

Admitted(i) ==
    Access[Capability(i)] = "authenticated" => request[i].principal = "known"

(* createSignal: the wrapper exists only for a capability with a timeout;  *)
(* it listens to a caller signal that has not fired and arms the timer.    *)
ExecutionResources(i) ==
    IF Capability(i) \notin Timed THEN {}
    ELSE {"timer"} \cup
         (IF request[i].signal \in Signals /\ ~CallerHasAborted(i)
          THEN {"caller"} ELSE {})

Execute(i) ==
    /\ pc[i] = "authorizing"
    /\ Admitted(i)
    /\ IF Access[Capability(i)] = "function"
       THEN verdict' = [verdict EXCEPT ![i] = "allowed"]
       ELSE UNCHANGED verdict
    /\ \/ /\ request[i].signal = "forged"
          /\ Settle(i, "EXECUTION_FAILED")
          /\ UNCHANGED <<controller, handler>>
       \/ /\ request[i].signal # "forged"
          /\ CallerHasAborted(i)
          /\ controller' = [controller EXCEPT ![i] = Capability(i) \in Timed]
          /\ Settle(i, "CANCELLED")
          /\ UNCHANGED handler
       \/ /\ request[i].signal # "forged"
          /\ ~CallerHasAborted(i)
          /\ armed' = [armed EXCEPT ![i] = ExecutionResources(i)]
          /\ active' = [active EXCEPT ![i] = request[i].onProgress]
          /\ handler' = [handler EXCEPT ![i] = "scheduled"]
          /\ race' = [race EXCEPT ![i] = "open"]
          /\ Suspend(i, "running")
          /\ UNCHANGED <<controller, outcome>>
    /\ UNCHANGED <<callerAborted, request, reported, warned>>

-----------------------------------------------------------------------------
(* The capability's own code.                                              *)

(* The queued microtask calls run.  An abort in an earlier microtask does  *)
(* not stop it.                                                            *)
StartHandler(i) ==
    /\ handler[i] = "scheduled"
    /\ handler' = [handler EXCEPT ![i] = "running"]
    /\ UNCHANGED <<callerAborted, request, pc, verdict, controller, armed,
                   race, active, reported, outcome, warned>>

(* run settles, in time or long after the invocation was cancelled.        *)
SettleHandler(i, result) ==
    /\ handler[i] = "running"
    /\ handler' = [handler EXCEPT ![i] = result]
    /\ UNCHANGED <<callerAborted, request, pc, verdict, controller, armed,
                   race, active, reported, outcome, warned>>

(* Mutant of Advances: any other number is news.                           *)
AdvancesOrRetreats(i, progress) == progress # reported[i]

Advances(i, progress) == progress > reported[i]

(* context.reportProgress, from run or from work that run left behind.  A  *)
(* report after an abort closes the reporter.                              *)
ReportProgress(i, progress) ==
    /\ handler[i] \notin {"none", "scheduled"}
    /\ active[i]
    /\ \/ /\ Aborted(i)
          /\ active' = [active EXCEPT ![i] = FALSE]
          /\ UNCHANGED reported
       \/ /\ ~Aborted(i)
          /\ Advances(i, progress)
          /\ reported' = [reported EXCEPT ![i] = progress]
          /\ UNCHANGED active
    /\ UNCHANGED <<callerAborted, request, pc, verdict, controller, armed,
                   handler, race, outcome, warned>>

-----------------------------------------------------------------------------
(* Cancellation.  Aborting a signal runs its listeners at once: it aborts  *)
(* the wrappers that still listen and settles the races they decide.       *)
(* Mutants of Hears: only wrappers listen; every invocation listens.       *)
HearsThroughWrapper(i, s) == request[i].signal = s /\ "caller" \in armed[i]

HearsAnySignal(i, s) == TRUE

Hears(i, s) ==
    /\ request[i].signal = s
    /\ Capability(i) \in Timed => "caller" \in armed[i]

(* Mutant of Cancelled: the race does not listen to the signal.            *)
CancelledLater(settled) == settled

Cancelled(settled) == IF settled = "open" THEN "cancelled" ELSE settled

AbortCaller(s) ==
    /\ ~callerAborted[s]
    /\ callerAborted' = [callerAborted EXCEPT ![s] = TRUE]
    /\ controller' = [i \in Invocations |->
         controller[i] \/ (Capability(i) \in Timed /\ Hears(i, s))]
    /\ race' = [i \in Invocations |->
         IF Hears(i, s) THEN Cancelled(race[i]) ELSE race[i]]
    /\ armed' = [i \in Invocations |->
         IF request[i].signal = s THEN armed[i] \ {"access", "caller"}
         ELSE armed[i]]
    /\ UNCHANGED <<request, pc, verdict, handler, active, reported, outcome,
                   warned>>

FireTimer(i) ==
    /\ "timer" \in armed[i]
    /\ armed' = [armed EXCEPT ![i] = @ \ {"timer"}]
    /\ controller' = [controller EXCEPT ![i] = TRUE]
    /\ race' = [race EXCEPT ![i] = Cancelled(@)]
    /\ UNCHANGED <<callerAborted, request, pc, verdict, handler, active,
                   reported, outcome, warned>>

-----------------------------------------------------------------------------
(* The promise an await waits for reaches its race.  The first of it and   *)
(* the cancellation wins, whatever happens before the await continues.     *)
Race(i, result) ==
    /\ race[i] = "open"
    /\ race' = [race EXCEPT ![i] = result]
    /\ UNCHANGED <<callerAborted, request, pc, verdict, controller, armed,
                   handler, active, reported, outcome, warned>>

HandlerReachesRace(i) ==
    /\ pc[i] = "running"
    /\ handler[i] \in HandlerOutcomes
    /\ Race(i, handler[i])

(* resolveDomainError: an undeclared code, missing, unexpected or invalid  *)
(* details and a failing validator all resolve to nothing.                 *)
DomainErrorReachesRace(i, result) ==
    /\ pc[i] = "resolving"
    /\ result = "declared" => Capability(i) \in Declaring
    /\ Race(i, result)

OutputReachesRace(i, result) ==
    /\ pc[i] = "validatingOutput"
    /\ Race(i, result)

(* The await on run continues: the reporter closes, a CapabilityError goes *)
(* on to be resolved unless the signal has fired meanwhile, a value goes   *)
(* on to output validation, whose race refuses a signal that has fired.    *)
AwaitNext(i, point) ==
    /\ Suspend(i, point)
    /\ race' = [race EXCEPT ![i] = "open"]
    /\ CloseProgress(i)
    /\ UNCHANGED <<armed, outcome>>

ResumeRun(i) ==
    /\ pc[i] = "running"
    /\ race[i] # "open"
    /\ handler[i] # "scheduled"  \* queued first, so it has run by now
    /\ \/ /\ race[i] = "value"
          /\ ~Aborted(i)
          /\ AwaitNext(i, "validatingOutput")
       \/ /\ race[i] = "raised"
          /\ ~Aborted(i)
          /\ AwaitNext(i, "resolving")
       \/ /\ race[i] \in {"value", "raised"}
          /\ Aborted(i)
          /\ Settle(i, "CANCELLED")
       \/ /\ race[i] = "cancelled"
          /\ Settle(i, "CANCELLED")
       \/ /\ race[i] \in ThrownCodes \cup {"unknown"}
          /\ Settle(i, Normalized(race[i], Aborted(i)))
    /\ UNCHANGED <<callerAborted, request, verdict, controller, handler,
                   reported, warned>>

ResumeDomainError(i) ==
    /\ pc[i] = "resolving"
    /\ race[i] # "open"
    /\ Settle(i, CASE race[i] = "declared"   -> "DOMAIN_ERROR"
                   [] race[i] = "undeclared" -> "EXECUTION_FAILED"
                   [] race[i] = "cancelled"  -> "CANCELLED")
    /\ UNCHANGED <<callerAborted, request, verdict, controller, handler,
                   reported, warned>>

ResumeOutput(i) ==
    /\ pc[i] = "validatingOutput"
    /\ race[i] # "open"
    /\ Settle(i, CASE race[i] = "valid"     -> "completed"
                   [] race[i] = "invalid"   -> "OUTPUT_INVALID"
                   [] race[i] = "cancelled" -> "CANCELLED")
    /\ UNCHANGED <<callerAborted, request, verdict, controller, handler,
                   reported, warned>>

-----------------------------------------------------------------------------
UserCode(i) ==
    \/ \E r \in Requests : Start(i, r)
    \/ InputRejected(i)
    \/ InputAccepted(i)
    \/ RuleDenies(i)
    \/ \E failure \in ThrownCodes \cup {"unknown"} : RuleThrows(i, failure)
    \/ RequiresPrincipal(i)
    \/ Execute(i)
    \/ \E result \in HandlerOutcomes : SettleHandler(i, result)
    \/ \E progress \in 1..MaxProgress : ReportProgress(i, progress)
    \/ \E result \in {"declared", "undeclared"} :
          DomainErrorReachesRace(i, result)
    \/ \E result \in {"valid", "invalid"} : OutputReachesRace(i, result)

(* What the JavaScript host does by itself: run a queued microtask, fire a *)
(* timer that is due.                                                      *)
Host(i) ==
    \/ StartHandler(i)
    \/ FireTimer(i)
    \/ HandlerReachesRace(i)
    \/ ResumeRun(i)
    \/ ResumeDomainError(i)
    \/ ResumeOutput(i)

Next ==
    \/ \E i \in Invocations : UserCode(i) \/ Host(i)
    \/ \E s \in Signals : AbortCaller(s)

Spec == Init /\ [][Next]_vars

(* The host keeps running microtasks and fires every armed timer; nothing  *)
(* makes user code settle or a caller abort.                               *)
FairSpec ==
    /\ Spec
    /\ \A i \in Invocations :
          /\ WF_vars(StartHandler(i))
          /\ WF_vars(FireTimer(i))
          /\ WF_vars(HandlerReachesRace(i))
          /\ WF_vars(ResumeRun(i))
          /\ WF_vars(ResumeDomainError(i))
          /\ WF_vars(ResumeOutput(i))

-----------------------------------------------------------------------------
(* Safety.                                                                 *)

(* run is entered only for a readable call to a registered capability, by  *)
(* a principal the access rule accepted, with a usable signal: no order of *)
(* validator, rule and abort lets a refused call reach the handler.        *)
AuthorizedBeforeExecution ==
    \A i \in Invocations : handler[i] # "none" =>
        /\ request[i].options = "readable"
        /\ Capability(i) \in Capabilities
        /\ request[i].principal # "malformed"
        /\ request[i].signal \in Signals \cup {"absent"}
        /\ Access[Capability(i)] = "authenticated" =>
              request[i].principal = "known"
        /\ Access[Capability(i)] = "function" => verdict[i] = "allowed"

(* An abort, by the caller or by the deadline, always decides a race that  *)
(* is still open: no await of the execution stage misses it, also not the  *)
(* ones that begin after the abort.                                        *)
AbortDecidesRace ==
    \A i \in Invocations :
        pc[i] \in Racing /\ (Aborted(i) \/ CallerHasAborted(i)) =>
            race[i] # "open"

(* A timer or a listener is held only by the stage that needs it, so every *)
(* way out of an invocation has released what createSignal acquired.       *)
ResourcesBelongToStage ==
    \A i \in Invocations :
        /\ "access" \in armed[i] =>
              /\ pc[i] = "authorizing"
              /\ Access[Capability(i)] = "function"
        /\ armed[i] \cap {"caller", "timer"} # {} =>
              /\ pc[i] \in Racing
              /\ Capability(i) \in Timed

(* A success or a domain error is what the handler of this invocation      *)
(* produced, checked against its contract; cancellation has a cause.       *)
OutcomeHasCause ==
    \A i \in Invocations :
        /\ outcome[i] = "completed" => handler[i] = "value"
        /\ outcome[i] = "DOMAIN_ERROR" =>
              handler[i] = "raised" /\ Capability(i) \in Declaring
        /\ outcome[i] = "CANCELLED" /\ "CANCELLED" \notin ThrownCodes =>
              Capability(i) \in Capabilities /\ Aborted(i)

-----------------------------------------------------------------------------
(* What a step may never do.                                               *)

(* Progress reaches the caller in increasing order, before the terminal    *)
(* event and never once the invocation's signal is aborted, whatever the   *)
(* handler left running.                                                   *)
ProgressStep ==
    \A i \in Invocations : reported'[i] # reported[i] =>
        /\ reported'[i] > reported[i]
        /\ outcome[i] = "pending"
        /\ ~Aborted(i)

OrderedProgress == [][ProgressStep]_vars

-----------------------------------------------------------------------------
(* Liveness, with no help from user code.                                  *)

(* Once execution has begun, an abort of the caller settles the invocation *)
(* even when the handler or a validator never does, and so does the        *)
(* deadline of a capability that has one.                                  *)
CallsSettle ==
    \A i \in Invocations :
        /\ (pc[i] \in Racing /\ CallerHasAborted(i)) ~> (pc[i] = "done")
        /\ (pc[i] \in Racing /\ Capability(i) \in Timed) ~> (pc[i] = "done")

-----------------------------------------------------------------------------
(* The pipeline implements the contract its callers see.                   *)
ContractPhase(point) ==
    CASE point = "idle" -> "idle"
      [] point \in {"validatingInput", "authorizing"} -> "checking"
      [] point \in Racing -> "executing"
      [] point = "done" -> "settled"

Contract == INSTANCE InvocationContract WITH
    RefusalCodes <- StableCodes,
    phase        <- [i \in Invocations |-> ContractPhase(pc[i])],
    delivered    <- reported,
    result       <- outcome

ImplementsContract == Contract!Spec
=============================================================================
