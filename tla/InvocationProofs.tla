--------------------------- MODULE InvocationProofs ---------------------------
(***************************************************************************)
(* Proofs that the safety properties of Invocation hold for every set of   *)
(* invocations, signals, capabilities and calls.  The properties are not   *)
(* inductive: they need to know what each suspension point has established *)
(* so far (Good), which is what the code's order of checks guarantees.     *)
(*                                                                         *)
(* Then the same of MiddlewareChain, for chains of any depth, and of an    *)
(* invocation whose run is wrapped by one.  Nothing before that uses the   *)
(* assumptions about a chain: it holds with no wrapped call as well.       *)
(***************************************************************************)
EXTENDS ChainedInvocation, TLAPS

Started == {"validatingInput", "authorizing"} \cup Racing

(* What the call is known to be at each stage. *)
Checked(i) ==
    /\ pc[i] \in Started =>
          request[i].options = "readable" /\ Capability(i) \in Capabilities
    /\ pc[i] \in {"authorizing"} \cup Racing =>
          /\ request[i].principal # "malformed"
          /\ request[i].signal # "unreadable"
          /\ Access[Capability(i)] = "function" => request[i].signal # "forged"

(* What the handler and the race have done at each stage. *)
Executed(i) ==
    /\ pc[i] \in {"idle", "validatingInput", "authorizing"} =>
          handler[i] = "none" /\ race[i] = "none" /\ ~controller[i]
    /\ pc[i] \notin Racing => armed[i] \cap {"caller", "timer"} = {}
    /\ pc[i] = "running" =>
          /\ handler[i] # "none"
          /\ race[i] \in {"open", "cancelled"} \cup HandlerOutcomes
          /\ race[i] \in HandlerOutcomes => handler[i] = race[i]
    /\ pc[i] = "resolving" =>
          /\ handler[i] = "raised"
          /\ race[i] \in {"open", "cancelled", "declared", "undeclared"}
          /\ race[i] = "declared" => Capability(i) \in Declaring
    /\ pc[i] = "validatingOutput" =>
          /\ handler[i] = "value"
          /\ race[i] \in {"open", "cancelled", "valid", "invalid"}
    /\ active[i] => pc[i] = "running"
    /\ outcome[i] = "pending" <=> pc[i] # "done"

(* How the wrapper of a timed capability follows the caller's signal. *)
Followed(i) ==
    /\ race[i] = "cancelled" => Aborted(i)
    /\ pc[i] \in Racing /\ Capability(i) \in Timed =>
          IF CallerHasAborted(i) THEN controller[i]
          ELSE request[i].signal \in Signals => "caller" \in armed[i]

(* One invocation's share of the safety properties and of what they need.  *)
Good(i) ==
    /\ Checked(i)
    /\ Executed(i)
    /\ Followed(i)
    /\ handler[i] # "none" =>
          /\ request[i].options = "readable"
          /\ Capability(i) \in Capabilities
          /\ request[i].principal # "malformed"
          /\ request[i].signal \in Signals \cup {"absent"}
          /\ Access[Capability(i)] = "authenticated" =>
                request[i].principal = "known"
          /\ Access[Capability(i)] = "function" => verdict[i] = "allowed"
    /\ pc[i] \in Racing /\ (Aborted(i) \/ CallerHasAborted(i)) =>
          race[i] # "open"
    /\ "access" \in armed[i] =>
          pc[i] = "authorizing" /\ Access[Capability(i)] = "function"
    /\ armed[i] \cap {"caller", "timer"} # {} =>
          pc[i] \in Racing /\ Capability(i) \in Timed
    /\ outcome[i] = "completed" => handler[i] = "value"
    /\ outcome[i] = "DOMAIN_ERROR" =>
          handler[i] = "raised" /\ Capability(i) \in Declaring
    /\ outcome[i] = "CANCELLED" /\ "CANCELLED" \notin ThrownCodes =>
          Capability(i) \in Capabilities /\ Aborted(i)

IInv == TypeOK /\ \A i \in Invocations : Good(i)

-----------------------------------------------------------------------------
(* A step leaves an invocation alone when it changes nothing it reads. *)
Same(j) ==
    /\ pc'[j] = pc[j]
    /\ request'[j] = request[j]
    /\ verdict'[j] = verdict[j]
    /\ controller'[j] = controller[j]
    /\ armed'[j] = armed[j]
    /\ handler'[j] = handler[j]
    /\ race'[j] = race[j]
    /\ active'[j] = active[j]
    /\ outcome'[j] = outcome[j]

(* No outcome of a handler can be mistaken for a state of a promise. *)
LEMMA OutcomesAreDistinct ==
    HandlerOutcomes \cap {"none", "scheduled", "running", "open", "cancelled",
        "declared", "undeclared", "valid", "invalid"} = {}
BY InvocationAssumption DEF HandlerOutcomes, StableCodes

LEMMA Frame ==
    ASSUME NEW j \in Invocations, Good(j), Same(j),
           callerAborted' = callerAborted
    PROVE  Good(j)'
BY DEF Good, Same, Checked, Executed, Followed, Aborted, CallerHasAborted,
       Capability, Started, Racing, HandlerOutcomes

(* Every step but an abort concerns one invocation only. *)
Elsewhere(i) ==
    /\ callerAborted' = callerAborted
    /\ \A j \in Invocations \ {i} : Same(j)

LEMMA Local ==
    ASSUME IInv, NEW i \in Invocations, TypeOK', Good(i)', Elsewhere(i)
    PROVE  IInv'
<1>1. ASSUME NEW j \in Invocations, j # i PROVE Good(j)'
  <2>1. Same(j) /\ callerAborted' = callerAborted
    BY <1>1 DEF Elsewhere
  <2> QED BY <2>1, Frame DEF IInv
<1> QED BY <1>1 DEF IInv

(* What Settle assigns. *)
StageTypes ==
    /\ pc \in [Invocations -> {"idle", "validatingInput", "authorizing", "done"}
                                \cup Racing]
    /\ armed \in [Invocations -> SUBSET {"access", "caller", "timer"}]
    /\ race \in [Invocations -> {"none", "open", "cancelled", "declared",
                   "undeclared", "valid", "invalid"} \cup HandlerOutcomes]
    /\ active \in [Invocations -> BOOLEAN]
    /\ outcome \in [Invocations -> {"pending", "completed"} \cup FailureCodes]

LEMMA SettleTypes ==
    ASSUME TypeOK, NEW i \in Invocations,
           NEW ending \in {"completed"} \cup FailureCodes, Settle(i, ending)
    PROVE  /\ StageTypes'
           /\ pc'[i] = "done"
           /\ outcome'[i] = ending
           /\ armed'[i] = {}
           /\ race'[i] = "none"
           /\ active'[i] = FALSE
           /\ ending # "pending"
BY InvocationAssumption
DEF TypeOK, StageTypes, Settle, Cleanup, CloseProgress, Racing,
    HandlerOutcomes, FailureCodes, StableCodes

(* The outcome an invocation settles with has its cause. *)
Caused(i, ending) ==
    /\ ending = "completed" => handler[i] = "value"
    /\ ending = "DOMAIN_ERROR" =>
          handler[i] = "raised" /\ Capability(i) \in Declaring
    /\ ending = "CANCELLED" /\ "CANCELLED" \notin ThrownCodes =>
          Capability(i) \in Capabilities /\ Aborted(i)

LEMMA SettleStep ==
    ASSUME IInv, NEW i \in Invocations,
           NEW ending \in {"completed"} \cup FailureCodes, Settle(i, ending),
           Caused(i, ending),
           UNCHANGED <<callerAborted, request, verdict, controller, handler,
                       reported, warned>>
    PROVE  IInv'
<1>1. TypeOK'
  BY SettleTypes DEF IInv, TypeOK, StageTypes
<1>2. Good(i)'
  <2>1. Good(i) /\ pc'[i] = "done" /\ outcome'[i] = ending
        /\ armed'[i] = {} /\ race'[i] = "none" /\ active'[i] = FALSE
        /\ ending # "pending"
    BY SettleTypes DEF IInv
  <2>2. Checked(i)' /\ Executed(i)' /\ Followed(i)'
    BY <2>1 DEF Checked, Executed, Followed, Started, Racing
  <2> QED BY <2>1, <2>2
      DEF Good, Caused, Racing, Capability, Aborted, CallerHasAborted
<1>3. Elsewhere(i)
  BY DEF IInv, TypeOK, Settle, Cleanup, CloseProgress, Elsewhere, Same
<1> QED BY <1>1, <1>2, <1>3, Local

(* A call refused before its handler exists settles soundly. *)
LEMMA RefusalStep ==
    ASSUME IInv, NEW i \in Invocations, NEW code \in StableCodes,
           Settle(i, code), handler[i] = "none", handler' = handler,
           callerAborted' = callerAborted, reported' = reported,
           request' \in [Invocations -> Requests \cup {NoRequest}],
           verdict' \in [Invocations -> {"none", "allowed", "denied"}],
           controller' \in [Invocations -> BOOLEAN],
           warned' \subseteq Deprecated,
           \A j \in Invocations \ {i} :
              /\ request'[j] = request[j]
              /\ verdict'[j] = verdict[j]
              /\ controller'[j] = controller[j],
           code = "CANCELLED" /\ "CANCELLED" \notin ThrownCodes =>
              (Capability(i) \in Capabilities /\ Aborted(i))'
    PROVE  IInv'
<1>1. code \in {"completed"} \cup FailureCodes
      /\ code \notin {"completed", "DOMAIN_ERROR"}
  BY DEF FailureCodes, StableCodes
<1>2. TypeOK'
  BY <1>1, SettleTypes DEF IInv, TypeOK, StageTypes
<1>3. Good(i)'
  <2>1. pc'[i] = "done" /\ outcome'[i] = code /\ armed'[i] = {}
        /\ race'[i] = "none" /\ active'[i] = FALSE /\ code # "pending"
        /\ handler'[i] = "none"
    BY <1>1, SettleTypes DEF IInv
  <2>2. Checked(i)' /\ Executed(i)' /\ Followed(i)'
    BY <2>1 DEF Checked, Executed, Followed, Started, Racing
  <2> QED BY <1>1, <2>1, <2>2 DEF Good, Racing
<1>4. Elsewhere(i)
  BY DEF IInv, TypeOK, Settle, Cleanup, CloseProgress, Elsewhere, Same
<1> QED BY <1>2, <1>3, <1>4, Local

(* The codes this module writes down are stable ones. *)
LEMMA CodesAreStable ==
    {"INPUT_INVALID", "UNAUTHENTICATED", "EXECUTION_FAILED", "CANCELLED",
     "CAPABILITY_NOT_FOUND"} \subseteq StableCodes
BY DEF StableCodes

LEMMA StepStart ==
    ASSUME IInv, NEW i \in Invocations, NEW r \in Requests, Start(i, r)
    PROVE  IInv'
<1>1. Good(i) /\ TypeOK /\ pc[i] = "idle"
  BY DEF IInv, Start
<1>2. handler[i] = "none" /\ race[i] = "none" /\ armed[i] \cap {"caller", "timer"} = {}
      /\ outcome[i] = "pending" /\ active[i] = FALSE /\ "access" \notin armed[i]
      /\ controller[i] = FALSE
  BY <1>1 DEF Good, Executed, Racing, TypeOK
<1>3. request' \in [Invocations -> Requests \cup {NoRequest}]
      /\ request'[i] = r
      /\ \A j \in Invocations \ {i} : request'[j] = request[j]
  BY <1>1 DEF Start, TypeOK
<1>4. ASSUME NEW code \in {"EXECUTION_FAILED", "CAPABILITY_NOT_FOUND"},
             Settle(i, code), UNCHANGED warned
      PROVE  IInv'
  <2>1. code \in StableCodes /\ code # "CANCELLED"
    BY CodesAreStable
  <2> QED BY <1>1, <1>2, <1>3, <1>4, <2>1, RefusalStep DEF Start, TypeOK
<1>5. ASSUME r.options = "readable", r.capability \in Capabilities,
             warned' = warned \cup ({r.capability} \cap Deprecated),
             Suspend(i, "validatingInput"),
             UNCHANGED <<armed, race, active, outcome>>
      PROVE  IInv'
  <2>1. TypeOK'
    BY <1>1, <1>3, <1>5 DEF Start, Suspend, TypeOK, Racing
  <2>2. pc'[i] = "validatingInput" /\ handler'[i] = "none" /\ race'[i] = "none"
        /\ armed'[i] = armed[i] /\ outcome'[i] = "pending"
        /\ active'[i] = FALSE /\ controller'[i] = FALSE
    BY <1>1, <1>2, <1>5 DEF Start, Suspend, TypeOK
  <2>3. Checked(i)' /\ Executed(i)' /\ Followed(i)'
    BY <1>2, <1>3, <1>5, <2>2
    DEF Checked, Executed, Followed, Started, Racing, Capability
  <2>4. Good(i)'
    BY <1>2, <2>2, <2>3 DEF Good, Racing
  <2>5. Elsewhere(i)
    BY <1>1, <1>3, <1>5 DEF Start, Suspend, TypeOK, Elsewhere, Same
  <2> QED BY <2>1, <2>4, <2>5, Local
<1> QED BY <1>4, <1>5 DEF Start

LEMMA StepInputRejected ==
    ASSUME IInv, NEW i \in Invocations, InputRejected(i)
    PROVE  IInv'
<1>1. TypeOK'
  BY InvocationAssumption
  DEF IInv, TypeOK, InputRejected, Settle, Cleanup, CloseProgress, Racing,
      HandlerOutcomes, FailureCodes, StableCodes, RequestType, Capability
<1>2. Good(i)'
  BY OutcomesAreDistinct, InvocationAssumption
  DEF IInv, TypeOK, Good, Checked, Executed, Followed, Aborted,
      CallerHasAborted, Capability, Started, Racing, RequestType, InputRejected, Settle,
      Cleanup, CloseProgress
<1>3. Elsewhere(i)
  BY DEF IInv, TypeOK, InputRejected, Settle, Cleanup, CloseProgress, Elsewhere, Same
<1> QED BY <1>1, <1>2, <1>3, Local

LEMMA StepInputAccepted ==
    ASSUME IInv, NEW i \in Invocations, InputAccepted(i)
    PROVE  IInv'
<1>1. Good(i) /\ TypeOK /\ pc[i] = "validatingInput"
  BY DEF IInv, InputAccepted
<1>2. handler[i] = "none" /\ race[i] = "none" /\ outcome[i] = "pending"
      /\ active[i] = FALSE /\ controller[i] = FALSE
      /\ request[i].options = "readable" /\ Capability(i) \in Capabilities
  BY <1>1 DEF Good, Executed, Checked, Started, Racing, TypeOK
<1>3. ASSUME NEW code \in {"UNAUTHENTICATED", "EXECUTION_FAILED"},
             Settle(i, code)
      PROVE  IInv'
  <2>1. code \in StableCodes /\ code # "CANCELLED"
    BY CodesAreStable
  <2> QED BY <1>1, <1>2, <1>3, <2>1, RefusalStep DEF InputAccepted, TypeOK
<1>4. ASSUME NEW view \in SUBSET {"access"},
             view # {} => Access[Capability(i)] = "function",
             armed' = [armed EXCEPT ![i] = view],
             request[i].principal # "malformed",
             request[i].signal # "unreadable",
             Access[Capability(i)] = "function" => request[i].signal # "forged",
             Suspend(i, "authorizing"),
             UNCHANGED <<race, active, outcome>>
      PROVE  IInv'
  <2>1. TypeOK'
    BY <1>1, <1>4 DEF InputAccepted, Suspend, TypeOK, Racing
  <2>2. pc'[i] = "authorizing" /\ handler'[i] = "none" /\ race'[i] = "none"
        /\ armed'[i] = view /\ outcome'[i] = "pending" /\ request' = request
        /\ active'[i] = FALSE /\ controller'[i] = FALSE
    BY <1>1, <1>2, <1>4 DEF InputAccepted, Suspend, TypeOK
  <2>3. Checked(i)' /\ Executed(i)' /\ Followed(i)'
    BY <1>2, <1>4, <2>2
    DEF Checked, Executed, Followed, Started, Racing, Capability
  <2>4. Good(i)'
    BY <1>4, <2>2, <2>3 DEF Good, Racing, Capability
  <2>5. Elsewhere(i)
    BY <1>1, <1>4 DEF InputAccepted, Suspend, TypeOK, Elsewhere, Same
  <2> QED BY <2>1, <2>4, <2>5, Local
<1> QED BY <1>3, <1>4 DEF InputAccepted, Capability

LEMMA StepRuleDenies ==
    ASSUME IInv, NEW i \in Invocations, RuleDenies(i)
    PROVE  IInv'
<1>1. TypeOK'
  BY InvocationAssumption
  DEF IInv, TypeOK, RuleDenies, Settle, Cleanup, CloseProgress, Refused, Unauthorized, Racing,
      HandlerOutcomes, FailureCodes, StableCodes, RequestType, Capability
<1>2. Good(i)'
  BY OutcomesAreDistinct, InvocationAssumption
  DEF IInv, TypeOK, Good, Checked, Executed, Followed, Aborted,
      CallerHasAborted, Capability, Started, Racing, RequestType, RuleDenies, Settle,
      Cleanup, CloseProgress, Refused, Unauthorized
<1>3. Elsewhere(i)
  BY DEF IInv, TypeOK, RuleDenies, Settle, Cleanup, CloseProgress, Refused, Unauthorized,
         Elsewhere, Same
<1> QED BY <1>1, <1>2, <1>3, Local

LEMMA StepRuleThrows ==
    ASSUME IInv, NEW i \in Invocations,
           NEW failure \in ThrownCodes \cup {"unknown"}, RuleThrows(i, failure)
    PROVE  IInv'
<1>1. Normalized(failure, FALSE) \in StableCodes
      /\ (Normalized(failure, FALSE) = "CANCELLED" => "CANCELLED" \in ThrownCodes)
  BY CodesAreStable, InvocationAssumption DEF Normalized
<1>2. handler[i] = "none" /\ TypeOK
  BY DEF IInv, Good, Executed, RuleThrows
<1> QED BY <1>1, <1>2, RefusalStep DEF RuleThrows, Refused, TypeOK

LEMMA StepRequiresPrincipal ==
    ASSUME IInv, NEW i \in Invocations, RequiresPrincipal(i)
    PROVE  IInv'
<1>1. TypeOK'
  BY InvocationAssumption
  DEF IInv, TypeOK, RequiresPrincipal, Settle, Cleanup, CloseProgress, Refused, Racing,
      HandlerOutcomes, FailureCodes, StableCodes, RequestType, Capability
<1>2. Good(i)'
  BY OutcomesAreDistinct, InvocationAssumption
  DEF IInv, TypeOK, Good, Checked, Executed, Followed, Aborted,
      CallerHasAborted, Capability, Started, Racing, RequestType, RequiresPrincipal,
      Settle, Cleanup, CloseProgress, Refused
<1>3. Elsewhere(i)
  BY DEF IInv, TypeOK, RequiresPrincipal, Settle, Cleanup, CloseProgress, Refused,
         Elsewhere, Same
<1> QED BY <1>1, <1>2, <1>3, Local

LEMMA StepExecute ==
    ASSUME IInv, NEW i \in Invocations, Execute(i)
    PROVE  IInv'
<1>1. Good(i) /\ TypeOK /\ pc[i] = "authorizing"
  BY DEF IInv, Execute
<1>2. handler[i] = "none" /\ race[i] = "none" /\ outcome[i] = "pending"
      /\ controller[i] = FALSE /\ request[i].options = "readable"
      /\ Capability(i) \in Capabilities /\ request[i].principal # "malformed"
      /\ request[i].signal # "unreadable"
  BY <1>1 DEF Good, Executed, Checked, Started, Racing, TypeOK
<1>3. verdict' \in [Invocations -> {"none", "allowed", "denied"}]
      /\ \A j \in Invocations \ {i} : verdict'[j] = verdict[j]
  BY <1>1 DEF Execute, TypeOK
<1>4. CASE request[i].signal = "forged"
  BY <1>1, <1>2, <1>3, <1>4, CodesAreStable, RefusalStep DEF Execute, TypeOK
<1>5. CASE request[i].signal # "forged" /\ CallerHasAborted(i)
  <2>1. controller' \in [Invocations -> BOOLEAN]
        /\ controller'[i] = (Capability(i) \in Timed)
        /\ \A j \in Invocations \ {i} : controller'[j] = controller[j]
    <3>1. /\ controller' = [controller EXCEPT ![i] = Capability(i) \in Timed]
          /\ controller \in [Invocations -> BOOLEAN]
      BY <1>1, <1>5 DEF Execute, TypeOK
    <3>2. CASE Capability(i) \in Timed
      BY <3>1, <3>2
    <3>3. CASE Capability(i) \notin Timed
      BY <3>1, <3>3
    <3> QED BY <3>2, <3>3
  <2>2. (Capability(i) \in Capabilities /\ Aborted(i))'
    BY <1>2, <1>5, <2>1 DEF Execute, Capability, Aborted, CallerHasAborted
  <2>3. /\ Settle(i, "CANCELLED")
        /\ UNCHANGED <<handler, callerAborted, request, reported, warned>>
    BY <1>5 DEF Execute
  <2>4. request \in [Invocations -> Requests \cup {NoRequest}]
        /\ warned \subseteq Deprecated
    BY <1>1 DEF TypeOK
  <2>5. "CANCELLED" \in StableCodes
    BY DEF StableCodes
  <2> QED BY <1>2, <1>3, <2>1, <2>2, <2>3, <2>4, <2>5, RefusalStep
<1>6. CASE request[i].signal # "forged" /\ ~CallerHasAborted(i)
  <2>1. /\ armed' = [armed EXCEPT ![i] = ExecutionResources(i)]
        /\ active' = [active EXCEPT ![i] = request[i].onProgress]
        /\ handler' = [handler EXCEPT ![i] = "scheduled"]
        /\ race' = [race EXCEPT ![i] = "open"]
        /\ pc' = [pc EXCEPT ![i] = "running"]
        /\ UNCHANGED <<controller, outcome, callerAborted, request, reported,
                       warned>>
    BY <1>6 DEF Execute, Suspend
  <2>2. request[i] \in Requests
    BY <1>1, <1>2 DEF TypeOK, NoRequest
  <2>3. request[i].onProgress \in BOOLEAN
        /\ request[i].principal \in {"anonymous", "known", "malformed"}
        /\ request[i].signal \in Signals \cup {"absent"}
    BY <1>2, <1>6, <2>2, InvocationAssumption DEF RequestType
  <2>4. ExecutionResources(i) \in SUBSET {"caller", "timer"}
        /\ (ExecutionResources(i) # {} => Capability(i) \in Timed)
        /\ (Capability(i) \in Timed /\ request[i].signal \in Signals
              => "caller" \in ExecutionResources(i))
    BY <1>6 DEF ExecutionResources
  <2>5. TypeOK'
    BY <1>1, <1>3, <2>1, <2>3, <2>4 DEF TypeOK, Racing
  <2>6. /\ pc'[i] = "running" /\ handler'[i] = "scheduled"
        /\ race'[i] = "open" /\ armed'[i] = ExecutionResources(i)
        /\ outcome'[i] = "pending" /\ controller'[i] = FALSE
        /\ Aborted(i)' = FALSE /\ CallerHasAborted(i)' = FALSE
    BY <1>1, <1>2, <1>6, <2>1
    DEF TypeOK, Aborted, CallerHasAborted, Capability
  <2>7. Checked(i)' /\ Executed(i)' /\ Followed(i)'
    BY <1>1, <1>2, <2>1, <2>4, <2>6, OutcomesAreDistinct
    DEF Good, Checked, Executed, Followed, Started, Racing, Capability
  <2>8. /\ Access[Capability(i)] = "authenticated" =>
              request[i].principal = "known"
        /\ Access[Capability(i)] = "function" => verdict'[i] = "allowed"
    BY <1>1 DEF Execute, Admitted, TypeOK
  <2>9. Good(i)'
    BY <1>2, <2>1, <2>3, <2>4, <2>6, <2>7, <2>8 DEF Good, Racing, Capability
  <2>10. Elsewhere(i)
    BY <1>1, <1>3, <2>1 DEF TypeOK, Elsewhere, Same
  <2> QED BY <2>5, <2>9, <2>10, Local
<1> QED BY <1>4, <1>5, <1>6

LEMMA StepStartHandler ==
    ASSUME IInv, NEW i \in Invocations, StartHandler(i)
    PROVE  IInv'
<1>1. TypeOK'
  BY InvocationAssumption
  DEF IInv, TypeOK, StartHandler, Racing,
      HandlerOutcomes, FailureCodes, StableCodes, RequestType, Capability
<1>2. Good(i)'
  BY OutcomesAreDistinct, InvocationAssumption
  DEF IInv, TypeOK, Good, Checked, Executed, Followed, Aborted,
      CallerHasAborted, Capability, Started, Racing, RequestType, StartHandler
<1>3. Elsewhere(i)
  BY DEF IInv, TypeOK, StartHandler, Elsewhere, Same
<1> QED BY <1>1, <1>2, <1>3, Local

LEMMA StepSettleHandler ==
    ASSUME IInv, NEW i \in Invocations, NEW ending \in HandlerOutcomes, SettleHandler(i, ending)
    PROVE  IInv'
<1>1. TypeOK'
  BY InvocationAssumption
  DEF IInv, TypeOK, SettleHandler, Racing,
      HandlerOutcomes, FailureCodes, StableCodes, RequestType, Capability
<1>2. Good(i)'
  BY OutcomesAreDistinct, InvocationAssumption
  DEF IInv, TypeOK, Good, Checked, Executed, Followed, Aborted,
      CallerHasAborted, Capability, Started, Racing, RequestType, SettleHandler
<1>3. Elsewhere(i)
  BY DEF IInv, TypeOK, SettleHandler, Elsewhere, Same
<1> QED BY <1>1, <1>2, <1>3, Local

LEMMA StepReportProgress ==
    ASSUME IInv, NEW i \in Invocations, NEW progress \in 1..MaxProgress,
           ReportProgress(i, progress)
    PROVE  IInv'
<1>1. Good(i) /\ TypeOK /\ active[i]
  BY DEF IInv, ReportProgress
<1>2. progress \in 0..MaxProgress
  BY InvocationAssumption
<1>3. reported' \in [Invocations -> 0..MaxProgress]
  BY <1>1, <1>2 DEF ReportProgress, TypeOK
<1>4. active' \in [Invocations -> BOOLEAN]
      /\ \A j \in Invocations \ {i} : active'[j] = active[j]
  BY <1>1 DEF ReportProgress, TypeOK
<1>5. TypeOK'
  BY <1>1, <1>3, <1>4 DEF ReportProgress, TypeOK
<1>6. Good(i)'
  BY <1>1, <1>4, OutcomesAreDistinct
  DEF ReportProgress, Good, Checked, Executed, Followed, Aborted,
      CallerHasAborted, Capability, Started, Racing
<1>7. Elsewhere(i)
  BY <1>4 DEF ReportProgress, Elsewhere, Same
<1> QED BY <1>5, <1>6, <1>7, Local

LEMMA StepFireTimer ==
    ASSUME IInv, NEW i \in Invocations, FireTimer(i)
    PROVE  IInv'
<1>1. TypeOK'
  BY InvocationAssumption
  DEF IInv, TypeOK, FireTimer, Cancelled, Racing,
      HandlerOutcomes, FailureCodes, StableCodes, RequestType, Capability
<1>2. Good(i)'
  BY OutcomesAreDistinct, InvocationAssumption
  DEF IInv, TypeOK, Good, Checked, Executed, Followed, Aborted,
      CallerHasAborted, Capability, Started, Racing, RequestType, FireTimer, Cancelled
<1>3. Elsewhere(i)
  BY DEF IInv, TypeOK, FireTimer, Cancelled, Elsewhere, Same
<1> QED BY <1>1, <1>2, <1>3, Local

LEMMA StepHandlerReachesRace ==
    ASSUME IInv, NEW i \in Invocations, HandlerReachesRace(i)
    PROVE  IInv'
<1>1. TypeOK'
  BY InvocationAssumption
  DEF IInv, TypeOK, HandlerReachesRace, Race, Racing,
      HandlerOutcomes, FailureCodes, StableCodes, RequestType, Capability
<1>2. Good(i)'
  BY OutcomesAreDistinct, InvocationAssumption
  DEF IInv, TypeOK, Good, Checked, Executed, Followed, Aborted,
      CallerHasAborted, Capability, Started, Racing, RequestType, HandlerReachesRace, Race
<1>3. Elsewhere(i)
  BY DEF IInv, TypeOK, HandlerReachesRace, Race, Elsewhere, Same
<1> QED BY <1>1, <1>2, <1>3, Local

LEMMA StepDomainErrorReachesRace ==
    ASSUME IInv, NEW i \in Invocations, NEW ending \in {"declared", "undeclared"},
           DomainErrorReachesRace(i, ending)
    PROVE  IInv'
<1>1. TypeOK'
  BY InvocationAssumption
  DEF IInv, TypeOK, DomainErrorReachesRace, Race, Racing,
      HandlerOutcomes, FailureCodes, StableCodes, RequestType, Capability
<1>2. Good(i)'
  BY OutcomesAreDistinct, InvocationAssumption
  DEF IInv, TypeOK, Good, Checked, Executed, Followed, Aborted,
      CallerHasAborted, Capability, Started, Racing, RequestType, DomainErrorReachesRace, Race
<1>3. Elsewhere(i)
  BY DEF IInv, TypeOK, DomainErrorReachesRace, Race, Elsewhere, Same
<1> QED BY <1>1, <1>2, <1>3, Local

LEMMA StepOutputReachesRace ==
    ASSUME IInv, NEW i \in Invocations, NEW ending \in {"valid", "invalid"},
           OutputReachesRace(i, ending)
    PROVE  IInv'
<1>1. TypeOK'
  BY InvocationAssumption
  DEF IInv, TypeOK, OutputReachesRace, Race, Racing,
      HandlerOutcomes, FailureCodes, StableCodes, RequestType, Capability
<1>2. Good(i)'
  BY OutcomesAreDistinct, InvocationAssumption
  DEF IInv, TypeOK, Good, Checked, Executed, Followed, Aborted,
      CallerHasAborted, Capability, Started, Racing, RequestType, OutputReachesRace, Race
<1>3. Elsewhere(i)
  BY DEF IInv, TypeOK, OutputReachesRace, Race, Elsewhere, Same
<1> QED BY <1>1, <1>2, <1>3, Local

LEMMA StepResumeRun ==
    ASSUME IInv, NEW i \in Invocations, ResumeRun(i)
    PROVE  IInv'
<1> DEFINE Moves(point) ==
       /\ AwaitNext(i, point)
       /\ pc[i] = "running"
       /\ ~Aborted(i)
       /\ UNCHANGED <<callerAborted, request, verdict, controller, handler,
                      reported, warned>>
<1>1. Good(i) /\ TypeOK
  BY DEF IInv
<1>2. ASSUME Moves("validatingOutput"), race[i] = "value" PROVE IInv'
  <2>1. TypeOK'
    BY <1>1, <1>2 DEF TypeOK, AwaitNext, Suspend, CloseProgress, Racing
  <2>2. handler[i] = "value"
    BY <1>1, <1>2 DEF Good, Executed, HandlerOutcomes
  <2>3. Good(i)'
    BY <1>1, <1>2, <2>2
    DEF TypeOK, AwaitNext, Suspend, CloseProgress, Good, Checked, Executed,
        Followed, Aborted, CallerHasAborted, Capability, Started, Racing
  <2>4. Elsewhere(i)
    BY <1>1, <1>2
    DEF TypeOK, AwaitNext, Suspend, CloseProgress, Elsewhere, Same
  <2> QED BY <2>1, <2>3, <2>4, Local
<1>3. ASSUME Moves("resolving"), race[i] = "raised" PROVE IInv'
  <2>1. TypeOK'
    BY <1>1, <1>3 DEF TypeOK, AwaitNext, Suspend, CloseProgress, Racing
  <2>2. handler[i] = "raised"
    BY <1>1, <1>3 DEF Good, Executed, HandlerOutcomes
  <2>3. Good(i)'
    BY <1>1, <1>3, <2>2
    DEF TypeOK, AwaitNext, Suspend, CloseProgress, Good, Checked, Executed,
        Followed, Aborted, CallerHasAborted, Capability, Started, Racing
  <2>4. Elsewhere(i)
    BY <1>1, <1>3
    DEF TypeOK, AwaitNext, Suspend, CloseProgress, Elsewhere, Same
  <2> QED BY <2>1, <2>3, <2>4, Local
<1> DEFINE Ends(ending) ==
       /\ Settle(i, ending)
       /\ UNCHANGED <<callerAborted, request, verdict, controller, handler,
                      reported, warned>>
<1>4. Capability(i) \in Capabilities
  BY <1>1 DEF ResumeRun, Good, Checked, Started, Racing
<1>5. ASSUME Ends("CANCELLED"), Aborted(i) PROVE IInv'
  <2>1. Caused(i, "CANCELLED")
    BY <1>4, <1>5 DEF Caused
  <2>2. "CANCELLED" \in {"completed"} \cup FailureCodes
    BY DEF FailureCodes, StableCodes
  <2> QED BY <1>5, <2>1, <2>2, SettleStep
<1>6. ASSUME NEW code \in ThrownCodes, Ends(code) PROVE IInv'
  <2>1. code \in StableCodes
    BY InvocationAssumption
  <2>2. Caused(i, code)
    BY <2>1 DEF Caused, StableCodes
  <2> QED BY <1>6, <2>1, <2>2, SettleStep DEF FailureCodes
<1>7. ASSUME Ends("EXECUTION_FAILED") PROVE IInv'
  <2>1. Caused(i, "EXECUTION_FAILED")
    BY DEF Caused
  <2>2. "EXECUTION_FAILED" \in {"completed"} \cup FailureCodes
    BY DEF FailureCodes, StableCodes
  <2> QED BY <1>7, <2>1, <2>2, SettleStep
<1>8. race[i] = "cancelled" => Aborted(i)
  BY <1>1 DEF Good, Followed
<1>9. CASE race[i] \in ThrownCodes
  <2>1. race[i] \in StableCodes /\ race[i] \notin {"value", "raised", "cancelled"}
    BY <1>9, InvocationAssumption DEF StableCodes
  <2>2. Ends(race[i])
    BY <2>1 DEF ResumeRun, Normalized
  <2> QED BY <1>9, <2>2, <1>6
<1>10. CASE race[i] = "unknown"
  <2>1. race[i] \notin StableCodes \cup {"value", "raised", "cancelled"}
    BY <1>10 DEF StableCodes
  <2>2. CASE Aborted(i)
    BY <1>5, <2>1, <2>2 DEF ResumeRun, Normalized
  <2>3. CASE ~Aborted(i)
    BY <1>7, <2>1, <2>3 DEF ResumeRun, Normalized
  <2> QED BY <2>2, <2>3
<1>11. CASE race[i] \notin ThrownCodes \cup {"unknown"}
  BY <1>2, <1>3, <1>5, <1>8, <1>11 DEF ResumeRun
<1> QED BY <1>9, <1>10, <1>11

LEMMA StepResumeDomainError ==
    ASSUME IInv, NEW i \in Invocations, ResumeDomainError(i)
    PROVE  IInv'
<1>1. Good(i)
  BY DEF IInv
<1>2. UNCHANGED <<callerAborted, request, verdict, controller, handler,
                  reported, warned>>
  BY DEF ResumeDomainError
<1>3. CASE race[i] = "declared"
  <2>1. Settle(i, "DOMAIN_ERROR")
    BY <1>3 DEF ResumeDomainError
  <2>2. Caused(i, "DOMAIN_ERROR")
    BY <1>1, <1>3
    DEF ResumeDomainError, Caused, Good, Checked, Executed, Followed, Started, Racing
  <2>3. "DOMAIN_ERROR" \in {"completed"} \cup FailureCodes
    BY DEF FailureCodes, StableCodes
  <2> QED BY <1>2, <2>1, <2>2, <2>3, SettleStep
<1>4. CASE race[i] = "undeclared"
  <2>1. Settle(i, "EXECUTION_FAILED")
    BY <1>4 DEF ResumeDomainError
  <2>2. Caused(i, "EXECUTION_FAILED")
    BY <1>1, <1>4
    DEF ResumeDomainError, Caused, Good, Checked, Executed, Followed, Started, Racing
  <2>3. "EXECUTION_FAILED" \in {"completed"} \cup FailureCodes
    BY DEF FailureCodes, StableCodes
  <2> QED BY <1>2, <2>1, <2>2, <2>3, SettleStep
<1>5. CASE race[i] = "cancelled"
  <2>1. Settle(i, "CANCELLED")
    BY <1>5 DEF ResumeDomainError
  <2>2. Caused(i, "CANCELLED")
    BY <1>1, <1>5
    DEF ResumeDomainError, Caused, Good, Checked, Executed, Followed, Started, Racing
  <2>3. "CANCELLED" \in {"completed"} \cup FailureCodes
    BY DEF FailureCodes, StableCodes
  <2> QED BY <1>2, <2>1, <2>2, <2>3, SettleStep
<1> QED BY <1>1, <1>3, <1>4, <1>5 DEF ResumeDomainError, Good, Executed

LEMMA StepResumeOutput ==
    ASSUME IInv, NEW i \in Invocations, ResumeOutput(i)
    PROVE  IInv'
<1>1. Good(i)
  BY DEF IInv
<1>2. UNCHANGED <<callerAborted, request, verdict, controller, handler,
                  reported, warned>>
  BY DEF ResumeOutput
<1>3. CASE race[i] = "valid"
  <2>1. Settle(i, "completed")
    BY <1>3 DEF ResumeOutput
  <2>2. Caused(i, "completed")
    BY <1>1, <1>3
    DEF ResumeOutput, Caused, Good, Checked, Executed, Followed, Started, Racing
  <2>3. "completed" \in {"completed"} \cup FailureCodes
    BY DEF FailureCodes, StableCodes
  <2> QED BY <1>2, <2>1, <2>2, <2>3, SettleStep
<1>4. CASE race[i] = "invalid"
  <2>1. Settle(i, "OUTPUT_INVALID")
    BY <1>4 DEF ResumeOutput
  <2>2. Caused(i, "OUTPUT_INVALID")
    BY <1>1, <1>4
    DEF ResumeOutput, Caused, Good, Checked, Executed, Followed, Started, Racing
  <2>3. "OUTPUT_INVALID" \in {"completed"} \cup FailureCodes
    BY DEF FailureCodes, StableCodes
  <2> QED BY <1>2, <2>1, <2>2, <2>3, SettleStep
<1>5. CASE race[i] = "cancelled"
  <2>1. Settle(i, "CANCELLED")
    BY <1>5 DEF ResumeOutput
  <2>2. Caused(i, "CANCELLED")
    BY <1>1, <1>5
    DEF ResumeOutput, Caused, Good, Checked, Executed, Followed, Started, Racing
  <2>3. "CANCELLED" \in {"completed"} \cup FailureCodes
    BY DEF FailureCodes, StableCodes
  <2> QED BY <1>2, <2>1, <2>2, <2>3, SettleStep
<1> QED BY <1>1, <1>3, <1>4, <1>5 DEF ResumeOutput, Good, Executed

LEMMA StepAbortCaller ==
    ASSUME IInv, NEW s \in Signals, AbortCaller(s)
    PROVE  IInv'
<1>1. TypeOK'
  BY DEF IInv, TypeOK, AbortCaller, Cancelled, Hears
<1>2. ASSUME NEW j \in Invocations, request[j].signal # s PROVE Good(j)'
  BY <1>2, OutcomesAreDistinct
  DEF IInv, TypeOK, AbortCaller, Cancelled, Hears, Good, Checked, Executed,
      Followed, Aborted, CallerHasAborted, Capability, Started, Racing
<1>3. ASSUME NEW j \in Invocations, request[j].signal = s PROVE Good(j)'
  <2>1. Good(j) /\ TypeOK
    BY DEF IInv
  <2>2. CallerHasAborted(j)'
    BY <1>3, <2>1 DEF AbortCaller, CallerHasAborted, TypeOK
  <2>3. ~CallerHasAborted(j)
    BY <1>3 DEF AbortCaller, CallerHasAborted
  <2>4. /\ armed'[j] = armed[j] \ {"access", "caller"}
        /\ race'[j] = IF Capability(j) \in Timed => "caller" \in armed[j]
                      THEN Cancelled(race[j]) ELSE race[j]
        /\ controller'[j] = (controller[j] \/
              (Capability(j) \in Timed /\ "caller" \in armed[j]))
        /\ UNCHANGED <<request, pc, verdict, handler, active, outcome>>
    BY <1>3, <2>1 DEF AbortCaller, Hears, TypeOK
  <2>5. pc[j] \in Racing /\ Capability(j) \in Timed => "caller" \in armed[j]
    BY <1>3, <2>1, <2>3 DEF Good, Followed
  <2>6. pc[j] \in Racing => race'[j] = Cancelled(race[j]) /\ Aborted(j)'
    BY <2>2, <2>4, <2>5 DEF Aborted, Capability
  <2>7. Aborted(j) => Aborted(j)'
    BY <2>2, <2>4 DEF Aborted, Capability
  <2>8. Checked(j)'
    BY <2>1, <2>4 DEF Good, Checked, Capability
  <2>9. pc[j] \in {"idle", "validatingInput", "authorizing", "done"}
        => race'[j] \in {race[j], Cancelled(race[j])}
    BY <2>4
  <2>10. Executed(j)'
    <3>1. CASE pc[j] \in Racing
      BY <3>1, <2>1, <2>4, <2>6, OutcomesAreDistinct
      DEF Good, Executed, Cancelled, Capability, Racing
    <3>2. CASE pc[j] \notin Racing
      BY <3>2, <2>1, <2>4, OutcomesAreDistinct
      DEF Good, Executed, Cancelled, Capability, Racing
    <3> QED BY <3>1, <3>2
  <2>11. Followed(j)'
    <3>1. CASE pc[j] \in Racing
      BY <3>1, <2>2, <2>4, <2>6 DEF Followed, Aborted, Capability
    <3>2. CASE pc[j] \notin Racing
      BY <3>2, <2>1, <2>2, <2>4, <2>7
      DEF Good, Followed, Cancelled, Aborted, Capability
    <3> QED BY <3>1, <3>2
  <2>12. pc[j] \in Racing => race'[j] # "open"
    BY <2>6 DEF Cancelled
  <2> QED
    BY <2>1, <2>4, <2>7, <2>8, <2>10, <2>11, <2>12 DEF Good, Capability
<1> QED BY <1>1, <1>2, <1>3 DEF IInv

-----------------------------------------------------------------------------
LEMMA Initially == Init => IInv
<1> SUFFICES ASSUME Init PROVE IInv
  OBVIOUS
<1>1. TypeOK
  BY InvocationAssumption DEF Init, TypeOK, Racing
<1>2. ASSUME NEW i \in Invocations PROVE Good(i)
  BY InvocationAssumption
  DEF Init, Good, Checked, Executed, Followed, Started, Racing, Capability,
      NoRequest
<1> QED BY <1>1, <1>2 DEF IInv

LEMMA Stutter == IInv /\ UNCHANGED vars => IInv'
BY DEF vars, IInv, TypeOK, Good, Checked, Executed, Followed, Aborted,
       CallerHasAborted, Capability

LEMMA Step == IInv /\ [Next]_vars => IInv'
<1> SUFFICES ASSUME IInv, [Next]_vars PROVE IInv'
  OBVIOUS
<1>1. ASSUME NEW i \in Invocations, UserCode(i) PROVE IInv'
  BY <1>1, StepStart, StepInputRejected, StepInputAccepted, StepRuleDenies,
     StepRuleThrows, StepRequiresPrincipal, StepExecute, StepSettleHandler,
     StepReportProgress, StepDomainErrorReachesRace, StepOutputReachesRace
  DEF UserCode
<1>2. ASSUME NEW i \in Invocations, Host(i) PROVE IInv'
  BY <1>2, StepStartHandler, StepFireTimer, StepHandlerReachesRace,
     StepResumeRun, StepResumeDomainError, StepResumeOutput DEF Host
<1>3. ASSUME NEW s \in Signals, AbortCaller(s) PROVE IInv'
  BY <1>3, StepAbortCaller
<1>4. CASE UNCHANGED vars
  BY <1>4, Stutter
<1> QED BY <1>1, <1>2, <1>3, <1>4 DEF Next

THEOREM Invariance == Spec => []IInv
<1> QED BY Initially, Step, PTL DEF Spec

-----------------------------------------------------------------------------
(* The variables of the pipeline keep their types: in particular a code    *)
(* outside the taxonomy is never published.                                *)
THEOREM TypeCorrect == Spec => []TypeOK
<1>1. IInv => TypeOK
  BY DEF IInv
<1> QED BY <1>1, Invariance, PTL

(* enforceAccess guards run: no interleaving of validators, rules, aborts  *)
(* and timers lets a refused call reach the handler.                       *)
THEOREM AccessBeforeRun == Spec => []AuthorizedBeforeExecution
<1>1. IInv => AuthorizedBeforeExecution
  BY DEF IInv, Good, AuthorizedBeforeExecution
<1> QED BY <1>1, Invariance, PTL

(* raceWithCancellation misses no abort.                                   *)
THEOREM NoMissedAbort == Spec => []AbortDecidesRace
<1>1. IInv => AbortDecidesRace
  BY DEF IInv, Good, AbortDecidesRace
<1> QED BY <1>1, Invariance, PTL

(* createSignal's listeners and timer are released on every way out.       *)
THEOREM ResourcesReleased == Spec => []ResourcesBelongToStage
<1>1. IInv => ResourcesBelongToStage
  BY DEF IInv, Good, ResourcesBelongToStage
<1> QED BY <1>1, Invariance, PTL

(* A result, a domain error and a cancellation have the cause they claim.  *)
THEOREM SoundOutcome == Spec => []OutcomeHasCause
<1>1. IInv => OutcomeHasCause
  BY DEF IInv, Good, OutcomeHasCause
<1> QED BY <1>1, Invariance, PTL

(* Progress is increasing, and precedes the abort and the terminal event.  *)
THEOREM ProgressIsOrdered == Spec => OrderedProgress
<1>1. IInv /\ [Next]_vars => [ProgressStep]_vars
  <2> SUFFICES ASSUME IInv, Next PROVE ProgressStep
    BY DEF vars, ProgressStep
  <2>1. ASSUME NEW i \in Invocations, NEW progress \in 1..MaxProgress,
               ReportProgress(i, progress)
        PROVE  ProgressStep
    <3>1. Good(i) /\ TypeOK
      BY DEF IInv
    <3>2. outcome[i] = "pending"
      BY <2>1, <3>1 DEF ReportProgress, Good, Executed
    <3> QED BY <2>1, <3>1, <3>2
        DEF ReportProgress, Advances, ProgressStep, TypeOK
  <2>2. ASSUME UNCHANGED reported PROVE ProgressStep
    BY <2>2 DEF ProgressStep
  <2> QED BY <2>1, <2>2 DEF Next, UserCode, Host, Start, InputRejected,
        InputAccepted, RuleDenies, RuleThrows, RequiresPrincipal, Refused,
        Execute, StartHandler, SettleHandler, AbortCaller, FireTimer, Race,
        HandlerReachesRace, DomainErrorReachesRace, OutputReachesRace,
        ResumeRun, ResumeDomainError, ResumeOutput
<1> QED BY <1>1, Invariance, PTL DEF Spec, OrderedProgress

-----------------------------------------------------------------------------
(* Refinement: every step of the pipeline is a step of the contract or     *)
(* changes nothing a caller can observe.                                   *)
Phase == [i \in Invocations |-> ContractPhase(pc[i])]

LEMMA PhaseMoves ==
    ASSUME TypeOK, NEW i \in Invocations, NEW point,
           pc' = [pc EXCEPT ![i] = point]
    PROVE  /\ Phase' = [Phase EXCEPT ![i] = ContractPhase(point)]
           /\ Phase[i] = ContractPhase(pc[i])
<1>1. pc \in [Invocations -> {"idle", "validatingInput", "authorizing", "done"}
                               \cup Racing]
  BY DEF TypeOK
<1>2. \A j \in Invocations : pc'[j] = IF j = i THEN point ELSE pc[j]
  BY <1>1
<1>3. Phase' = [j \in Invocations |-> ContractPhase(pc'[j])]
  BY DEF Phase, ContractPhase
<1>4. \A j \in Invocations : Phase'[j] =
         IF j = i THEN ContractPhase(point) ELSE ContractPhase(pc[j])
  BY <1>2, <1>3
<1> QED BY <1>3, <1>4 DEF Phase

LEMMA PhaseStays ==
    ASSUME TypeOK, NEW i \in Invocations, NEW point,
           pc' = [pc EXCEPT ![i] = point],
           ContractPhase(point) = ContractPhase(pc[i])
    PROVE  Phase' = Phase
BY DEF Phase, TypeOK

Observed == <<Phase, reported, outcome>>

LEMMA RefusalRefines ==
    ASSUME TypeOK, NEW i \in Invocations, NEW code \in StableCodes,
           Settle(i, code), reported' = reported,
           pc[i] \in {"idle", "validatingInput", "authorizing"}
    PROVE  Contract!Refuse(i)
<1>1. /\ Phase' = [Phase EXCEPT ![i] = "settled"]
      /\ Phase[i] \in {"idle", "checking"}
  BY PhaseMoves DEF Settle, ContractPhase, Racing
<1> QED BY <1>1 DEF Contract!Refuse, Contract!Publish, Settle, Phase

LEMMA FinishRefines ==
    ASSUME TypeOK, NEW i \in Invocations,
           NEW ending \in {"completed"} \cup FailureCodes,
           Settle(i, ending), reported' = reported, pc[i] \in Racing
    PROVE  Contract!Finish(i)
<1>1. /\ Phase' = [Phase EXCEPT ![i] = "settled"]
      /\ Phase[i] = "executing"
  BY PhaseMoves DEF Settle, ContractPhase, Racing
<1> QED BY <1>1 DEF Contract!Finish, Contract!Publish, Contract!Results,
        Settle, Phase, FailureCodes

LEMMA StartRefines ==
    ASSUME TypeOK, NEW i \in Invocations, NEW r \in Requests, Start(i, r)
    PROVE  Contract!Next
<1>1. CASE r.options = "unreadable" \/ r.capability = "unregistered"
  BY <1>1, RefusalRefines, CodesAreStable, InvocationAssumption
  DEF Start, Contract!Next
<1>2. ASSUME Suspend(i, "validatingInput"), outcome' = outcome
      PROVE  Contract!Begin(i)
  <2>1. /\ Phase' = [Phase EXCEPT ![i] = "checking"]
        /\ Phase[i] = "idle"
    BY <1>2, PhaseMoves DEF Start, Suspend, ContractPhase, Racing
  <2> QED BY <1>2, <2>1 DEF Start, Contract!Begin, Contract!Enter, Phase
<1> QED BY <1>1, <1>2, InvocationAssumption DEF Start, Contract!Next

LEMMA ExecuteRefines ==
    ASSUME TypeOK, NEW i \in Invocations, Execute(i)
    PROVE  Contract!Next
<1>1. CASE request[i].signal = "forged" \/ CallerHasAborted(i)
  BY <1>1, RefusalRefines, CodesAreStable DEF Execute, Contract!Next
<1>2. ASSUME Suspend(i, "running"), outcome' = outcome
      PROVE  Contract!Admit(i)
  <2>1. /\ Phase' = [Phase EXCEPT ![i] = "executing"]
        /\ Phase[i] = "checking"
    BY <1>2, PhaseMoves DEF Execute, Suspend, ContractPhase, Racing
  <2> QED BY <1>2, <2>1 DEF Execute, Contract!Admit, Contract!Enter, Phase
<1> QED BY <1>1, <1>2 DEF Execute, Contract!Next

LEMMA InputAcceptedRefines ==
    ASSUME TypeOK, NEW i \in Invocations, InputAccepted(i)
    PROVE  Contract!Next \/ UNCHANGED Observed
<1>1. ASSUME NEW code \in {"UNAUTHENTICATED", "EXECUTION_FAILED"},
             Settle(i, code)
      PROVE  Contract!Next
  BY <1>1, RefusalRefines, CodesAreStable DEF InputAccepted, Contract!Next
<1>2. ASSUME Suspend(i, "authorizing"), outcome' = outcome
      PROVE  UNCHANGED Observed
  <2>1. ContractPhase("authorizing") = ContractPhase(pc[i])
    BY DEF InputAccepted, ContractPhase, Racing
  <2> QED BY <1>2, <2>1, PhaseStays DEF InputAccepted, Suspend, Observed
<1> QED BY <1>1, <1>2 DEF InputAccepted

LEMMA RefusedRefines ==
    ASSUME TypeOK, NEW i \in Invocations,
           \/ InputRejected(i) \/ RuleDenies(i) \/ RequiresPrincipal(i)
           \/ \E failure \in ThrownCodes \cup {"unknown"} : RuleThrows(i, failure)
    PROVE  Contract!Next
<1>1. ASSUME NEW code \in StableCodes, Settle(i, code), reported' = reported,
             pc[i] \in {"validatingInput", "authorizing"}
      PROVE  Contract!Next
  BY <1>1, RefusalRefines DEF Contract!Next
<1>2. Unauthorized(i) \in StableCodes
  BY DEF Unauthorized, StableCodes
<1>3. \A failure : Normalized(failure, FALSE) \in StableCodes
  BY DEF Normalized, StableCodes
<1> QED BY <1>1, <1>2, <1>3, CodesAreStable
        DEF InputRejected, RuleDenies, RequiresPrincipal, RuleThrows, Refused

LEMMA ResumeRefines ==
    ASSUME IInv, NEW i \in Invocations,
           ResumeRun(i) \/ ResumeDomainError(i) \/ ResumeOutput(i)
    PROVE  Contract!Next \/ UNCHANGED Observed
<1>1. TypeOK /\ Good(i) /\ pc[i] \in Racing /\ reported' = reported
  BY DEF IInv, ResumeRun, ResumeDomainError, ResumeOutput, Racing
<1>2. ASSUME NEW ending \in {"completed"} \cup FailureCodes, Settle(i, ending)
      PROVE  Contract!Next
  BY <1>1, <1>2, FinishRefines DEF Contract!Next
<1>3. ASSUME NEW point \in {"validatingOutput", "resolving"},
             AwaitNext(i, point)
      PROVE  UNCHANGED Observed
  <2>1. ContractPhase(point) = ContractPhase(pc[i])
    BY <1>1 DEF ContractPhase, Racing
  <2> QED BY <1>1, <1>3, <2>1, PhaseStays DEF AwaitNext, Suspend, Observed
<1>4. \A failure, fired : Normalized(failure, fired) \in FailureCodes
  BY DEF Normalized, StableCodes, FailureCodes
<1>5. {"CANCELLED", "DOMAIN_ERROR", "EXECUTION_FAILED", "OUTPUT_INVALID"}
        \subseteq FailureCodes
  BY DEF StableCodes, FailureCodes
<1>6. CASE ResumeRun(i)
  BY <1>2, <1>3, <1>4, <1>5, <1>6 DEF ResumeRun
<1>7. CASE ResumeDomainError(i)
  <2>1. race[i] \in {"declared", "undeclared", "cancelled"}
    BY <1>1, <1>7 DEF Good, Executed, ResumeDomainError
  <2> QED BY <1>2, <1>5, <1>7, <2>1 DEF ResumeDomainError
<1>8. CASE ResumeOutput(i)
  <2>1. race[i] \in {"valid", "invalid", "cancelled"}
    BY <1>1, <1>8 DEF Good, Executed, ResumeOutput
  <2> QED BY <1>2, <1>5, <1>8, <2>1 DEF ResumeOutput
<1> QED BY <1>6, <1>7, <1>8

LEMMA ReportRefines ==
    ASSUME IInv, NEW i \in Invocations, NEW progress \in 1..MaxProgress,
           ReportProgress(i, progress)
    PROVE  Contract!Next \/ UNCHANGED Observed
<1>1. pc' = pc /\ outcome' = outcome /\ Phase' = Phase
  BY DEF ReportProgress, Phase
<1>2. Phase[i] = "executing" /\ TypeOK
  BY DEF IInv, ReportProgress, Good, Executed, Phase, ContractPhase, Racing
<1>3. CASE reported' = reported
  BY <1>1, <1>3 DEF Observed
<1>4. CASE reported' # reported
  <2>1. Contract!Deliver(i)
    BY <1>1, <1>2, <1>4
    DEF ReportProgress, Advances, Contract!Deliver, Phase
  <2> QED BY <2>1 DEF Contract!Next
<1> QED BY <1>3, <1>4

LEMMA Unobserved ==
    ASSUME UNCHANGED <<pc, reported, outcome>>
    PROVE  UNCHANGED Observed
BY DEF Observed, Phase

LEMMA StepRefines == IInv /\ [Next]_vars => [Contract!Next]_(Contract!vars)
<1> SUFFICES ASSUME IInv, [Next]_vars
             PROVE  Contract!Next \/ UNCHANGED Observed
  BY DEF Contract!vars, Observed, Phase
<1>1. TypeOK
  BY DEF IInv
<1>2. ASSUME NEW i \in Invocations, UserCode(i)
      PROVE  Contract!Next \/ UNCHANGED Observed
  BY <1>1, <1>2, StartRefines, InputAcceptedRefines, RefusedRefines,
     ExecuteRefines, ReportRefines, Unobserved
  DEF UserCode, SettleHandler, DomainErrorReachesRace, OutputReachesRace, Race
<1>3. ASSUME NEW i \in Invocations, Host(i)
      PROVE  Contract!Next \/ UNCHANGED Observed
  BY <1>3, ResumeRefines, Unobserved
  DEF Host, StartHandler, FireTimer, HandlerReachesRace, Race
<1>4. ASSUME NEW s \in Signals, AbortCaller(s) PROVE UNCHANGED Observed
  BY <1>4, Unobserved DEF AbortCaller
<1>5. CASE UNCHANGED vars
  BY <1>5, Unobserved DEF vars
<1> QED BY <1>2, <1>3, <1>4, <1>5 DEF Next

LEMMA InitRefines == Init => Contract!Init
<1>1. ContractPhase("idle") = "idle"
  BY DEF ContractPhase, Racing
<1> QED BY <1>1 DEF Init, Contract!Init

(* engine.invoke implements the contract its callers rely on.              *)
THEOREM Refinement == Spec => ImplementsContract
<1>1. Spec => [][Contract!Next]_(Contract!vars)
  BY Invariance, StepRefines, PTL DEF Spec
<1> QED BY <1>1, InitRefines, PTL DEF Spec, ImplementsContract, Contract!Spec

-----------------------------------------------------------------------------
(* What the composition with the chain needs to know of an invocation:     *)
(* nothing has been asked of an idle one, and one that is over has no      *)
(* handler under way unless its signal has fired.                          *)
NothingAsked(i) == pc[i] = "idle" => request[i] = NoRequest

Over(i) ==
    outcome[i] # "pending" =>
        \/ handler[i] \in {"none"} \cup HandlerOutcomes
        \/ outcome[i] = "CANCELLED" /\ Aborted(i)

PastInv == \A i \in Invocations : NothingAsked(i) /\ Over(i)

(* What a step may do to an invocation: the signal of its context stays    *)
(* aborted, its handler is scheduled, started and settled once each.       *)
HandlerMoves(i) ==
    \/ handler'[i] = handler[i]
    \/ handler[i] = "none" /\ handler'[i] = "scheduled" /\ outcome[i] = "pending"
    \/ handler[i] = "scheduled" /\ handler'[i] = "running"
    \/ handler[i] = "running" /\ handler'[i] \in HandlerOutcomes

Moves(i) ==
    /\ Aborted(i) => Aborted(i)'
    /\ HandlerMoves(i)
    /\ outcome'[i] # outcome[i] => Over(i)'

LEMMA OthersMove ==
    ASSUME NEW j \in Invocations, Same(j), callerAborted' = callerAborted
    PROVE  Moves(j) /\ (NothingAsked(j) => NothingAsked(j)')
BY DEF Same, Moves, HandlerMoves, NothingAsked, Aborted, CallerHasAborted, Capability

LEMMA Locally ==
    ASSUME PastInv, NEW i \in Invocations, Elsewhere(i), Moves(i), NothingAsked(i)'
    PROVE  \A j \in Invocations : Moves(j) /\ NothingAsked(j)'
BY OthersMove DEF PastInv, Elsewhere

(* An invocation that ends before its handler exists.                      *)
LEMMA RefusalMoves ==
    ASSUME IInv, NEW i \in Invocations, NEW code, Settle(i, code),
           handler[i] = "none", handler' = handler, Aborted(i) => Aborted(i)'
    PROVE  Moves(i) /\ NothingAsked(i)'
<1>1. pc'[i] = "done" /\ handler'[i] = "none"
  BY DEF IInv, TypeOK, Settle
<1> QED BY <1>1 DEF Moves, HandlerMoves, Over, NothingAsked

LEMMA StartMoves ==
    ASSUME IInv, PastInv, NEW i \in Invocations, NEW r \in Requests, Start(i, r)
    PROVE  Elsewhere(i) /\ Moves(i) /\ NothingAsked(i)'
<1>1. TypeOK /\ Good(i) /\ pc[i] = "idle" /\ handler[i] = "none"
  BY DEF IInv, Good, Executed, Start
<1>2. ~Aborted(i)
  <2>1. request[i] = NoRequest
    BY <1>1 DEF PastInv, NothingAsked
  <2> QED BY <2>1, InvocationAssumption
          DEF NoRequest, Aborted, CallerHasAborted, Capability
<1>3. Elsewhere(i)
  BY <1>1 DEF Start, TypeOK, Settle, Cleanup, CloseProgress, Suspend, Elsewhere, Same
<1>4. Moves(i) /\ NothingAsked(i)'
  <2>1. CASE UNCHANGED outcome /\ Suspend(i, "validatingInput")
    <3>1. pc'[i] = "validatingInput" /\ handler' = handler
      BY <1>1, <2>1 DEF Start, Suspend, TypeOK
    <3> QED BY <1>2, <2>1, <3>1 DEF Moves, HandlerMoves, NothingAsked
  <2>2. ASSUME NEW code, Settle(i, code) PROVE Moves(i) /\ NothingAsked(i)'
    BY <1>1, <1>2, <2>2, RefusalMoves DEF Start
  <2> QED BY <2>1, <2>2 DEF Start
<1> QED BY <1>3, <1>4

LEMMA CheckMoves ==
    ASSUME IInv, PastInv, NEW i \in Invocations,
           \/ InputRejected(i) \/ InputAccepted(i) \/ RuleDenies(i) \/ RequiresPrincipal(i)
           \/ \E failure \in ThrownCodes \cup {"unknown"} : RuleThrows(i, failure)
    PROVE  Elsewhere(i) /\ Moves(i) /\ NothingAsked(i)'
<1>1. /\ TypeOK /\ Good(i) /\ handler[i] = "none"
      /\ UNCHANGED <<callerAborted, request, controller, handler>>
  BY DEF IInv, Good, Executed, InputRejected, InputAccepted, RuleDenies,
         RequiresPrincipal, RuleThrows, Refused
<1>2. Aborted(i) => Aborted(i)'
  BY <1>1 DEF Aborted, CallerHasAborted, Capability
<1>3. Elsewhere(i)
  BY <1>1
  DEF TypeOK, InputRejected, InputAccepted, RuleDenies, RequiresPrincipal, RuleThrows,
      Refused, Settle, Cleanup, CloseProgress, Suspend, Elsewhere, Same
<1>4. ASSUME NEW code, Settle(i, code) PROVE Moves(i) /\ NothingAsked(i)'
  BY <1>1, <1>2, <1>4, RefusalMoves
<1>5. ASSUME UNCHANGED outcome, Suspend(i, "authorizing")
      PROVE  Moves(i) /\ NothingAsked(i)'
  <2>1. pc'[i] = "authorizing"
    BY <1>1, <1>5 DEF Suspend, TypeOK
  <2> QED BY <1>1, <1>2, <1>5, <2>1 DEF Moves, HandlerMoves, NothingAsked
<1>6. Moves(i) /\ NothingAsked(i)'
  BY <1>4, <1>5
  DEF InputRejected, InputAccepted, RuleDenies, RequiresPrincipal, RuleThrows, Refused
<1> QED BY <1>3, <1>6

LEMMA ExecuteMoves ==
    ASSUME IInv, PastInv, NEW i \in Invocations, Execute(i)
    PROVE  Elsewhere(i) /\ Moves(i) /\ NothingAsked(i)'
<1>1. /\ TypeOK /\ Good(i) /\ handler[i] = "none" /\ outcome[i] = "pending"
      /\ UNCHANGED <<callerAborted, request>>
  BY DEF IInv, Good, Executed, Execute
<1>2. Aborted(i) => Aborted(i)'
  BY <1>1 DEF Execute, Aborted, CallerHasAborted, Capability, TypeOK
<1>3. Elsewhere(i)
  BY <1>1 DEF TypeOK, Execute, Settle, Cleanup, CloseProgress, Suspend, Elsewhere, Same
<1>4. CASE Suspend(i, "running") /\ outcome' = outcome
           /\ handler' = [handler EXCEPT ![i] = "scheduled"]
  <2>1. pc'[i] = "running" /\ handler'[i] = "scheduled"
    BY <1>1, <1>4 DEF Suspend, TypeOK
  <2> QED BY <1>1, <1>2, <1>3, <1>4, <2>1 DEF Moves, HandlerMoves, NothingAsked
<1>5. ASSUME NEW code, Settle(i, code), handler' = handler
      PROVE  Moves(i) /\ NothingAsked(i)'
  BY <1>1, <1>2, <1>5, RefusalMoves
<1> QED BY <1>3, <1>4, <1>5 DEF Execute

(* The handler and the events of the execution stage, which do not end it. *)
LEMMA RunMoves ==
    ASSUME IInv, PastInv, NEW i \in Invocations,
           \/ StartHandler(i) \/ FireTimer(i) \/ HandlerReachesRace(i)
           \/ \E ending \in HandlerOutcomes : SettleHandler(i, ending)
           \/ \E progress \in 1..MaxProgress : ReportProgress(i, progress)
           \/ \E ending \in {"declared", "undeclared"} : DomainErrorReachesRace(i, ending)
           \/ \E ending \in {"valid", "invalid"} : OutputReachesRace(i, ending)
    PROVE  Elsewhere(i) /\ Moves(i) /\ NothingAsked(i)'
<1>1. TypeOK /\ NothingAsked(i) /\ UNCHANGED <<callerAborted, request, pc, outcome>>
  BY DEF IInv, PastInv, StartHandler, FireTimer, HandlerReachesRace, SettleHandler,
         ReportProgress, DomainErrorReachesRace, OutputReachesRace, Race
<1>2. Elsewhere(i)
  BY <1>1
  DEF TypeOK, StartHandler, FireTimer, HandlerReachesRace, SettleHandler, ReportProgress,
      DomainErrorReachesRace, OutputReachesRace, Race, Elsewhere, Same
<1>3. HandlerMoves(i)
  BY <1>1
  DEF TypeOK, StartHandler, FireTimer, HandlerReachesRace, SettleHandler, ReportProgress,
      DomainErrorReachesRace, OutputReachesRace, Race, HandlerMoves
<1>4. controller[i] => controller'[i]
  BY <1>1
  DEF TypeOK, StartHandler, FireTimer, HandlerReachesRace, SettleHandler, ReportProgress,
      DomainErrorReachesRace, OutputReachesRace, Race
<1>5. Aborted(i) => Aborted(i)'
  BY <1>1, <1>4 DEF Aborted, CallerHasAborted, Capability
<1> QED BY <1>1, <1>2, <1>3, <1>5 DEF Moves, NothingAsked

LEMMA ResumeMoves ==
    ASSUME IInv, PastInv, NEW i \in Invocations,
           ResumeRun(i) \/ ResumeDomainError(i) \/ ResumeOutput(i)
    PROVE  Elsewhere(i) /\ Moves(i) /\ NothingAsked(i)'
<1>1. /\ TypeOK /\ Good(i)
      /\ UNCHANGED <<callerAborted, request, controller, handler>>
  BY DEF IInv, ResumeRun, ResumeDomainError, ResumeOutput
<1>2. Aborted(i)' <=> Aborted(i)
  BY <1>1 DEF Aborted, CallerHasAborted, Capability
<1>3. Elsewhere(i)
  BY <1>1
  DEF TypeOK, ResumeRun, ResumeDomainError, ResumeOutput, AwaitNext, Settle, Cleanup,
      CloseProgress, Suspend, Elsewhere, Same
<1>4. ASSUME NEW point \in {"validatingOutput", "resolving"}, AwaitNext(i, point)
      PROVE  Moves(i) /\ NothingAsked(i)'
  <2>1. pc'[i] = point /\ outcome' = outcome
    BY <1>1, <1>4 DEF AwaitNext, Suspend, TypeOK
  <2> QED BY <1>1, <1>2, <2>1 DEF Moves, HandlerMoves, NothingAsked
<1>5. ASSUME NEW ending, Settle(i, ending),
             handler[i] \in HandlerOutcomes \/ (ending = "CANCELLED" /\ Aborted(i))
      PROVE  Moves(i) /\ NothingAsked(i)'
  <2>1. pc'[i] = "done" /\ outcome'[i] = ending
    BY <1>1, <1>5 DEF Settle, TypeOK
  <2> QED BY <1>1, <1>2, <1>5, <2>1 DEF Moves, HandlerMoves, Over, NothingAsked
<1>6. CASE ResumeRun(i)
  <2>1. /\ race[i] \in HandlerOutcomes => handler[i] \in HandlerOutcomes
        /\ race[i] = "cancelled" => Aborted(i)
        /\ ThrownCodes \cup {"value", "raised", "unknown"} \subseteq HandlerOutcomes
    BY <1>1, <1>6 DEF Good, Executed, Followed, ResumeRun, HandlerOutcomes
  <2> QED BY <1>3, <1>4, <1>5, <1>6, <2>1 DEF ResumeRun
<1>7. CASE ResumeDomainError(i) \/ ResumeOutput(i)
  <2>1. handler[i] \in HandlerOutcomes
    BY <1>1, <1>7 DEF Good, Executed, ResumeDomainError, ResumeOutput, HandlerOutcomes
  <2> QED BY <1>3, <1>5, <1>7, <2>1 DEF ResumeDomainError, ResumeOutput
<1> QED BY <1>3, <1>6, <1>7

LEMMA AbortMoves ==
    ASSUME IInv, PastInv, NEW s \in Signals, AbortCaller(s), NEW i \in Invocations
    PROVE  Moves(i) /\ NothingAsked(i)'
<1>1. TypeOK /\ NothingAsked(i) /\ UNCHANGED <<request, pc, handler, outcome>>
  BY DEF IInv, PastInv, AbortCaller
<1>2. controller[i] => controller'[i]
  BY <1>1 DEF AbortCaller
<1>3. CallerHasAborted(i) => CallerHasAborted(i)'
  BY <1>1 DEF AbortCaller, CallerHasAborted, TypeOK
<1>4. Aborted(i) => Aborted(i)'
  BY <1>1, <1>2, <1>3 DEF Aborted, Capability
<1> QED BY <1>1, <1>4 DEF Moves, HandlerMoves, NothingAsked

LEMMA StepMoves ==
    ASSUME IInv, PastInv, [Next]_vars
    PROVE  \A i \in Invocations : Moves(i) /\ NothingAsked(i)'
<1>1. ASSUME NEW i \in Invocations, UserCode(i) \/ Host(i)
      PROVE  Elsewhere(i) /\ Moves(i) /\ NothingAsked(i)'
  BY <1>1, StartMoves, CheckMoves, ExecuteMoves, RunMoves, ResumeMoves
  DEF UserCode, Host
<1>2. CASE UNCHANGED vars
  BY <1>2 DEF vars, PastInv, Moves, HandlerMoves, NothingAsked, Aborted, CallerHasAborted,
              Capability
<1> QED BY <1>1, <1>2, Locally, AbortMoves DEF Next

LEMMA StepKeepsPast == IInv /\ IInv' /\ PastInv /\ [Next]_vars => PastInv'
<1> SUFFICES ASSUME IInv, PastInv, [Next]_vars, NEW i \in Invocations
             PROVE  NothingAsked(i)' /\ Over(i)'
  BY DEF PastInv
<1>1. Moves(i) /\ NothingAsked(i)' /\ Over(i)
  BY StepMoves DEF PastInv
<1>2. ASSUME outcome'[i] = outcome[i] PROVE Over(i)'
  BY <1>1, <1>2, OutcomesAreDistinct DEF Moves, HandlerMoves, Over
<1> QED BY <1>1, <1>2 DEF Moves

LEMMA PastInvariance == Spec => [](IInv /\ PastInv)
<1>1. Init => PastInv
  <2>1. ASSUME Init, NEW i \in Invocations
        PROVE  request[i] = NoRequest /\ outcome[i] = "pending"
    BY <2>1 DEF Init
  <2> QED BY <2>1 DEF PastInv, NothingAsked, Over
<1>2. IInv /\ PastInv /\ [Next]_vars => IInv' /\ PastInv'
  BY Step, StepKeepsPast
<1> QED BY <1>1, <1>2, Initially, PTL DEF Spec

-----------------------------------------------------------------------------
(* MiddlewareChain, for chains of every depth.  That a settled layer has   *)
(* nothing left running below it is not inductive alone: the proof also    *)
(* needs that a layer which was not dispatched has nothing below it at     *)
(* all, and that next() is the only way down.                              *)

OnlyThroughNext ==
    \A k \in Middleware :
        /\ layer[k + 1] # "idle" <=> claimed[k] /\ ~refused[k]
        /\ refused[k] => claimed[k]

NothingBelowIdle ==
    \A k \in Layers : layer[k] = "idle" =>
        \A below \in Layers : below > k => layer[below] = "idle"

ChainInv == ChainTypeOK /\ OnlyThroughNext /\ NothingBelowIdle /\ NestedLifetimes

LEMMA LayerNumbers ==
    /\ Middleware \subseteq Layers
    /\ \A k \in Middleware : k + 1 \in Layers
    /\ 0 \in Layers
    /\ \A k \in Layers : k \in Middleware <=> k # Depth
    /\ \A k \in Layers : ~(k > Depth)
BY DepthAssumption DEF Layers, Middleware

LEMMA ChainInitially == ChainInit => ChainInv
BY LayerNumbers
DEF ChainInit, ChainInv, ChainTypeOK, OnlyThroughNext, NothingBelowIdle, NestedLifetimes,
    States, Quiet

LEMMA LayersBegin == ASSUME ChainInv, Begin PROVE ChainInv'
<1>1. layer' = [layer EXCEPT ![0] = "running"] /\ layer[0] = "idle" /\ ChainTypeOK
  BY DEF Begin, ChainInv
<1>2. \A k \in Layers : layer[k] = "idle"
  BY <1>1, LayerNumbers DEF ChainInv, NothingBelowIdle, Layers
<1>3. ChainTypeOK'
  BY <1>1, LayerNumbers DEF Begin, ChainTypeOK, States
<1>4. OnlyThroughNext'
  BY <1>1, <1>2, LayerNumbers
  DEF Begin, ChainInv, OnlyThroughNext, ChainTypeOK, Layers, Middleware
<1>5. NothingBelowIdle' /\ NestedLifetimes'
  BY <1>1, <1>2, LayerNumbers
  DEF NothingBelowIdle, NestedLifetimes, Quiet, ChainTypeOK, Layers
<1> QED BY <1>3, <1>4, <1>5 DEF ChainInv

LEMMA LayersCallNext ==
    ASSUME ChainInv, NEW k \in Middleware, CallNext(k) PROVE ChainInv'
<1>1. /\ ChainTypeOK /\ layer[k] \in {"running", "returned"} /\ ~claimed[k]
      /\ claimed' = [claimed EXCEPT ![k] = TRUE]
      /\ k \in Layers /\ k + 1 \in Layers
  BY LayerNumbers DEF ChainInv, CallNext, MayStart
<1>2. layer[k + 1] = "idle" /\ ~refused[k]
  BY <1>1 DEF ChainInv, OnlyThroughNext
<1>3. CASE aborted
  <2>1. refused' = [refused EXCEPT ![k] = TRUE] /\ layer' = layer
        /\ UNCHANGED <<aborted, result>>
    BY <1>3 DEF CallNext, SignalBlocks
  <2>2. ChainTypeOK'
    BY <1>1, <2>1 DEF ChainTypeOK
  <2>3. OnlyThroughNext'
    BY <1>1, <1>2, <2>1 DEF ChainInv, OnlyThroughNext, ChainTypeOK
  <2> QED BY <2>1, <2>2, <2>3
          DEF ChainInv, NothingBelowIdle, NestedLifetimes, Quiet
<1>4. CASE ~aborted
  <2>1. layer' = [layer EXCEPT ![k + 1] = "running"] /\ refused' = refused
        /\ UNCHANGED <<aborted, result>>
    BY <1>4 DEF CallNext, SignalBlocks
  <2>2. ChainTypeOK'
    BY <1>1, <2>1 DEF ChainTypeOK, States
  <2>3. OnlyThroughNext'
    BY <1>1, <1>2, <2>1, LayerNumbers
    DEF ChainInv, OnlyThroughNext, ChainTypeOK, Layers, Middleware
  <2>4. NothingBelowIdle'
    <3> SUFFICES ASSUME NEW m \in Layers, layer'[m] = "idle",
                        NEW below \in Layers, below > m
                 PROVE  layer'[below] = "idle"
      BY DEF NothingBelowIdle
    <3>1. m # k + 1 /\ layer[m] = "idle" /\ m # k
      BY <1>1, <2>1 DEF ChainTypeOK
    <3>2. layer[below] = "idle" /\ ~(k > m)
      BY <1>1, <3>1 DEF ChainInv, NothingBelowIdle
    <3> QED BY <1>1, <2>1, <3>1, <3>2 DEF ChainTypeOK, Layers
  <2>5. NestedLifetimes'
    <3> SUFFICES ASSUME NEW m \in Layers, layer'[m] = "settled",
                        NEW below \in Layers, below > m
                 PROVE  Quiet(below)'
      BY DEF NestedLifetimes
    <3>1. m # k + 1 /\ layer[m] = "settled" /\ m # k
      BY <1>1, <2>1 DEF ChainTypeOK
    <3>2. Quiet(below) /\ ~(k > m)
      BY <1>1, <3>1 DEF ChainInv, NestedLifetimes, Quiet
    <3> QED BY <1>1, <2>1, <3>1, <3>2 DEF ChainTypeOK, Layers, Quiet
  <2> QED BY <2>2, <2>3, <2>4, <2>5 DEF ChainInv
<1> QED BY <1>3, <1>4

(* A layer that moves on without settling disturbs nobody. *)
LEMMA LayerAdvances ==
    ASSUME ChainInv, NEW k \in Layers, layer[k] # "idle",
           NEW state \in States \ {"idle"},
           layer' = [layer EXCEPT ![k] = state],
           UNCHANGED <<aborted, claimed, refused>>,
           result' \in [Layers -> {"none", "value", "failure"}],
           layer[k] # "settled",
           state = "settled" =>
              \A below \in Layers : below > k => Quiet(below)
    PROVE  ChainInv'
<1>1. ChainTypeOK'
  BY DEF ChainInv, ChainTypeOK
<1>2. \A m \in Layers : (layer'[m] = "idle" <=> layer[m] = "idle")
  BY DEF ChainInv, ChainTypeOK
<1>3. OnlyThroughNext' /\ NothingBelowIdle'
  BY <1>2, LayerNumbers DEF ChainInv, OnlyThroughNext, NothingBelowIdle
<1>4. NestedLifetimes'
  <2> SUFFICES ASSUME NEW m \in Layers, layer'[m] = "settled",
                      NEW below \in Layers, below > m
               PROVE  Quiet(below)'
    BY DEF NestedLifetimes
  <2>1. Quiet(below)
    BY DEF ChainInv, ChainTypeOK, NestedLifetimes
  <2>2. below # k \/ state = "settled"
    BY <2>1 DEF ChainInv, NestedLifetimes, ChainTypeOK, Quiet, Layers
  <2> QED BY <2>1, <2>2 DEF Quiet, ChainInv, ChainTypeOK
<1> QED BY <1>1, <1>3, <1>4 DEF ChainInv

LEMMA LayersSettle ==
    ASSUME ChainInv, NEW k \in Layers, NEW settlement \in {"value", "failure"},
           SettleCode(k, settlement)
    PROVE  ChainInv'
<1>1. result' \in [Layers -> {"none", "value", "failure"}]
  BY DEF ChainInv, ChainTypeOK, SettleCode
<1>2. CASE k = Depth
  BY <1>1, <1>2, LayerAdvances, LayerNumbers DEF SettleCode, States
<1>3. CASE k # Depth
  BY <1>1, <1>3, LayerAdvances DEF SettleCode, States
<1> QED BY <1>2, <1>3

LEMMA LayersFinally ==
    ASSUME ChainInv, NEW k \in Middleware, Finally(k) PROVE ChainInv'
<1>1. k \in Layers /\ result' \in [Layers -> {"none", "value", "failure"}]
  BY LayerNumbers DEF ChainInv, ChainTypeOK, Finally
<1>2. CASE claimed[k]
  BY <1>1, <1>2, LayerAdvances DEF Finally, MustHold, States
<1>3. CASE ~claimed[k]
  <2>1. layer[k + 1] = "idle" /\ k + 1 \in Layers
    BY <1>3, LayerNumbers DEF ChainInv, OnlyThroughNext
  <2>2. \A below \in Layers : below > k => Quiet(below)
    BY <2>1 DEF ChainInv, NothingBelowIdle, Quiet, Layers, Middleware
  <2> QED BY <1>1, <1>3, <2>2, LayerAdvances DEF Finally, MustHold, States
<1> QED BY <1>2, <1>3

LEMMA LayersRelease ==
    ASSUME ChainInv, NEW k \in Middleware, Release(k) PROVE ChainInv'
<1>1. /\ k \in Layers /\ k + 1 \in Layers
      /\ result' \in [Layers -> {"none", "value", "failure"}]
  BY LayerNumbers DEF ChainInv, ChainTypeOK, Release
<1>2. layer[k + 1] \in {"idle", "settled"}
  BY DEF Release, ChainInv, OnlyThroughNext
<1>3. \A below \in Layers : below > k => Quiet(below)
  BY <1>1, <1>2
  DEF ChainInv, NothingBelowIdle, NestedLifetimes, Quiet, Layers, Middleware
<1> QED BY <1>1, <1>3, LayerAdvances DEF Release, States

LEMMA ChainSteps == ChainInv /\ [ChainNext]_chainVars => ChainInv'
<1> SUFFICES ASSUME ChainInv, [ChainNext]_chainVars PROVE ChainInv'
  OBVIOUS
<1>1. CASE Abort
  BY <1>1 DEF Abort, ChainInv, ChainTypeOK, OnlyThroughNext, NothingBelowIdle,
     NestedLifetimes, Quiet
<1>2. CASE UNCHANGED chainVars
  BY <1>2 DEF chainVars, ChainInv, ChainTypeOK, OnlyThroughNext, NothingBelowIdle,
     NestedLifetimes, Quiet
<1> QED
  BY <1>1, <1>2, LayersBegin, LayersCallNext, LayersSettle, LayersFinally,
     LayersRelease
  DEF ChainNext, ChainStep

THEOREM ChainAloneInvariance == ChainSpec => []ChainInv
<1> QED BY ChainInitially, ChainSteps, PTL DEF ChainSpec

(* createChain keeps the types of its state, for every number of layers.   *)
THEOREM ChainTypeCorrect == ChainSpec => []ChainTypeOK
<1>1. ChainInv => ChainTypeOK
  BY DEF ChainInv
<1> QED BY <1>1, ChainAloneInvariance, PTL

(* The finally block of dispatch: no layer outlives the layer above it.    *)
THEOREM StartedLayersSettleFirst == ChainSpec => []NestedLifetimes
<1>1. ChainInv => NestedLifetimes
  BY DEF ChainInv
<1> QED BY <1>1, ChainAloneInvariance, PTL

(* next(): each layer starts at most once, not after the abort.            *)
THEOREM StartsAreOrderly == ChainSpec => OrderlyStarts
<1>1. ChainInv /\ [ChainNext]_chainVars => [StartStep]_chainVars
  <2> SUFFICES ASSUME ChainInv, ChainNext PROVE StartStep
    BY DEF chainVars, StartStep
  <2>1. CASE Begin
    BY <2>1, LayerNumbers DEF Begin, StartStep, ChainInv, ChainTypeOK, Layers
  <2>2. ASSUME NEW k \in Middleware, CallNext(k) PROVE StartStep
    <3>1. layer[k + 1] = "idle" /\ ~Quiet(k) /\ k + 1 \in Layers
      BY <2>2, LayerNumbers DEF CallNext, MayStart, ChainInv, OnlyThroughNext, Quiet
    <3>2. aborted => layer' = layer
      BY <2>2 DEF CallNext, SignalBlocks
    <3>3. ~aborted => layer' = [layer EXCEPT ![k + 1] = "running"]
      BY <2>2 DEF CallNext, SignalBlocks
    <3>4. (k + 1) - 1 = k /\ k + 1 > 0
      BY DEF Middleware
    <3> QED BY <3>1, <3>2, <3>3, <3>4 DEF StartStep, ChainInv, ChainTypeOK
  <2>3. ASSUME NEW k \in Layers,
               NEW state \in {"returned", "holding", "settled"},
               layer' = [layer EXCEPT ![k] = state]
        PROVE  StartStep
    BY <2>3 DEF StartStep, ChainInv, ChainTypeOK
  <2>4. CASE Abort
    BY <2>4 DEF Abort, StartStep
  <2> QED BY <2>1, <2>2, <2>3, <2>4, LayerNumbers
          DEF ChainNext, ChainStep, SettleCode, Finally, Release
<1> QED BY <1>1, ChainAloneInvariance, PTL DEF ChainSpec, OrderlyStarts

-----------------------------------------------------------------------------
(* ChainedInvocation: the composition of the two.                          *)

(* To the engine, a step of the composition is one of its own or none.     *)
LEMMA EngineSteps == [ChainedNext]_allVars => [Next]_vars
BY ChainedAssumption
DEF ChainedNext, StartChain, ChainReturns, ChainRuns, EngineRuns, allVars, Next,
    UserCode, Host

LEMMA EngineInvariance == ChainedSpec => [](IInv /\ PastInv)
<1>1. ChainedSpec => Spec
  BY EngineSteps, PTL DEF ChainedSpec, ChainedInit, Spec
<1> QED BY <1>1, PastInvariance, PTL

(* The signal a layer sees is the one the pipeline obeys.                  *)
SignalIsShared == aborted = Aborted(call)

LEMMA StepShared ==
    ASSUME IInv, PastInv, SignalIsShared, [ChainedNext]_allVars
    PROVE  SignalIsShared'
<1>1. CASE \/ StartChain
           \/ \E settlement \in HandlerOutcomes : ChainReturns(settlement)
           \/ ChainRuns \/ UNCHANGED allVars
  <2>1. UNCHANGED <<aborted, callerAborted, request, controller>>
    BY <1>1
    DEF StartChain, StartHandler, ChainReturns, SettleHandler, ChainRuns, allVars, vars,
        chainVars, Begin, ChainStep, CallNext, SettleCode, Finally, Release
  <2> QED BY <2>1 DEF SignalIsShared, Aborted, CallerHasAborted, Capability
<1>2. CASE EngineRuns
  BY <1>2 DEF EngineRuns, SignalIsShared
<1> QED BY <1>1, <1>2 DEF ChainedNext

(* To the chain, it is one of its own, the abort of its signal, or none.   *)
LEMMA ChainRefines ==
    IInv /\ IInv' /\ PastInv /\ SignalIsShared /\ [ChainedNext]_allVars
        => [ChainNext]_chainVars
<1> SUFFICES ASSUME IInv, IInv', PastInv, SignalIsShared, [ChainedNext]_allVars
             PROVE  ChainNext \/ UNCHANGED chainVars
  OBVIOUS
<1>1. CASE EngineRuns
  <2>1. Aborted(call) => Aborted(call)'
    BY EngineSteps, StepMoves, ChainedAssumption DEF Moves
  <2>2. Aborted(call) \in BOOLEAN /\ Aborted(call)' \in BOOLEAN
    BY ChainedAssumption DEF IInv, TypeOK, Aborted, CallerHasAborted
  <2>3. aborted' = aborted \/ (~aborted /\ aborted' = TRUE)
    BY <1>1, <2>1, <2>2 DEF EngineRuns, SignalIsShared
  <2> QED BY <1>1, <2>3 DEF EngineRuns, chainVars, ChainNext, Abort
<1> QED BY <1>1
        DEF ChainedNext, StartChain, ChainReturns, ChainRuns, allVars, ChainNext

LEMMA SharedInvariance == ChainedSpec => [](IInv /\ PastInv /\ SignalIsShared)
<1>1. ChainedInit => SignalIsShared
  BY DEF ChainedInit, SignalIsShared
<1> QED BY <1>1, StepShared, EngineInvariance, PTL DEF ChainedSpec

(* createChain under engine.invoke behaves as it does alone: whatever the  *)
(* engine and the caller do, the signal it is given, once aborted, stays   *)
(* aborted, so what is proved of a chain holds in an invocation.           *)
THEOREM ChainRefinement == ChainedSpec => ChainRunsAsAlone
BY ChainRefines, SharedInvariance, PTL
DEF ChainedSpec, ChainedInit, ChainRunsAsAlone, ChainSpec

(* run's promise is the outermost layer's: the handler is scheduled before *)
(* that layer begins and settles after it has settled.                     *)
Joined ==
    /\ handler[call] \in {"none", "scheduled"} => layer[0] = "idle"
    /\ handler[call] \in HandlerOutcomes => layer[0] = "settled"

LEMMA OutermostLayer ==
    ASSUME ChainInv, ChainStep
    PROVE  layer[0] \in {"idle", "settled"} => layer'[0] = layer[0]
<1>1. layer \in [Layers -> States] /\ 0 \in Layers
  BY DepthAssumption
  DEF ChainInv, ChainTypeOK, Layers, States
<1>2. \A k \in Middleware : k + 1 # 0
  BY DepthAssumption DEF Middleware
<1> QED BY <1>1, <1>2
        DEF ChainStep, CallNext, MayStart, Finally, Release,
            SettleCode

LEMMA StepJoined ==
    ASSUME IInv, PastInv, ChainInv, Joined, [ChainedNext]_allVars PROVE Joined'
<1>1. HandlerMoves(call)
  BY EngineSteps, StepMoves, ChainedAssumption DEF Moves
<1>2. CASE StartChain
  <2>1. handler'[call] = "running"
    BY <1>2, ChainedAssumption DEF StartChain, StartHandler, IInv, TypeOK
  <2> QED BY <2>1, OutcomesAreDistinct DEF Joined
<1>3. CASE \E settlement \in HandlerOutcomes : ChainReturns(settlement)
  <2>1. layer'[0] = "settled" /\ handler'[call] \in HandlerOutcomes
    BY <1>3, ChainedAssumption DEF ChainReturns, SettleHandler, IInv, TypeOK, chainVars
  <2> QED BY <2>1, OutcomesAreDistinct DEF Joined
<1>4. CASE ChainRuns
  BY <1>4, OutermostLayer DEF ChainRuns, vars, Joined
<1>5. CASE EngineRuns
  BY <1>1, <1>5, OutcomesAreDistinct DEF EngineRuns, HandlerMoves, Joined
<1>6. CASE UNCHANGED allVars
  BY <1>6 DEF allVars, vars, chainVars, Joined
<1> QED BY <1>2, <1>3, <1>4, <1>5, <1>6 DEF ChainedNext

LEMMA ChainedInvariance ==
    ChainedSpec => [](IInv /\ PastInv /\ SignalIsShared /\ ChainInv /\ Joined)
<1>1. ChainedInit => ChainInv
  BY ChainInitially DEF ChainedInit
<1>2. ChainedInit => Joined
  BY ChainedAssumption, DepthAssumption, OutcomesAreDistinct
  DEF ChainedInit, Init, ChainInit, Layers, Joined
<1>3. IInv /\ IInv' /\ PastInv /\ SignalIsShared /\ ChainInv /\ Joined
          /\ [ChainedNext]_allVars => ChainInv' /\ Joined'
  BY ChainRefines, ChainSteps, StepJoined
<1> QED BY <1>1, <1>2, <1>3, SharedInvariance, PTL DEF ChainedSpec

LEMMA OverIsQuiet ==
    ASSUME ChainInv, Joined, handler[call] \in {"none"} \cup HandlerOutcomes
    PROVE  \A k \in Layers : Quiet(k)
<1>1. /\ \A k \in Layers : k = 0 \/ k > 0
      /\ 0 \in Layers
      /\ layer[0] \in {"idle", "settled"}
  BY DepthAssumption DEF Layers, Joined
<1> QED BY <1>1
        DEF ChainInv, NothingBelowIdle, NestedLifetimes, Layers, Quiet

(* ADR 0051, engine.invoke over runWithMiddleware: unless it was cancelled,*)
(* an invocation completes when nothing of its chain runs any more.        *)
THEOREM CompletionAfterChain == ChainedSpec => []CompletesAfterChain
<1>1. PastInv /\ ChainInv /\ Joined => CompletesAfterChain
  BY OverIsQuiet, ChainedAssumption DEF PastInv, Over, CompletesAfterChain
<1> QED BY <1>1, ChainedInvariance, PTL

(* ADR 0051, next() within engine.invoke: no inner layer begins once the   *)
(* caller has its answer or the signal has fired.                          *)
THEOREM LayersStartInTime == ChainedSpec => StartsWithinInvocation
<1> DEFINE Timely(k) == layer[k] = "idle" /\ layer'[k] # "idle" =>
                            outcome[call] = "pending" /\ ~Aborted(call)
<1>1. ASSUME IInv, PastInv, SignalIsShared, ChainInv, Joined, [ChainedNext]_allVars,
             NEW k \in Layers \ {0}
      PROVE  Timely(k)
  <2>1. CASE UNCHANGED layer
    BY <2>1
  <2>2. CASE Begin
    BY <2>2 DEF Begin
  <2>3. ASSUME NEW m \in Middleware, CallNext(m), layer[k] = "idle",
               layer'[k] # "idle"
        PROVE  outcome[call] = "pending" /\ ~Aborted(call)
    <3>1. ~Aborted(call) /\ ~Quiet(m) /\ m \in Layers
      BY <1>1, <2>3, DepthAssumption
      DEF SignalIsShared, CallNext, MayStart, SignalBlocks, Quiet, Layers,
          Middleware
    <3>2. handler[call] \notin {"none"} \cup HandlerOutcomes
      BY <1>1, <3>1, OverIsQuiet
    <3> QED BY <1>1, <3>1, <3>2, ChainedAssumption DEF PastInv, Over
  <2>4. ASSUME NEW m \in Layers, SettleCode(m, "value") \/
               SettleCode(m, "failure") \/ Finally(m) \/ Release(m)
        PROVE  Timely(k)
    BY <1>1, <2>4
    DEF SettleCode, Finally, Release, ChainInv, ChainTypeOK,
        Layers
  <2>5. Middleware \subseteq Layers
    BY DepthAssumption DEF Layers, Middleware
  <2> QED BY <1>1, <2>1, <2>2, <2>3, <2>4, <2>5
          DEF ChainedNext, StartChain, ChainReturns, ChainRuns, EngineRuns, allVars,
              chainVars, ChainStep
<1>2. IInv /\ PastInv /\ SignalIsShared /\ ChainInv /\ Joined /\ [ChainedNext]_allVars =>
          [\A k \in Layers \ {0} : Timely(k)]_allVars
  BY <1>1
<1> QED BY <1>2, ChainedInvariance, PTL DEF ChainedSpec, StartsWithinInvocation
=============================================================================
