--------------------------- MODULE ChainedInvocation ---------------------------
(***************************************************************************)
(* An invocation of a capability wrapped by applyMiddleware: the run that  *)
(* engine.invoke races against cancellation is the runWithMiddleware of    *)
(* packages/core/src/middleware.ts.                                        *)
(*                                                                         *)
(* The engine knows nothing of the chain and the chain nothing of the      *)
(* engine: they share the call that starts run, the promise it returns and *)
(* context.signal, which is aborted when Aborted(call) is.                 *)
(***************************************************************************)
EXTENDS Invocation, MiddlewareChain

CONSTANT call  \* the invocation whose capability is wrapped

ASSUME ChainedAssumption == call \in Invocations

allVars == <<vars, chainVars>>

ChainedInit ==
    /\ Init
    /\ aborted = Aborted(call)
    /\ ChainInit

(* The queued microtask calls runWithMiddleware, which dispatches layer 0. *)
StartChain ==
    /\ StartHandler(call)
    /\ Begin

(* run's promise is dispatch(0)'s.                                         *)
ChainReturns(settlement) ==
    /\ layer[0] = "settled"
    /\ result[0] = IF settlement = "value" THEN "value" ELSE "failure"
    /\ SettleHandler(call, settlement)
    /\ UNCHANGED chainVars

(* The layers run; the engine does not notice.                             *)
ChainRuns ==
    /\ UNCHANGED vars
    /\ ChainStep

(* Everything else the engine, the caller and the other invocations do.    *)
EngineRuns ==
    /\ Next
    /\ handler'[call] # handler[call] => handler'[call] = "scheduled"
    /\ aborted' = Aborted(call)'
    /\ UNCHANGED <<layer, claimed, refused, result>>

ChainedNext ==
    \/ StartChain
    \/ \E settlement \in HandlerOutcomes : ChainReturns(settlement)
    \/ ChainRuns
    \/ EngineRuns

ChainedSpec == ChainedInit /\ [][ChainedNext]_allVars

-----------------------------------------------------------------------------
(* ADR 0051: "The invocation cannot complete while part of the chain is    *)
(* still running".  Only cancellation may leave a layer behind.            *)
CompletesAfterChain ==
    outcome[call] \notin {"pending", "CANCELLED"} =>
        \A k \in Layers : Quiet(k)

(* ADR 0051: when the signal fires no further layer starts, and a handler  *)
(* cannot start after completion: once the caller has its answer, or the   *)
(* signal has fired, no inner layer begins.                                *)
StartsWithinInvocation ==
    [][\A k \in Layers \ {0} :
          layer[k] = "idle" /\ layer'[k] # "idle" =>
              outcome[call] = "pending" /\ ~Aborted(call)]_allVars

(* The engine gives the chain the signal it relies on: one that, once      *)
(* aborted, stays aborted, through cleanup() and after the invocation.     *)
ChainRunsAsAlone == ChainSpec
=============================================================================
