---------------------------- MODULE MiddlewareChain ----------------------------
(***************************************************************************)
(* createChain of packages/core/src/middleware.ts: one call of a wrapped   *)
(* run.  Layers 0..Depth-1 are the middleware, outermost first; layer      *)
(* Depth is the original handler.  dispatch(k) runs layer k; its next()    *)
(* may dispatch layer k+1 once, and the layer's own result is held until   *)
(* what it started has settled.                                            *)
(*                                                                         *)
(* A middleware is arbitrary code: it may call next() whenever it runs or  *)
(* from work it left behind, ignore the promise, call it again, or settle  *)
(* at any time.  A promise settling and the await on it continuing are two *)
(* steps: other microtasks run in between.                                 *)
(***************************************************************************)
EXTENDS Naturals

CONSTANT Depth  \* how many middleware wrap the handler

ASSUME DepthAssumption == Depth \in Nat \ {0}

VARIABLES
    aborted,  \* context.signal is aborted
    layer,    \* layer[k]: the promise of dispatch(k)
    claimed,  \* claimed[k]: layer k has used its one call of next()
    refused,  \* refused[k]: that call found the signal aborted
    result    \* result[k]: what the code of layer k settled with

chainVars == <<aborted, layer, claimed, refused, result>>

Layers == 0..Depth
Middleware == 0..(Depth - 1)

(* idle: not dispatched; running: its code has not settled; returned: it   *)
(* has, but dispatch does not know yet; holding: dispatch waits for the    *)
(* layer below; settled: dispatch(k) is settled.                           *)
States == {"idle", "running", "returned", "holding", "settled"}

ChainTypeOK ==
    /\ aborted \in BOOLEAN
    /\ layer \in [Layers -> States]
    /\ claimed \in [Middleware -> BOOLEAN]
    /\ refused \in [Middleware -> BOOLEAN]
    /\ result \in [Layers -> {"none", "value", "failure"}]

ChainInit ==
    /\ aborted \in BOOLEAN
    /\ layer = [k \in Layers |-> "idle"]
    /\ claimed = [k \in Middleware |-> FALSE]
    /\ refused = [k \in Middleware |-> FALSE]
    /\ result = [k \in Layers |-> "none"]

-----------------------------------------------------------------------------
(* runWithMiddleware: dispatch(0).  It does not look at the signal.        *)
Begin ==
    /\ layer[0] = "idle"
    /\ layer' = [layer EXCEPT ![0] = "running"]
    /\ UNCHANGED <<aborted, claimed, refused, result>>

(* Mutant of MayStart: the started check is dropped.                       *)
MayStartAgain(k) == layer[k] \in {"running", "returned"}

(* settled is set only when the await on the layer's code continues.       *)
MayStart(k) == layer[k] \in {"running", "returned"} /\ ~claimed[k]

(* Mutant of SignalBlocks: abortReason is not consulted.                   *)
SignalBlocksNothing == FALSE

SignalBlocks == aborted

(* next(): the call is claimed before anything else, then either refused   *)
(* by the signal or dispatched, which runs the next layer synchronously.   *)
(* Any other call rejects and changes nothing.                             *)
CallNext(k) ==
    /\ MayStart(k)
    /\ claimed' = [claimed EXCEPT ![k] = TRUE]
    /\ IF SignalBlocks
       THEN refused' = [refused EXCEPT ![k] = TRUE] /\ UNCHANGED layer
       ELSE layer' = [layer EXCEPT ![k + 1] = "running"] /\ UNCHANGED refused
    /\ UNCHANGED <<aborted, result>>

(* The code of a layer settles.  The handler's promise is dispatch's own.  *)
SettleCode(k, settlement) ==
    /\ layer[k] = "running"
    /\ layer' = [layer EXCEPT ![k] = IF k = Depth THEN "settled" ELSE "returned"]
    /\ result' = [result EXCEPT ![k] = settlement]
    /\ UNCHANGED <<aborted, claimed, refused>>

(* Mutant of MustHold: the layer below may be left behind.                 *)
MustHoldNothing(k) == FALSE

MustHold(k) == claimed[k]

(* The finally block of dispatch.                                          *)
Finally(k) ==
    /\ layer[k] = "returned"
    /\ layer' = [layer EXCEPT ![k] = IF MustHold(k) THEN "holding" ELSE "settled"]
    /\ UNCHANGED <<aborted, claimed, refused, result>>

(* Mutant of Release: only a layer that was dispatched can be waited for.  *)
ReleaseDispatched(k) ==
    /\ layer[k] = "holding"
    /\ layer[k + 1] = "settled"
    /\ layer' = [layer EXCEPT ![k] = "settled"]
    /\ UNCHANGED <<aborted, claimed, refused, result>>

(* The await on started continues, whatever started came to.               *)
Release(k) ==
    /\ layer[k] = "holding"
    /\ refused[k] \/ layer[k + 1] = "settled"
    /\ layer' = [layer EXCEPT ![k] = "settled"]
    /\ UNCHANGED <<aborted, claimed, refused, result>>

Abort ==
    /\ ~aborted
    /\ aborted' = TRUE
    /\ UNCHANGED <<layer, claimed, refused, result>>

ChainStep ==
    \/ \E k \in Middleware : CallNext(k) \/ Finally(k) \/ Release(k)
    \/ \E k \in Layers, settlement \in {"value", "failure"} : SettleCode(k, settlement)

ChainNext == Begin \/ ChainStep \/ Abort

ChainSpec == ChainInit /\ [][ChainNext]_chainVars

(* Microtasks run; the code of every layer settles in the end.             *)
FairChainSpec ==
    /\ ChainSpec
    /\ \A k \in Middleware : WF_chainVars(Finally(k)) /\ WF_chainVars(Release(k))
    /\ \A k \in Layers :
          WF_chainVars(\E settlement \in {"value", "failure"} : SettleCode(k, settlement))

-----------------------------------------------------------------------------
Quiet(k) == layer[k] \in {"idle", "settled"}

(* ADR 0051: a started layer cannot detach.  When the promise of a layer   *)
(* has settled, nothing below it runs or will ever run.                    *)
NestedLifetimes ==
    \A k \in Layers : layer[k] = "settled" =>
        \A below \in Layers : below > k => Quiet(below)

(* A layer begins at most once, below a layer whose own promise is still   *)
(* pending, and never after the abort; only the outermost layer begins     *)
(* without a look at the signal.                                           *)
StartStep ==
    \A k \in Layers : layer'[k] = "running" /\ layer[k] # "running" =>
        /\ layer[k] = "idle"
        /\ k > 0 => ~aborted /\ ~Quiet(k - 1)

OrderlyStarts == [][StartStep]_chainVars

(* A layer holds for the layer below, which holds for the one below it:    *)
(* no wait is for ever once the code of the layers settles.                *)
ChainSettles == (layer[0] # "idle") ~> (\A k \in Layers : Quiet(k))
=============================================================================
