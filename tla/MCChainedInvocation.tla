-------------------------- MODULE MCChainedInvocation --------------------------
(* One wrapped call, of a capability with and of one without a timeout.    *)
EXTENDS ChainedInvocation, TLC

CONSTANTS i1, s1, open, guarded

MCAccess == open :> "public" @@ guarded :> "authenticated"

WrappedRequests ==
    {[options |-> "readable", capability |-> c, principal |-> "known",
      signal |-> s, onProgress |-> FALSE] :
         c \in {open, guarded}, s \in {s1, "absent"}}
=============================================================================
