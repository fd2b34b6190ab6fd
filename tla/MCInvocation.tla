----------------------------- MODULE MCInvocation -----------------------------
(* A small instance of Invocation: which capabilities exist and which      *)
(* calls callers make.                                                           *)
EXTENDS Invocation, TLC

CONSTANTS i1, s1, open, guarded, ruled

MCAccess == open :> "public" @@ guarded :> "authenticated" @@ ruled :> "function"

(* Every call there is, for one invocation. *)
AllRequests == RequestType
=============================================================================
