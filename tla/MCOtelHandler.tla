----------------------------- MODULE MCOtelHandler -----------------------------
(* A handler with room for one entry per map, four invocations that share  *)
(* three request IDs, and two sources.                                     *)
EXTENDS OtelHandler, TLC

Symmetry ==
    Permutations(Invocations) \cup Permutations(RequestIds) \cup Permutations(Sources)
================================================================================
