-------------------------- MODULE InvocationContract --------------------------
(***************************************************************************)
(* What callers, event hooks and progress sinks may rely on, whatever the  *)
(* pipeline of engine.invoke does inside: an invocation is checked, then   *)
(* perhaps executed, then settled once.  Only an executed one completes or *)
(* fails with a declared domain error, and progress is heard only while it *)
(* executes, in increasing order.                                          *)
(***************************************************************************)
EXTENDS Naturals

CONSTANTS Invocations, RefusalCodes, MaxProgress

VARIABLES phase, delivered, result

vars == <<phase, delivered, result>>

Results == RefusalCodes \cup {"completed", "DOMAIN_ERROR"}

Init ==
    /\ phase = [i \in Invocations |-> "idle"]
    /\ delivered = [i \in Invocations |-> 0]
    /\ result = [i \in Invocations |-> "pending"]

Enter(i, next) ==
    /\ phase' = [phase EXCEPT ![i] = next]
    /\ UNCHANGED <<delivered, result>>

Begin(i) == phase[i] = "idle" /\ Enter(i, "checking")

Admit(i) == phase[i] = "checking" /\ Enter(i, "executing")

Publish(i, r) ==
    /\ phase' = [phase EXCEPT ![i] = "settled"]
    /\ result' = [result EXCEPT ![i] = r]
    /\ UNCHANGED delivered

Refuse(i) ==
    /\ phase[i] \in {"idle", "checking"}
    /\ \E code \in RefusalCodes : Publish(i, code)

Deliver(i) ==
    /\ phase[i] = "executing"
    /\ \E n \in 1..MaxProgress :
          /\ n > delivered[i]
          /\ delivered' = [delivered EXCEPT ![i] = n]
    /\ UNCHANGED <<phase, result>>

Finish(i) ==
    /\ phase[i] = "executing"
    /\ \E r \in Results : Publish(i, r)

Next == \E i \in Invocations :
    Begin(i) \/ Admit(i) \/ Refuse(i) \/ Deliver(i) \/ Finish(i)

Spec == Init /\ [][Next]_vars
=============================================================================
