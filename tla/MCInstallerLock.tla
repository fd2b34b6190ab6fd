----------------------------- MODULE MCInstallerLock -----------------------------
(* Three processes and one configuration: p1 and p2 share a state file, p3 *)
(* has another one.                                                        *)
EXTENDS InstallerLock

CONSTANTS p1, p2, p3, s1, s2, c1

MCStateOf == [p \in Processes |-> IF p = p3 THEN s2 ELSE s1]
=============================================================================
