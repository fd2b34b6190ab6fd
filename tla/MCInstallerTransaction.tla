------------------------- MODULE MCInstallerTransaction --------------------------
(* Two processes; the instances choose which state and configuration files *)
(* they share, and which entries they may be asked to manage.              *)
EXTENDS InstallerTransaction, TLC

CONSTANTS p1, p2, s1, s2, c1, c2

Interchangeable == Permutations(Processes)

(* What an idle process did and reported has no bearing on what follows:   *)
(* Begin sets target, failure and committed anew.                          *)
Relevant ==
    <<lock, stage, left, delay, cancelled, file, records, tx, edits, disturbed,
      [p \in Processes |-> IF stage[p] = "idle" THEN <<>>
                           ELSE <<target[p], failure[p], committed[p]>>]>>

OneState  == [p \in Processes |-> s1]
TwoStates == [p \in Processes |-> IF p = p2 THEN s2 ELSE s1]
Missing == {NoFile}
Existing == {NoFile} \cup
    {[exists |-> TRUE, servers |-> [NoServers EXCEPT !["n1"] = definition]] :
        definition \in {Present("v1", TRUE), Present("v2", TRUE)}}
OneTarget == [c \in Configs |-> "client"]

Of(entry, name, text) == [entry |-> entry, name |-> name, text |-> text]
Asked(action, d) == [action |-> action, d |-> d, manifest |-> "none"]

(* One entry, published in two versions.                                   *)
Managing(entry, name) ==
    {Asked(a, Of(entry, name, "v1")) : a \in {"install", "disable", "remove"}}
    \cup {Asked("install", Of(entry, name, "v2"))}

OneEntry == Managing("e1", "n1")

(* Two entries under two names, the second removed by its engine; the      *)
(* client may move its configuration.                                      *)
TwoEntries ==
    {Asked(a, Of("e1", "n1", "v1")) : a \in {"install", "disable", "enable"}}
    \cup {Asked("install", Of("e2", "n2", "v2")),
          [action |-> "remove", d |-> Of("e2", "n2", "v2"), manifest |-> "n2"],
          [action |-> "remove", d |-> Of("e2", "n2", "v2"), manifest |-> "n1"]}
=============================================================================
