--------------------------- MODULE ManagedInstallation ---------------------------
(***************************************************************************)
(* The life of one registry entry in one client configuration: installed,  *)
(* toggled, updated, adopted and removed by the installer while the client *)
(* and its user edit the same file.  Each step is one whole transaction;   *)
(* InstallerTransaction opens it up.                                       *)
(*                                                                         *)
(* The descriptor an action runs with is the registry's, the one persisted *)
(* at the last installation, or one that became stale while the user was   *)
(* asked to confirm: any of Descriptors.                                   *)
(***************************************************************************)
EXTENDS OwnershipPlanner

CONSTANTS
    entry,        \* the entry
    Descriptors   \* the descriptors it may be run with

ASSUME LifeAssumption ==
    /\ entry \in Entries
    /\ Descriptors \subseteq [entry : {entry}, name : Names, text : Texts]

VARIABLES
    config,  \* config[n]: the definition of server n in the configuration
    record   \* the installer's record of the entry

vars == <<config, record>>

TypeOK ==
    /\ config \in [Names -> Definition]
    /\ record \in Record

Init ==
    /\ config \in [Names -> Definition]
    /\ record = NoRecord

Perform(action, d) ==
    /\ Writes(record, d, config[d.name], action)
    /\ config' = [config EXCEPT ![d.name] =
                     PostDefinition(record, d, config[d.name], action)]
    /\ record' = PostRecord(record, d, config[d.name], action)

(* Anything but the installer.                                             *)
ClientEdits(n, definition) ==
    /\ config' = [config EXCEPT ![n] = definition]
    /\ UNCHANGED record

Next ==
    \/ \E action \in Actions, d \in Descriptors : Perform(action, d)
    \/ \E n \in Names, definition \in Definition : ClientEdits(n, definition)

Spec == Init /\ [][Next]_vars

-----------------------------------------------------------------------------
(* AE-INSTALL-03: "never deletes [...] an externally changed definition".  *)
(* The installer replaces or deletes only the definition it manages, as it *)
(* left it, and writes a new one only where there is none.                 *)
OwnedStep ==
    \A action \in Actions, d \in Descriptors : Perform(action, d) =>
        \A n \in Names : config'[n] # config[n] =>
            \/ ~config[n].present
            \/ record.kept /\ n = record.name /\ config[n].text = record.text

TouchesOnlyOwned == [][OwnedStep]_vars

(* ADR 0013: "Re-running the command is idempotent."  What an action has   *)
(* done, the same action with the same descriptor finds done.              *)
RepeatIsUnchanged ==
    [][\A action \in Actions \ {"remove"}, d \in Descriptors :
          Perform(action, d) =>
              Unchanged(record', d, config'[d.name], action)]_vars

(* Disabling and enabling again restores the definition and the record,    *)
(* also when the registry has a newer definition meanwhile.                *)
TogglesAreInverse ==
    \A d \in Descriptors :
        LET current == config[d.name]
            off     == PostDefinition(record, d, current, "disable")
            kept    == PostRecord(record, d, current, "disable")
        IN  Writes(record, d, current, "disable") =>
                /\ Writes(kept, d, off, "enable")
                /\ PostDefinition(kept, d, off, "enable") = current
                /\ PostRecord(kept, d, off, "enable") = record

(* "updates disabled definitions without enabling them": an update renews  *)
(* the definition and leaves the server as the user toggled it.            *)
UpdatesKeepToggle ==
    [][\A d \in Descriptors :
          record.kept /\ Perform("install", d) =>
              config'[d.name].on = config[d.name].on]_vars

(* The installer never makes its own work look drifted: after any of its   *)
(* steps the record and the configuration agree, so that the next action   *)
(* of the user is not refused.                                             *)
Settled(d) == Status(record, d, config[d.name]) \notin {"drifted", "conflict"}

NoSelfInflictedDrift ==
    [][\A action \in Actions, d \in Descriptors :
          Perform(action, d) => Settled(d)']_vars
=============================================================================
