---------------------------- MODULE OwnershipPlanner ----------------------------
(***************************************************************************)
(* packages/installer/src/ownership-planner.ts, with the state transition  *)
(* of installer-state-transition.ts and the patches mutation-coordinator   *)
(* builds from it: from the record the installer keeps of an entry and the *)
(* definition found in a client's configuration, what an action may do.    *)
(*                                                                         *)
(* A definition is reduced to its fingerprint (text) and its toggle (on).  *)
(* The strategies "native-enabled" and "native-disabled" differ in the     *)
(* polarity of one field and are one strategy here, "native"; a "detached" *)
(* client has no toggle: disabling removes the definition and suspends it  *)
(* in the record.                                                          *)
(***************************************************************************)
CONSTANTS
    Strategy,  \* the client's toggle strategy
    Entries,   \* registry entry (or engine) IDs
    Names,     \* MCP server names
    Texts      \* fingerprints of definitions

ASSUME PlannerAssumption ==
    /\ Strategy \in {"native", "detached"}
    /\ "none" \notin Texts \cup Names

Actions == {"install", "enable", "disable", "adopt", "remove"}

Descriptor == [entry : Entries, name : Names, text : Texts]

Absent == [present |-> FALSE, text |-> "none", on |-> FALSE]

Present(text, on) == [present |-> TRUE, text |-> text, on |-> on]

Definition ==
    {Absent} \cup {Present(text, TRUE) : text \in Texts} \cup
    (IF Strategy = "native" THEN {Present(text, FALSE) : text \in Texts} ELSE {})

NoRecord ==
    [kept |-> FALSE, name |-> "none", text |-> "none", suspended |-> "none"]

(* A ManagedInstallation; a native one never has a suspended descriptor.   *)
Managed ==
    [kept : {TRUE}, name : Names, text : Texts,
     suspended : {"none"} \cup (IF Strategy = "detached" THEN Texts ELSE {})]

Record == {NoRecord} \cup Managed

Kept(name, text, suspended) ==
    [kept |-> TRUE, name |-> name, text |-> text, suspended |-> suspended]

-----------------------------------------------------------------------------
(* Mutant of Drifted: the fingerprint of what is there is not compared.    *)
DriftedByPresence(record, d, current) ==
    \/ Strategy = "native" /\ ~current.present
    \/ Strategy = "detached" /\ (current.present <=> record.suspended # "none")
    \/ record.name # d.name

(* classifyManaged: what is there is not what the record says.             *)
Drifted(record, d, current) ==
    \/ Strategy = "native" /\ ~current.present
    \/ Strategy = "detached" /\ (current.present <=> record.suspended # "none")
    \/ ~current.present /\ record.suspended \notin {"none", record.text}
    \/ record.name # d.name
    \/ current.present /\ current.text # record.text

Status(record, d, current) ==
    CASE ~record.kept /\ ~current.present -> "available"
      [] ~record.kept /\ current.present ->
            IF current.text = d.text THEN "external" ELSE "conflict"
      [] record.kept ->
            IF Drifted(record, d, current) THEN "drifted"
            ELSE IF record.text # d.text THEN "outdated"
            ELSE IF current.on THEN "enabled" ELSE "disabled"

(* planInstallerAction and the remove branch of mutateTarget refuse.       *)
Blocked(record, d, current, action) ==
    LET status == Status(record, d, current) IN
    \/ status \in {"conflict", "drifted"}
    \/ status = "external" /\ action # "adopt"
    \/ status = "available" /\ action = "remove"

(* Nothing to do.  An outdated definition is enabled or disabled, too.     *)
Unchanged(record, d, current, action) ==
    ~Blocked(record, d, current, action) /\
    LET status == Status(record, d, current) IN
    CASE action = "install" -> status \in {"enabled", "disabled"}
      [] action = "enable"  -> ~record.kept \/ current.on
      [] action = "disable" -> ~record.kept \/ ~current.on
      [] action = "adopt"   -> status # "external"
      [] action = "remove"  -> FALSE

Writes(record, d, current, action) ==
    /\ ~Blocked(record, d, current, action)
    /\ ~Unchanged(record, d, current, action)

-----------------------------------------------------------------------------
(* Mutant of PostDefinition: enabling a detached definition takes it from  *)
(* the registry.                                                           *)
PostDefinitionLatest(record, d, current, action) ==
    CASE action = "install" ->
            IF ~record.kept \/ current.on THEN Present(d.text, TRUE)
            ELSE IF Strategy = "native" THEN Present(d.text, FALSE) ELSE current
      [] action = "adopt"   -> current
      [] action = "remove"  -> Absent
      [] action = "enable"  -> Present(d.text, TRUE)
      [] action = "disable" ->
            IF Strategy = "native" THEN Present(current.text, FALSE) ELSE Absent

(* The definition after an action that writes: installReplacementPatch,    *)
(* constructPatch.  An update keeps a disabled definition disabled.        *)
PostDefinition(record, d, current, action) ==
    CASE action = "install" ->
            IF ~record.kept \/ current.on THEN Present(d.text, TRUE)
            ELSE IF Strategy = "native" THEN Present(d.text, FALSE) ELSE current
      [] action = "adopt"   -> current
      [] action = "remove"  -> Absent
      [] action = "enable"  ->
            IF Strategy = "native" THEN Present(current.text, TRUE)
            ELSE Present(record.suspended, TRUE)
      [] action = "disable" ->
            IF Strategy = "native" THEN Present(current.text, FALSE) ELSE Absent

(* Mutant of PostRecord: an update forgets to renew what is suspended.     *)
PostRecordKeepSuspended(record, d, current, action) ==
    CASE action \in {"install", "adopt"} -> Kept(d.name, d.text, record.suspended)
      [] action = "remove"  -> NoRecord
      [] action = "enable"  -> Kept(record.name, record.text, "none")
      [] action = "disable" ->
            Kept(record.name, record.text,
                 IF Strategy = "detached" THEN current.text ELSE "none")

(* createInstallation, applyUpdate: the record after it.                   *)
PostRecord(record, d, current, action) ==
    CASE action \in {"install", "adopt"} ->
            Kept(d.name, d.text,
                 IF record.kept /\ Strategy = "detached" /\ ~current.present
                 THEN d.text ELSE "none")
      [] action = "remove"  -> NoRecord
      [] action = "enable"  -> Kept(record.name, record.text, "none")
      [] action = "disable" ->
            Kept(record.name, record.text,
                 IF Strategy = "detached" THEN current.text ELSE "none")
=============================================================================
