------------------------ MODULE ManagedInstallationProofs ------------------------
(***************************************************************************)
(* Proofs about the planner and ManagedInstallation, for every set of      *)
(* entries, names and definitions and for both toggle strategies: what the *)
(* planner's verdict on a record and a definition implies, what an action  *)
(* leaves, and what follows for a life of actions and edits, for which the *)
(* type invariant is all the theorems need besides.                        *)
(***************************************************************************)
EXTENDS ManagedInstallation, TLAPS

-----------------------------------------------------------------------------
(* OwnershipPlanner.                                                       *)

LEMMA NoName == "none" \notin Texts /\ "none" \notin Names
BY PlannerAssumption

USE DEF Kept

LEMMA Shapes ==
    ASSUME NEW r \in Record, NEW current \in Definition
    PROVE  /\ r.kept \in BOOLEAN
           /\ r.kept => r.name \in Names /\ r.text \in Texts
                        /\ r.suspended \in Texts \cup {"none"}
                        /\ (Strategy = "native" => r.suspended = "none")
                        /\ r = [kept |-> TRUE, name |-> r.name, text |-> r.text,
                                suspended |-> r.suspended]
           /\ ~r.kept => r = NoRecord
           /\ current.present \in BOOLEAN /\ current.on \in BOOLEAN
           /\ current.present => current.text \in Texts
                                 /\ current = Present(current.text, current.on)
                                 /\ (Strategy = "detached" => current.on)
           /\ ~current.present => current = Absent
<1>1. Strategy \in {"native", "detached"}
  BY PlannerAssumption
<1>2. CASE r = NoRecord
  <2>1. r.kept = FALSE BY <1>2 DEF NoRecord
  <2>2. CASE current = Absent
    <3>1. current.present = FALSE /\ current.on = FALSE BY <2>2 DEF Absent
    <3> QED BY <1>2, <2>1, <2>2, <3>1
  <2>3. CASE current # Absent
    <3>1. PICK t \in Texts, on \in BOOLEAN :
              current = Present(t, on) /\ (Strategy = "detached" => on)
      BY <1>1, <2>3 DEF Definition
    <3>2. current.present = TRUE /\ current.text = t /\ current.on = on
      BY <3>1 DEF Present
    <3> QED BY <1>2, <2>1, <3>1, <3>2
  <2> QED BY <2>2, <2>3
<1>3. CASE r \in Managed
  <2>1. /\ r.kept
        /\ r.name \in Names /\ r.text \in Texts
        /\ r.suspended \in Texts \cup {"none"}
        /\ (Strategy = "native" => r.suspended = "none")
        /\ r = [kept |-> TRUE, name |-> r.name, text |-> r.text,
                suspended |-> r.suspended]
    BY <1>1, <1>3 DEF Managed
  <2>2. CASE current = Absent
    BY <2>1, <2>2 DEF Absent
  <2>3. CASE current # Absent
    <3>1. PICK t \in Texts, on \in BOOLEAN :
              current = Present(t, on) /\ (Strategy = "detached" => on)
      BY <1>1, <2>3 DEF Definition
    <3> QED BY <2>1, <3>1 DEF Present
  <2> QED BY <2>2, <2>3
<1> QED BY <1>2, <1>3 DEF Record

LEMMA Absences ==
    /\ Absent \in Definition /\ ~Absent.present /\ ~Absent.on
    /\ NoRecord \in Record /\ ~NoRecord.kept
    /\ \A t \in Texts : /\ Present(t, TRUE) \in Definition
                        /\ Strategy = "native" => Present(t, FALSE) \in Definition
    /\ \A t, on : Present(t, on).text = t /\ Present(t, on).on = on
                  /\ Present(t, on).present
BY DEF Absent, NoRecord, Present, Definition, Record

(* What each status stands for.                                            *)
LEMMA Statuses ==
    ASSUME NEW r \in Record, NEW current \in Definition, NEW d \in Descriptor
    PROVE  LET status == Status(r, d, current) IN
           /\ ~r.kept /\ ~current.present => status = "available"
           /\ ~r.kept /\ current.present =>
                 status = IF current.text = d.text THEN "external" ELSE "conflict"
           /\ r.kept /\ Drifted(r, d, current) => status = "drifted"
           /\ r.kept /\ ~Drifted(r, d, current) =>
                 status = IF r.text # d.text THEN "outdated"
                          ELSE IF current.on THEN "enabled" ELSE "disabled"
BY Shapes DEF Status

(* What must hold for the planner to let an action write.                  *)
LEMMA WritesWhen ==
    ASSUME NEW r \in Record, NEW current \in Definition, NEW d \in Descriptor,
           NEW action \in Actions, Writes(r, d, current, action)
    PROVE  /\ r.kept => /\ ~Drifted(r, d, current)
                        /\ action # "adopt"
                        /\ action = "install" => r.text # d.text
                        /\ action = "enable" => ~current.on
                        /\ action = "disable" => current.on
           /\ ~r.kept => /\ action \in {"install", "adopt"}
                         /\ action = "install" => ~current.present
                         /\ action = "adopt" => current.present /\ current.text = d.text
<1>1. /\ Status(r, d, current) \notin {"conflict", "drifted"}
      /\ Status(r, d, current) = "external" => action = "adopt"
      /\ Status(r, d, current) = "available" => action # "remove"
  BY DEF Writes, Blocked
<1>2. /\ action = "install" => Status(r, d, current) \notin {"enabled", "disabled"}
      /\ action = "enable" => r.kept /\ ~current.on
      /\ action = "disable" => r.kept /\ current.on
      /\ action = "adopt" => Status(r, d, current) = "external"
  BY DEF Writes, Unchanged, Actions
<1>3. CASE r.kept
  BY <1>1, <1>2, <1>3, Statuses, Shapes
<1>4. CASE ~r.kept
  BY <1>1, <1>2, <1>4, Statuses, Shapes DEF Actions
<1> QED BY <1>3, <1>4

(* What an undrifted record says of the definition.                        *)
LEMMA Undrifted ==
    ASSUME NEW r \in Record, NEW current \in Definition, NEW d \in Descriptor,
           r.kept, ~Drifted(r, d, current)
    PROVE  /\ r.name = d.name
           /\ current.present => current.text = r.text /\ r.suspended = "none"
           /\ ~current.present => /\ Strategy = "detached"
                                  /\ r.suspended = r.text
BY Shapes, PlannerAssumption DEF Drifted

LEMMA Keeps ==
    ASSUME NEW n \in Names, NEW t \in Texts,
           NEW s \in {"none"} \cup (IF Strategy = "detached" THEN Texts ELSE {})
    PROVE  Kept(n, t, s) \in Record
BY DEF Record, Managed

(* What an action leaves is a definition and a record.                     *)
LEMMA PostTyped ==
    ASSUME NEW r \in Record, NEW current \in Definition, NEW d \in Descriptor,
           NEW action \in Actions, Writes(r, d, current, action)
    PROVE  /\ PostDefinition(r, d, current, action) \in Definition
           /\ PostRecord(r, d, current, action) \in Record
<1>1. d.text \in Texts /\ d.name \in Names
  BY DEF Descriptor
<1>2. Strategy \in {"native", "detached"}
  BY PlannerAssumption
<1>3. CASE action = "install"
  <2>1. PostDefinition(r, d, current, action) \in Definition
    BY <1>1, <1>2, <1>3, Absences DEF PostDefinition
  <2>2. PostRecord(r, d, current, action) \in Record
    BY <1>1, <1>2, <1>3 DEF PostRecord, Record, Managed
  <2> QED BY <2>1, <2>2
<1>4. CASE action = "adopt"
  <2>1. PostDefinition(r, d, current, action) \in Definition
    BY <1>4 DEF PostDefinition
  <2>2. PostRecord(r, d, current, action) \in Record
    BY <1>1, <1>2, <1>4 DEF PostRecord, Record, Managed
  <2> QED BY <2>1, <2>2
<1>5. CASE action = "remove"
  BY <1>5, Absences DEF PostDefinition, PostRecord
<1>6. CASE action = "enable"
  <2>1. r.kept /\ ~Drifted(r, d, current)
    BY <1>6, WritesWhen, Shapes
  <2>2. PostDefinition(r, d, current, action) \in Definition
    <3>1. CASE Strategy = "native"
      BY <1>6, <2>1, <3>1, Undrifted, Shapes, Absences, WritesWhen DEF PostDefinition
    <3>2. CASE Strategy = "detached"
      <4>1. r.suspended = r.text /\ r.text \in Texts
        BY <1>6, <2>1, <3>2, Undrifted, WritesWhen, Shapes
      <4> QED BY <1>6, <3>2, <4>1, Absences, PlannerAssumption DEF PostDefinition
    <3> QED BY <1>2, <3>1, <3>2
  <2>3. PostRecord(r, d, current, action) \in Record
    BY <1>6, <2>1, Keeps, Shapes DEF PostRecord
  <2> QED BY <2>2, <2>3
<1>7. CASE action = "disable"
  <2>1. r.kept /\ ~Drifted(r, d, current) /\ current.on
    BY <1>7, WritesWhen, Shapes
  <2>2. current.present /\ current.text \in Texts
    BY <2>1, Shapes, Absences
  <2>3. PostDefinition(r, d, current, action) \in Definition
    BY <1>2, <1>7, <2>2, Absences DEF PostDefinition
  <2>4. PostRecord(r, d, current, action) \in Record
    BY <1>2, <1>7, <2>1, <2>2, Keeps, Shapes DEF PostRecord
  <2> QED BY <2>3, <2>4
<1> QED BY <1>3, <1>4, <1>5, <1>6, <1>7 DEF Actions

(* After an action that wrote, the record and the definition agree.        *)
LEMMA PostAgrees ==
    ASSUME NEW r \in Record, NEW current \in Definition, NEW d \in Descriptor,
           NEW action \in Actions, Writes(r, d, current, action)
    PROVE  LET post == PostRecord(r, d, current, action) IN
           /\ post.kept <=> action # "remove"
           /\ post.kept => ~Drifted(post, d, PostDefinition(r, d, current, action))
           /\ ~post.kept => ~PostDefinition(r, d, current, action).present
<1>1. d.text \in Texts /\ d.name \in Names /\ "none" \notin Texts
  BY NoName DEF Descriptor
<1>2. Strategy \in {"native", "detached"} /\ "native" # "detached"
  BY PlannerAssumption
<1>3. CASE action = "install"
  <2>1. r.kept => ~Drifted(r, d, current)
    BY WritesWhen
  <2>2. PostRecord(r, d, current, action) =
          [kept |-> TRUE, name |-> d.name, text |-> d.text,
           suspended |-> IF r.kept /\ Strategy = "detached" /\ ~current.present
                         THEN d.text ELSE "none"]
    BY <1>3 DEF PostRecord
  <2>3. CASE ~r.kept \/ current.on
    <3>1. PostDefinition(r, d, current, action) = Present(d.text, TRUE)
      BY <1>3, <2>3 DEF PostDefinition
    <3>2. ~(r.kept /\ ~current.present)
      BY <2>3, Shapes, Absences
    <3> QED BY <1>1, <1>2, <1>3, <2>2, <3>1, <3>2, Absences DEF Drifted, Present, Absent
  <2>4. CASE r.kept /\ ~current.on /\ Strategy = "native"
    <3>1. PostDefinition(r, d, current, action) = Present(d.text, FALSE)
      BY <1>3, <2>4 DEF PostDefinition
    <3> QED BY <1>1, <1>2, <1>3, <2>2, <2>4, <3>1, Absences DEF Drifted, Present, Absent
  <2>5. CASE r.kept /\ ~current.on /\ Strategy = "detached"
    <3>1. PostDefinition(r, d, current, action) = current /\ ~current.present
      BY <1>2, <1>3, <2>5, Shapes DEF PostDefinition
    <3> QED BY <1>1, <1>2, <1>3, <2>2, <2>5, <3>1 DEF Drifted, Present, Absent
  <2> QED BY <1>2, <2>3, <2>4, <2>5, Shapes
<1>4. CASE action = "adopt"
  <2>1. ~r.kept /\ current.present /\ current.text = d.text
    BY <1>4, WritesWhen, Shapes
  <2>2. /\ PostDefinition(r, d, current, action) = current
        /\ PostRecord(r, d, current, action) =
             [kept |-> TRUE, name |-> d.name, text |-> d.text, suspended |-> "none"]
    BY <1>4, <2>1 DEF PostDefinition, PostRecord
  <2> QED BY <1>1, <1>2, <1>4, <2>1, <2>2 DEF Drifted
<1>5. CASE action = "remove"
  BY <1>5, Absences DEF PostDefinition, PostRecord
<1>6. CASE action = "enable"
  <2>1. r.kept /\ ~Drifted(r, d, current) /\ ~current.on
    BY <1>6, WritesWhen, Shapes
  <2>2. /\ r.name = d.name /\ r.text \in Texts
        /\ PostRecord(r, d, current, action) =
             [kept |-> TRUE, name |-> r.name, text |-> r.text, suspended |-> "none"]
    BY <1>6, <2>1, Undrifted, Shapes DEF PostRecord
  <2>3. CASE Strategy = "native"
    <3>1. current.present /\ current.text = r.text
      BY <1>2, <2>1, <2>3, Undrifted, Shapes
    <3>2. PostDefinition(r, d, current, action) = Present(r.text, TRUE)
      BY <1>6, <2>3, <3>1 DEF PostDefinition
    <3> QED BY <1>1, <1>2, <1>6, <2>2, <2>3, <3>2, Absences DEF Drifted, Present, Absent
  <2>4. CASE Strategy = "detached"
    <3>1. r.suspended = r.text
      BY <2>1, <2>4, Undrifted, Shapes
    <3>2. PostDefinition(r, d, current, action) = Present(r.text, TRUE)
      BY <1>2, <1>6, <2>4, <3>1 DEF PostDefinition
    <3> QED BY <1>1, <1>2, <1>6, <2>2, <2>4, <3>2, Absences DEF Drifted, Present, Absent
  <2> QED BY <1>2, <2>3, <2>4
<1>7. CASE action = "disable"
  <2>1. r.kept /\ ~Drifted(r, d, current) /\ current.on
    BY <1>7, WritesWhen, Shapes
  <2>2. current.present /\ current.text = r.text /\ r.text \in Texts /\ r.name = d.name
    BY <2>1, Undrifted, Shapes, Absences
  <2>3. PostRecord(r, d, current, action) =
          [kept |-> TRUE, name |-> r.name, text |-> r.text,
           suspended |-> IF Strategy = "detached" THEN r.text ELSE "none"]
    BY <1>2, <1>7, <2>2 DEF PostRecord
  <2>4. CASE Strategy = "native"
    <3>1. PostDefinition(r, d, current, action) = Present(r.text, FALSE)
      BY <1>7, <2>2, <2>4 DEF PostDefinition
    <3> QED BY <1>1, <1>2, <1>7, <2>2, <2>3, <2>4, <3>1, Absences DEF Drifted, Present, Absent
  <2>5. CASE Strategy = "detached"
    <3>1. PostDefinition(r, d, current, action) = Absent
      BY <1>2, <1>7, <2>5 DEF PostDefinition
    <3> QED BY <1>1, <1>2, <1>7, <2>2, <2>3, <2>5, <3>1, Absences DEF Drifted, Present, Absent
  <2> QED BY <1>2, <2>4, <2>5
<1> QED BY <1>3, <1>4, <1>5, <1>6, <1>7 DEF Actions

-----------------------------------------------------------------------------
(* ManagedInstallation.                                                    *)

LEMMA Reads ==
    ASSUME TypeOK, NEW d \in Descriptors
    PROVE  d \in Descriptor /\ d.name \in Names /\ config[d.name] \in Definition
           /\ record \in Record
BY LifeAssumption DEF TypeOK, Descriptor

LEMMA Performed ==
    ASSUME TypeOK, NEW action \in Actions, NEW d \in Descriptors, Perform(action, d)
    PROVE  /\ Writes(record, d, config[d.name], action)
           /\ record' = PostRecord(record, d, config[d.name], action)
           /\ config'[d.name] = PostDefinition(record, d, config[d.name], action)
           /\ \A n \in Names : n # d.name => config'[n] = config[n]
           /\ record' \in Record /\ config'[d.name] \in Definition
           /\ config' \in [Names -> Definition]
BY Reads, PostTyped DEF Perform, TypeOK

LEMMA TypeStep == TypeOK /\ [Next]_vars => TypeOK'
<1> SUFFICES ASSUME TypeOK, [Next]_vars PROVE TypeOK'
  OBVIOUS
<1>1. ASSUME NEW action \in Actions, NEW d \in Descriptors, Perform(action, d)
      PROVE  TypeOK'
  BY <1>1, Performed DEF TypeOK
<1>2. ASSUME NEW n \in Names, NEW definition \in Definition,
             ClientEdits(n, definition)
      PROVE  TypeOK'
  BY <1>2 DEF ClientEdits, TypeOK
<1>3. CASE UNCHANGED vars
  BY <1>3 DEF vars, TypeOK
<1> QED BY <1>1, <1>2, <1>3 DEF Next

(* Every state of an entry is a record and definitions of its client.      *)
THEOREM LifeTypeCorrect == Spec => []TypeOK
<1>1. Init => TypeOK
  BY Absences DEF Init, TypeOK
<1> QED BY <1>1, TypeStep, PTL DEF Spec

(* AE-INSTALL-03: the installer replaces or deletes only what it manages   *)
(* and finds as it left it.                                                *)
THEOREM OnlyOwnedIsTouched == Spec => TouchesOnlyOwned
<1>1. TypeOK /\ [Next]_vars => [OwnedStep]_vars
  <2> SUFFICES ASSUME TypeOK, NEW action \in Actions, NEW d \in Descriptors,
                      Perform(action, d), NEW n \in Names, config'[n] # config[n],
                      config[n].present
               PROVE  record.kept /\ n = record.name /\ config[n].text = record.text
    BY DEF OwnedStep
  <2>1. n = d.name
    BY Performed
  <2>2. record.kept
    <3> SUFFICES ASSUME ~record.kept PROVE FALSE
      OBVIOUS
    <3>1. action = "adopt"
      BY <2>1, Performed, Reads, WritesWhen
    <3> QED BY <2>1, <3>1, Performed DEF PostDefinition
  <2>3. ~Drifted(record, d, config[d.name])
    BY <2>2, Performed, Reads, WritesWhen
  <2> QED BY <2>1, <2>2, <2>3, Reads, Undrifted
<1> QED BY <1>1, LifeTypeCorrect, PTL DEF Spec, TouchesOnlyOwned

LEMMA SettledAfter ==
    ASSUME TypeOK, NEW action \in Actions, NEW d \in Descriptors, Perform(action, d)
    PROVE  /\ record'.kept <=> action # "remove"
           /\ record'.kept =>
                 /\ ~Drifted(record', d, config'[d.name])
                 /\ Status(record', d, config'[d.name]) =
                       IF record'.text # d.text THEN "outdated"
                       ELSE IF config'[d.name].on THEN "enabled" ELSE "disabled"
           /\ ~record'.kept => Status(record', d, config'[d.name]) = "available"
<1>1. /\ record'.kept <=> action # "remove"
      /\ record'.kept => ~Drifted(record', d, config'[d.name])
      /\ ~record'.kept => ~config'[d.name].present
  BY Performed, Reads, PostAgrees
<1> QED BY <1>1, Performed, Reads, Statuses

(* No step of the installer makes its own work look drifted.               *)
THEOREM NeverSelfInflicted == Spec => NoSelfInflictedDrift
<1>1. TypeOK /\ [Next]_vars =>
        [\A action \in Actions, d \in Descriptors : Perform(action, d) => Settled(d)']_vars
  BY SettledAfter DEF Settled
<1> QED BY <1>1, LifeTypeCorrect, PTL DEF Spec, NoSelfInflictedDrift

(* An update leaves the server enabled or disabled as it was.              *)
THEOREM UpdateKeepsToggle == Spec => UpdatesKeepToggle
<1>1. TypeOK /\ [Next]_vars =>
        [\A d \in Descriptors :
            record.kept /\ Perform("install", d) =>
                config'[d.name].on = config[d.name].on]_vars
  <2> SUFFICES ASSUME TypeOK, NEW d \in Descriptors,
                      record.kept, Perform("install", d)
               PROVE  config'[d.name].on = config[d.name].on
    OBVIOUS
  <2>1. "install" \in Actions
    BY DEF Actions
  <2>2. config'[d.name] = PostDefinition(record, d, config[d.name], "install")
    BY <2>1, Performed
  <2>3. config[d.name].on \in BOOLEAN
    BY Reads, Shapes
  <2>4. CASE config[d.name].on
    <3>1. config'[d.name] = Present(d.text, TRUE)
      BY <2>2, <2>4 DEF PostDefinition
    <3> QED BY <2>3, <2>4, <3>1 DEF Present
  <2>5. CASE ~config[d.name].on /\ Strategy = "native"
    <3>1. config'[d.name] = Present(d.text, FALSE)
      BY <2>2, <2>5 DEF PostDefinition
    <3>2. Present(d.text, FALSE).on = FALSE
      BY DEF Present
    <3> QED BY <2>3, <2>5, <3>1, <3>2
  <2>6. CASE ~config[d.name].on /\ Strategy # "native"
    <3>1. config'[d.name] = config[d.name]
      BY <2>2, <2>6 DEF PostDefinition
    <3> QED BY <3>1
  <2> QED BY <2>4, <2>5, <2>6
<1> QED BY <1>1, LifeTypeCorrect, PTL DEF Spec, UpdatesKeepToggle

(* ADR 0013, "Re-running the command is idempotent".                       *)
THEOREM Idempotent == Spec => RepeatIsUnchanged
<1>1. TypeOK /\ [Next]_vars =>
        [\A action \in Actions \ {"remove"}, d \in Descriptors :
            Perform(action, d) => Unchanged(record', d, config'[d.name], action)]_vars
  <2> SUFFICES ASSUME TypeOK, NEW action \in Actions \ {"remove"},
                      NEW d \in Descriptors, Perform(action, d)
               PROVE  Unchanged(record', d, config'[d.name], action)
    OBVIOUS
  <2> DEFINE status == Status(record', d, config'[d.name])
  <2>1. /\ record'.kept
        /\ status = IF record'.text # d.text THEN "outdated"
                    ELSE IF config'[d.name].on THEN "enabled" ELSE "disabled"
    BY SettledAfter
  <2>2. ~Blocked(record', d, config'[d.name], action)
    BY <2>1 DEF Blocked
  <2>3. /\ record' = PostRecord(record, d, config[d.name], action)
        /\ config'[d.name] = PostDefinition(record, d, config[d.name], action)
    BY Performed
  <2>4. CASE action = "install"
    <3>1. record'.text = d.text
      BY <2>3, <2>4 DEF PostRecord
    <3> QED BY <2>1, <2>2, <2>4, <3>1 DEF Unchanged
  <2>5. CASE action = "enable"
    <3>1. config'[d.name].on
      BY <2>3, <2>5, PlannerAssumption DEF PostDefinition, Present
    <3> QED BY <2>1, <2>2, <2>5, <3>1 DEF Unchanged
  <2>6. CASE action = "disable"
    <3>1. ~config'[d.name].on
      BY <2>3, <2>6, PlannerAssumption DEF PostDefinition, Present, Absent
    <3> QED BY <2>1, <2>2, <2>6, <3>1 DEF Unchanged
  <2>7. CASE action = "adopt"
    BY <2>1, <2>2, <2>7 DEF Unchanged
  <2> QED BY <2>4, <2>5, <2>6, <2>7 DEF Actions
<1> QED BY <1>1, LifeTypeCorrect, PTL DEF Spec, RepeatIsUnchanged

(* Disabling and enabling again restores the definition and the record.    *)
THEOREM DisableThenEnable == Spec => []TogglesAreInverse
<1>1. TypeOK => TogglesAreInverse
  <2> SUFFICES ASSUME TypeOK, NEW d \in Descriptors,
                      Writes(record, d, config[d.name], "disable")
               PROVE  LET off == PostDefinition(record, d, config[d.name], "disable")
                          kept == PostRecord(record, d, config[d.name], "disable")
                      IN  /\ Writes(kept, d, off, "enable")
                          /\ PostDefinition(kept, d, off, "enable") = config[d.name]
                          /\ PostRecord(kept, d, off, "enable") = record
    BY DEF TogglesAreInverse
  <2> DEFINE current == config[d.name]
             off == PostDefinition(record, d, current, "disable")
             kept == PostRecord(record, d, current, "disable")
  <2> HIDE DEF current, off, kept
  <2>0. current = config[d.name] /\ "disable" \in Actions /\ current \in Definition
        /\ record \in Record /\ d \in Descriptor
    BY Reads DEF current, Actions
  <2>1. /\ record.kept /\ ~Drifted(record, d, current) /\ current.on
    BY <2>0, WritesWhen, Shapes
  <2>2. /\ current.present /\ current.text = record.text /\ record.suspended = "none"
        /\ current = Present(record.text, TRUE)
        /\ record = Kept(record.name, record.text, "none")
    BY <2>0, <2>1, Undrifted, Shapes, Absences
  <2>3. /\ kept = Kept(record.name, record.text,
                        IF Strategy = "detached" THEN record.text ELSE "none")
        /\ off = IF Strategy = "native" THEN Present(record.text, FALSE) ELSE Absent
    BY <2>0, <2>2 DEF kept, off, PostRecord, PostDefinition
  <2>4. off \in Definition /\ kept \in Record /\ ~off.on
        /\ kept.kept /\ ~Drifted(kept, d, off)
    <3>1. off \in Definition /\ kept \in Record
      BY <2>0, PostTyped DEF off, kept
    <3>2. kept.kept /\ ~Drifted(kept, d, off)
      BY <2>0, PostAgrees DEF off, kept
    <3>3. ~off.on
      BY <2>3 DEF Present, Absent
    <3> QED BY <3>1, <3>2, <3>3
  <2>5. Writes(kept, d, off, "enable")
    <3>1. Status(kept, d, off) \in {"outdated", "enabled", "disabled"}
      BY <2>0, <2>4, Statuses
    <3> QED BY <2>4, <3>1 DEF Writes, Blocked, Unchanged
  <2>6. PostDefinition(kept, d, off, "enable") = current
    <3>1. CASE Strategy = "native"
      BY <2>2, <2>3, <3>1 DEF PostDefinition, Present
    <3>2. CASE Strategy = "detached"
      BY <2>2, <2>3, <3>2 DEF PostDefinition
    <3> QED BY <3>1, <3>2, PlannerAssumption
  <2>7. PostRecord(kept, d, off, "enable") = record
    BY <2>2, <2>3 DEF PostRecord
  <2> QED BY <2>0, <2>5, <2>6, <2>7 DEF off, kept
<1> QED BY <1>1, LifeTypeCorrect, PTL
=============================================================================
