-------------------------- MODULE InstallerTransaction ---------------------------
(***************************************************************************)
(* packages/installer/src/mutation-coordinator.ts, mutateTarget: what an   *)
(* installer process does between its two locks.  It reads the state and   *)
(* the client's configuration, asks the planner, replaces the              *)
(* configuration, then replaces the state, and restores the configuration  *)
(* when the state cannot be written.  Each file is replaced by a rename.   *)
(*                                                                         *)
(* The client and its user edit the configuration without any lock, in     *)
(* place or by a rename of their own; only the latter changes the identity *)
(* that path-identity.ts compares (device, inode, owner, mode).            *)
(***************************************************************************)
EXTENDS InstallerLock, OwnershipPlanner

CONSTANTS
    TargetOf,     \* the client a configuration path belongs to
    Jobs,         \* what a process may be asked to do
    InitialFiles, \* the configurations the installer may find
    MaxEdits,     \* bound on the edits of clients and users
    observedEntry,   \* the entry, the state file and the configuration that
    observedState,   \* are compared with ManagedInstallation below
    observedConfig

ASSUME ObservedAssumption ==
    observedEntry \in Entries /\ observedState \in States /\ observedConfig \in Configs

(* The name of the manifest, for `remove --engine`; "none" otherwise.      *)
Job ==
    [action : Actions \ {"adopt"}, d : Descriptor, manifest : Names \cup {"none"}]

(* The codes mutateTarget throws with, between its two locks.              *)
TransactionErrors ==
    {"ENGINE_IDENTITY_MISMATCH", "READ_FAILED", "CONFIG_CHANGED", "REFUSED",
     "STATE_INVALID", "CONFIG_WRITE_FAILED", "STATE_WRITE_FAILED",
     "CONFIG_ROLLBACK_FAILED"}

ASSUME TransactionAssumption ==
    /\ TransactionErrors \subseteq Errors
    /\ Jobs \subseteq Job
    /\ \A j \in Jobs : j.manifest # "none" => j.action = "remove"
    /\ Jobs # {}
    /\ MaxEdits \in Nat

VARIABLES
    file,      \* file[c]: a configuration file, and the servers it defines
    records,   \* records[s]: the installations recorded in a state file
    tx,        \* tx[p]: the local variables of p's mutateTarget
    committed, \* committed[p]: p's mutateTarget has an outcome to return
    edits,     \* how many edits there have been
    disturbed  \* the definitions that may disagree with a record (see below)

txVars == <<file, records, tx, committed, edits, disturbed>>
vars == <<lockVars, txVars>>

Keys == Entries \X Configs

File == [exists : BOOLEAN, servers : [Names -> Definition]]

NoServers == [n \in Names |-> Absent]
NoFile == [exists |-> FALSE, servers |-> NoServers]
NoRecords == [k \in Keys |-> NoRecord]

ASSUME InitialAssumption == InitialFiles \subseteq {f \in File : f.exists \/ f = NoFile}

Steps ==
    {"load", "read", "check", "rename", "commit", "undo", "recheck", "restore"}

(* Outside the locks there is nothing to remember.                         *)
Outside ==
    [step |-> "load", job |-> CHOOSE j \in Jobs : TRUE, records |-> NoRecords,
     source |-> NoFile, fresh |-> TRUE]

Tx == [step : Steps, job : Jobs, records : [Keys -> Record], source : File,
       fresh : BOOLEAN]

TxTypeOK ==
    /\ LockTypeOK
    /\ file \in [Configs -> File]
    /\ records \in [States -> [Keys -> Record]]
    /\ tx \in [Processes -> Tx]
    /\ committed \in [Processes -> BOOLEAN]
    /\ edits \in 0..MaxEdits
    /\ disturbed \subseteq Configs \X Names

Init ==
    /\ LockInit
    /\ file \in [Configs -> InitialFiles]
    /\ records = [s \in States |-> NoRecords]
    /\ tx = [p \in Processes |-> Outside]
    /\ committed = [p \in Processes |-> FALSE]
    /\ edits = 0
    /\ disturbed = {}

-----------------------------------------------------------------------------
Desc(p) == tx[p].job.d
Key(p)  == <<tx[p].job.d.entry, target[p]>>
Place(p) == <<target[p], tx[p].job.d.name>>
At(p, step) == stage[p] = "locked" /\ tx[p].step = step

(* From a source p has read: the record and the definition it finds, what  *)
(* it will put in the place of the definition ...                          *)
OldRecord(p) == tx[p].records[Key(p)]
Found(p, source) == source.servers[Desc(p).name]
Planned(p, source) ==
    PostDefinition(OldRecord(p), Desc(p), Found(p, source), tx[p].job.action)

(* Mutant of Recorded: the other installations are not carried over.       *)
RecordedAlone(p, source) ==
    [NoRecords EXCEPT ![Key(p)] =
        PostRecord(OldRecord(p), Desc(p), Found(p, source), tx[p].job.action)]

(* ... and what it will put in the place of the recorded installations.    *)
Recorded(p, source) ==
    [tx[p].records EXCEPT ![Key(p)] =
        PostRecord(OldRecord(p), Desc(p), Found(p, source), tx[p].job.action)]

RewritesConfig(p, source) == Planned(p, source) # Found(p, source)

(* One entry is recorded once per client: DUPLICATE_INSTALLATION.          *)
Duplicated(recs) ==
    \E e \in Entries, c1, c2 \in Configs :
        /\ c1 # c2 /\ TargetOf[c1] = TargetOf[c2]
        /\ recs[<<e, c1>>].kept /\ recs[<<e, c2>>].kept

(* ADR 0017: another identity is recorded under the manifest's name.       *)
Mismatched(j, recs) ==
    \E k \in Keys : recs[k].kept /\ k[1] # j.d.entry /\ recs[k].name = j.manifest

(* mutateTarget returns or throws, and the locks are released.             *)
Finish(p, code) ==
    /\ Leave(p, code)
    /\ tx' = [tx EXCEPT ![p] = Outside]

Fail(p, code) ==
    /\ Finish(p, code)
    /\ UNCHANGED <<file, records, committed, edits, disturbed>>

(* What changes along the way.                                             *)
Advance(t, step, source, fresh) ==
    [step |-> step, job |-> t.job, records |-> t.records, source |-> source,
     fresh |-> fresh]

Goto(p, step) ==
    /\ tx' = [tx EXCEPT ![p] = Advance(@, step, @.source, @.fresh)]
    /\ UNCHANGED <<lockVars, file, records, committed, edits, disturbed>>

(* tx when configuration c is another file: the identities the processes   *)
(* captured, but for those in unaffected, no longer match.                 *)
Moved(c, unaffected) ==
    [q \in Processes |->
        IF q \notin unaffected /\ target[q] = c /\ tx[q].step # "load"
        THEN Advance(tx[q], tx[q].step, tx[q].source, FALSE) ELSE tx[q]]

-----------------------------------------------------------------------------
Begin(p, c) ==
    /\ Acquire(p, c)
    /\ committed' = [committed EXCEPT ![p] = FALSE]
    /\ UNCHANGED <<file, records, tx, edits, disturbed>>

(* loadInstallerState, and the identities of the two files.  What p is to  *)
(* do was said before it took the locks and matters from here on.          *)
Load(p, j) ==
    /\ At(p, "load")
    /\ \/ /\ Mismatched(j, records[StateOf[p]])
          /\ Fail(p, "ENGINE_IDENTITY_MISMATCH")
       \/ /\ ~Mismatched(j, records[StateOf[p]])
          /\ tx' = [tx EXCEPT ![p] =
                      [step |-> "read", job |-> j, records |-> records[StateOf[p]],
                       source |-> [exists |-> file[target[p]].exists, servers |-> NoServers],
                       fresh |-> TRUE]]
          /\ UNCHANGED <<lockVars, file, records, committed, edits, disturbed>>

(* readCapturedFile: a file that was missing is not opened.                *)
Changed(p) == tx[p].source.exists /\ ~tx[p].fresh

Source(p) == IF tx[p].source.exists THEN file[target[p]] ELSE tx[p].source

(* `remove --engine` of what is not there is not an error.                 *)
AlreadyAbsent(p, source) ==
    /\ tx[p].job.action = "remove" /\ tx[p].job.manifest # "none"
    /\ ~OldRecord(p).kept /\ ~Found(p, source).present

(* The planner decides in the turn the file was read in.                   *)
Plan(p, source) ==
    LET Asks(Op(_, _, _, _)) ==
            Op(OldRecord(p), Desc(p), Found(p, source), tx[p].job.action)
    IN  \/ /\ Asks(Unchanged) \/ AlreadyAbsent(p, source)
           /\ Fail(p, "none")
        \/ /\ Asks(Blocked) /\ ~AlreadyAbsent(p, source)
           /\ Fail(p, "REFUSED")
        \/ /\ Asks(Writes) /\ Duplicated(Recorded(p, source))
           /\ Fail(p, "STATE_INVALID")
        \/ /\ Asks(Writes) /\ ~Duplicated(Recorded(p, source))
           /\ tx' = [tx EXCEPT ![p] =
                       Advance(@, IF RewritesConfig(p, source) THEN "check" ELSE "commit",
                               source, @.fresh)]
           /\ UNCHANGED <<lockVars, file, records, committed, edits, disturbed>>

Read(p) ==
    /\ At(p, "read")
    /\ \/ Changed(p) /\ Fail(p, "CONFIG_CHANGED")
       \/ ~Changed(p) /\ Plan(p, Source(p))

(* Any file operation so far may fail; nothing has been written.           *)
ReadFails(p) ==
    /\ At(p, "load") \/ At(p, "read")
    /\ Fail(p, "READ_FAILED")

(* atomicReplace: the temporary file is written, then the identity is      *)
(* compared, then the file is renamed.                                     *)
Check(p) ==
    /\ At(p, "check")
    /\ tx[p].fresh
    /\ Goto(p, "rename")

WriteFails(p) ==
    /\ At(p, "check") \/ At(p, "rename")
    /\ Fail(p, "CONFIG_WRITE_FAILED")

Rename(p) ==
    /\ At(p, "rename")
    /\ file' = [file EXCEPT ![target[p]] =
                  [exists  |-> TRUE,
                   servers |-> [tx[p].source.servers EXCEPT
                                  ![Desc(p).name] = Planned(p, tx[p].source)]]]
    /\ tx' = [Moved(target[p], {p}) EXCEPT ![p] =
                Advance(tx[p], "commit", tx[p].source, tx[p].fresh)]
    /\ UNCHANGED <<lockVars, records, committed, edits, disturbed>>

(* The state file is replaced: the transaction is committed.               *)
Commit(p) ==
    /\ At(p, "commit")
    /\ records' = [records EXCEPT ![StateOf[p]] = Recorded(p, tx[p].source)]
    /\ Finish(p, "none")
    /\ committed' = [committed EXCEPT ![p] = TRUE]
    /\ UNCHANGED <<file, edits, disturbed>>

(* Mutant of CommitFails: no rollback.                                     *)
CommitFailsKeeping(p) ==
    /\ At(p, "commit")
    /\ Fail(p, "STATE_WRITE_FAILED")

CommitFails(p) ==
    /\ At(p, "commit")
    /\ \/ RewritesConfig(p, tx[p].source) /\ Goto(p, "undo")
       \/ ~RewritesConfig(p, tx[p].source) /\ Fail(p, "STATE_WRITE_FAILED")

(* rollbackConfig: the identity is captured again; a file that was missing *)
(* is unlinked, another one is replaced by its pre-image.                  *)
Undo(p) ==
    /\ At(p, "undo")
    /\ tx' = [tx EXCEPT ![p] =
                Advance(@, IF @.source.exists THEN "recheck" ELSE "restore",
                        @.source, TRUE)]
    /\ UNCHANGED <<lockVars, file, records, committed, edits, disturbed>>

Recheck(p) ==
    /\ At(p, "recheck")
    /\ tx[p].fresh
    /\ Goto(p, "restore")

(* Mutant of Restore: the file is unlinked, whatever it was.               *)
RestoreMissing(p) ==
    /\ At(p, "restore")
    /\ file' = [file EXCEPT ![target[p]] = NoFile]
    /\ Leave(p, "STATE_WRITE_FAILED")
    /\ tx' = [Moved(target[p], {p}) EXCEPT ![p] = Outside]
    /\ UNCHANGED <<records, committed, edits, disturbed>>

Restore(p) ==
    /\ At(p, "restore")
    /\ file' = [file EXCEPT ![target[p]] = tx[p].source]
    /\ Leave(p, "STATE_WRITE_FAILED")
    /\ tx' = [Moved(target[p], {p}) EXCEPT ![p] = Outside]
    /\ UNCHANGED <<records, committed, edits, disturbed>>

UndoFails(p) ==
    /\ At(p, "undo") \/ At(p, "recheck") \/ At(p, "restore")
    /\ Finish(p, "CONFIG_ROLLBACK_FAILED")
    /\ disturbed' = disturbed \cup {Place(p)}
    /\ UNCHANGED <<file, records, committed, edits>>

-----------------------------------------------------------------------------
(* The configuration is written and the state is not.                      *)
Between(p) ==
    \/ At(p, "commit") /\ RewritesConfig(p, tx[p].source)
    \/ At(p, "undo") \/ At(p, "recheck") \/ At(p, "restore")

InHand(p, c, n) == Between(p) /\ Place(p) = <<c, n>>

Dies(p) ==
    /\ Crash(p)
    /\ tx' = [tx EXCEPT ![p] = Outside]
    /\ disturbed' = disturbed \cup (IF Between(p) THEN {Place(p)} ELSE {})
    /\ UNCHANGED <<file, records, committed, edits>>

(* The client or its user writes the configuration.                        *)
Edit(c, n, definition, inPlace) ==
    /\ edits < MaxEdits
    /\ inPlace => file[c].exists
    /\ file' = [file EXCEPT ![c] =
                  [exists |-> TRUE, servers |-> [@.servers EXCEPT ![n] = definition]]]
    /\ tx' = IF inPlace THEN tx ELSE Moved(c, {})
    /\ edits' = edits + 1
    /\ disturbed' = disturbed \cup {<<c, n>>}
    /\ UNCHANGED <<lockVars, records, committed>>

TransactionStep(p) ==
    \/ \E j \in Jobs : Load(p, j)
    \/ Read(p) \/ ReadFails(p) \/ Check(p) \/ WriteFails(p)
    \/ Rename(p) \/ Commit(p) \/ CommitFails(p)
    \/ Undo(p) \/ Recheck(p) \/ Restore(p) \/ UndoFails(p)

Next ==
    \/ \E p \in Processes :
          \/ \E c \in Configs : Begin(p, c)
          \/ (LockStep(p) \/ Cancel(p)) /\ UNCHANGED txVars
          \/ TransactionStep(p)
          \/ Dies(p)
    \/ \E l \in Locks : OperatorClears(l) /\ UNCHANGED txVars
    \/ \E c \in Configs, n \in Names, definition \in Definition, b \in BOOLEAN :
          Edit(c, n, definition, b)

Spec == Init /\ [][Next]_vars

-----------------------------------------------------------------------------
Inside(p) == stage[p] = "locked" /\ tx[p].step # "load"

(* No update of the state is lost: from the moment a process has read the  *)
(* state until it replaces it, the file is as it was read, whatever the    *)
(* other processes do with it and however they die.                        *)
StateIsCurrent ==
    \A p \in Processes : Inside(p) => records[StateOf[p]] = tx[p].records

(* The same of the configuration, between processes that share it although *)
(* their state files differ: only a client can change it underneath.       *)
ConfigIsCurrent ==
    edits = 0 =>
        \A p \in Processes :
            At(p, "check") \/ At(p, "rename") => file[target[p]] = tx[p].source

(* ADR 0013, steps 3 to 5: an installation whose record and definition     *)
(* disagree has been disturbed, by an edit, by a crash between the two     *)
(* renames or by a rollback that failed; by nothing else.                  *)
Agrees(s, c, e) ==
    LET r == records[s][<<e, c>>] IN
    r.kept => ~Drifted(r, [name |-> r.name], file[c].servers[r.name])

FilesAgree ==
    \A s \in States, c \in Configs, e \in Entries :
        \/ Agrees(s, c, e)
        \/ <<c, records[s][<<e, c>>].name>> \in disturbed
        \/ \E p \in Processes : target[p] = c /\ Between(p)

(* "restores the exact configuration pre-image if the state commit fails": *)
(* unless the rollback itself fails, a process that reports an error of    *)
(* its transaction leaves both files as it read them.                      *)
FailureUndoes ==
    [][\A p \in Processes :
          /\ Inside(p) /\ stage'[p] = "unlockConfig" /\ edits = 0
          /\ failure'[p] \notin {"none", "CONFIG_ROLLBACK_FAILED"}
          => /\ records'[StateOf[p]] = tx[p].records
             /\ tx[p].step # "read" => file'[target[p]] = tx[p].source]_vars

(* One entry in one pair of files, as ManagedInstallation sees it: while a *)
(* process is between the two renames, its transaction has not begun.      *)
Shown ==
    [n \in Names |->
        IF \E p \in Processes : InHand(p, observedConfig, n)
        THEN tx[CHOOSE p \in Processes : InHand(p, observedConfig, n)].source.servers[n]
        ELSE file[observedConfig].servers[n]]

Life == INSTANCE ManagedInstallation
    WITH config <- Shown, record <- records[observedState][<<observedEntry, observedConfig>>],
         entry <- observedEntry,
         Descriptors <- {j.d : j \in {k \in Jobs : k.d.entry = observedEntry}}

(* As long as no client writes, each transaction of the entry is one step  *)
(* of ManagedInstallation at the rename of the state file, and a crash or  *)
(* a failed rollback between the renames is an edit that nobody recorded.  *)
AtomicTransactions == Life!Spec
=============================================================================
