------------------------ MODULE InstallerTransactionProofs ------------------------
(***************************************************************************)
(* Proofs for every number of processes, state files, configurations,      *)
(* entries and definitions and every length of the waits.                  *)
(*                                                                         *)
(* InstallerLock: that a process has exactly the lock files its stage will *)
(* release is inductive with the types; mutual exclusion follows, since a  *)
(* lock has one owner.  InstallerTransaction: the transactions keep to the *)
(* protocol of InstallerLock, so mutual exclusion carries over; and under  *)
(* it, what a process has read of the two files is what they hold.  What   *)
(* the others see while it works is what it read, which gives agreement of *)
(* the files and the refinement of ManagedInstallation.                    *)
(***************************************************************************)
EXTENDS InstallerTransaction, TLAPS

-----------------------------------------------------------------------------
(* What ManagedInstallationProofs shows of the planner, whose definitions  *)
(* are those of InstallerTransaction.                                      *)

Planner == INSTANCE ManagedInstallationProofs
    WITH config <- Shown, record <- records[observedState][<<observedEntry, observedConfig>>],
         entry <- observedEntry,
         Descriptors <- {j.d : j \in {k \in Jobs : k.d.entry = observedEntry}}

(* No definition of the planner depends on what the instance gives.        *)
LEMMA SamePlanner ==
    /\ Planner!Definition = Definition /\ Planner!Record = Record
    /\ Planner!Descriptor = Descriptor /\ Planner!Actions = Actions
    /\ Planner!NoRecord = NoRecord /\ Planner!Absent = Absent
    /\ \A text, on : Planner!Present(text, on) = Present(text, on)
    /\ \A r, d, current :
          Planner!Drifted(r, d, current) <=> Drifted(r, d, current)
    /\ \A r, d, current, action :
          /\ Planner!Writes(r, d, current, action) <=> Writes(r, d, current, action)
          /\ Planner!PostDefinition(r, d, current, action) =
                PostDefinition(r, d, current, action)
          /\ Planner!PostRecord(r, d, current, action) = PostRecord(r, d, current, action)
<1>1. /\ Planner!Absent = Absent /\ Planner!NoRecord = NoRecord
      /\ Planner!Descriptor = Descriptor /\ Planner!Actions = Actions
      /\ \A text, on : Planner!Present(text, on) = Present(text, on)
  BY DEF Planner!Absent, Absent, Planner!NoRecord, NoRecord, Planner!Descriptor,
         Descriptor, Planner!Actions, Actions, Planner!Present, Present
<1>2. Planner!Definition = Definition
  BY DEF Planner!Definition, Definition, Planner!Absent, Absent, Planner!Present, Present
<1>3. Planner!Record = Record
  BY <1>1 DEF Planner!Record, Record, Planner!Managed, Managed
<1>4. ASSUME NEW r, NEW d, NEW current
      PROVE  Planner!Drifted(r, d, current) <=> Drifted(r, d, current)
  BY DEF Planner!Drifted, Drifted
<1>5. ASSUME NEW r, NEW d, NEW current
      PROVE  Planner!Status(r, d, current) = Status(r, d, current)
  BY <1>4 DEF Planner!Status, Status
<1>6. ASSUME NEW r, NEW d, NEW current, NEW action
      PROVE  Planner!Writes(r, d, current, action) <=> Writes(r, d, current, action)
  BY <1>5 DEF Planner!Writes, Writes, Planner!Blocked, Blocked, Planner!Unchanged, Unchanged
<1>7. ASSUME NEW r, NEW d, NEW current, NEW action
      PROVE  Planner!PostDefinition(r, d, current, action) =
                PostDefinition(r, d, current, action)
  BY DEF Planner!PostDefinition, PostDefinition, Planner!Present, Present,
         Planner!Absent, Absent
<1>8. ASSUME NEW r, NEW d, NEW current, NEW action
      PROVE  Planner!PostRecord(r, d, current, action) = PostRecord(r, d, current, action)
  BY DEF Planner!PostRecord, PostRecord, Planner!Kept, Kept, Planner!NoRecord, NoRecord
<1> QED BY <1>1, <1>2, <1>3, <1>4, <1>6, <1>7, <1>8

(* An entry of a job is an entry of the registry, so the instance is one   *)
(* that ManagedInstallation admits.                                        *)
LEMMA PlannerAssumed ==
    /\ Planner!PlannerAssumption
    /\ Planner!LifeAssumption
BY PlannerAssumption, ObservedAssumption, TransactionAssumption
   DEF Planner!PlannerAssumption, Planner!LifeAssumption, Job, Descriptor

LEMMA Shapes ==
    ASSUME NEW r \in Record
    PROVE  r.kept => r.name \in Names
BY SamePlanner, PlannerAssumed, Planner!Shapes, Planner!Absences

LEMMA Absences ==
    /\ Absent \in Definition /\ ~Absent.present
    /\ NoRecord \in Record /\ ~NoRecord.kept
BY SamePlanner, PlannerAssumed, Planner!Absences

LEMMA WritesWhen ==
    ASSUME NEW r \in Record, NEW current \in Definition, NEW d \in Descriptor,
           NEW action \in Actions, Writes(r, d, current, action)
    PROVE  /\ r.kept => ~Drifted(r, d, current)
           /\ ~r.kept => /\ action \in {"install", "adopt"}
                         /\ action = "install" => ~current.present
BY SamePlanner, PlannerAssumed, Planner!WritesWhen

LEMMA Undrifted ==
    ASSUME NEW r \in Record, NEW current \in Definition, NEW d \in Descriptor,
           r.kept, ~Drifted(r, d, current)
    PROVE  r.name = d.name
BY SamePlanner, PlannerAssumed, Planner!Undrifted

LEMMA PostTyped ==
    ASSUME NEW r \in Record, NEW current \in Definition, NEW d \in Descriptor,
           NEW action \in Actions, Writes(r, d, current, action)
    PROVE  /\ PostDefinition(r, d, current, action) \in Definition
           /\ PostRecord(r, d, current, action) \in Record
BY SamePlanner, PlannerAssumed, Planner!PostTyped

LEMMA PostAgrees ==
    ASSUME NEW r \in Record, NEW current \in Definition, NEW d \in Descriptor,
           NEW action \in Actions, Writes(r, d, current, action)
    PROVE  LET post == PostRecord(r, d, current, action) IN
           /\ post.kept <=> action # "remove"
           /\ post.kept => ~Drifted(post, d, PostDefinition(r, d, current, action))
           /\ ~post.kept => ~PostDefinition(r, d, current, action).present
BY SamePlanner, PlannerAssumed, Planner!PostAgrees

-----------------------------------------------------------------------------
(* InstallerLock.                                                          *)

Owns(p) ==
    /\ \A s \in States : lock[s] = p <=> s = StateOf[p] /\ HoldsState(p)
    /\ \A c \in Configs :
          lock[c] = p <=> c = target[p] /\ stage[p] \in Holding \cup {"configFill"}

LockInv == LockTypeOK /\ \A p \in Processes : Owns(p)

Nobody == {"free", "orphan"}

USE DEF Locks, Enter

LEMMA Wants ==
    ASSUME LockTypeOK, NEW p \in Processes
    PROVE  /\ StateOf[p] \in Locks /\ target[p] \in Locks /\ Wanted(p) \in Locks
           /\ StateOf[p] # target[p]
           /\ p \notin Nobody
BY LockAssumption DEF LockTypeOK, Wanted, Nobody

LEMMA LockInitially == LockInit => LockInv
<1> SUFFICES ASSUME LockInit PROVE LockInv
  OBVIOUS
<1>1. LockTypeOK
  BY LockAssumption DEF LockInit, LockTypeOK, Waiting
<1>2. ASSUME NEW p \in Processes PROVE Owns(p)
  BY LockAssumption DEF LockInit, Owns, HoldsState, Holding
<1> QED BY <1>1, <1>2 DEF LockInv

(* What p does to its own locks does not concern the others.               *)
LEMMA Mine ==
    ASSUME LockInv, LockTypeOK', NEW p \in Processes, Owns(p)',
           \A q \in Processes : q # p =>
              /\ stage'[q] = stage[q] /\ target'[q] = target[q]
              /\ \A l \in Locks : lock'[l] = q <=> lock[l] = q
    PROVE  LockInv'
<1>1. ASSUME NEW q \in Processes, q # p PROVE Owns(q)'
  BY <1>1 DEF LockInv, Owns, HoldsState
<1> QED BY <1>1 DEF LockInv

(* p moves on to a stage that holds the same locks.                        *)
LEMMA SameLocks ==
    ASSUME LockInv, LockTypeOK', NEW p \in Processes, UNCHANGED lock,
           \A q \in Processes : q # p =>
              stage'[q] = stage[q] /\ target'[q] = target[q],
           HoldsState(p)' <=> HoldsState(p),
           \/ target'[p] = target[p]
           \/ stage[p] \notin Holding \cup {"configFill"},
           stage'[p] \in Holding \cup {"configFill"} <=>
              stage[p] \in Holding \cup {"configFill"}
    PROVE  LockInv'
<1>1. Owns(p)'
  BY DEF LockInv, Owns
<1> QED BY <1>1, Mine

(* The lock l of p is given up, or a free one becomes p's.                 *)
LEMMA OneLock ==
    ASSUME LockInv, LockTypeOK', NEW p \in Processes, NEW l \in Locks,
           NEW value \in Nobody \cup {p},
           lock' = [lock EXCEPT ![l] = value],
           lock[l] \in Nobody \cup {p},
           \A q \in Processes : q # p => stage'[q] = stage[q],
           UNCHANGED target,
           Owns(p)'
    PROVE  LockInv'
<1>1. \A q \in Processes : q # p => \A m \in Locks : lock'[m] = q <=> lock[m] = q
  BY Wants DEF LockInv, LockTypeOK
<1> QED BY <1>1, Mine

-----------------------------------------------------------------------------
LEMMA StepAcquire ==
    ASSUME LockInv, NEW p \in Processes, NEW c \in Configs, Acquire(p, c) PROVE LockInv'
<1>1. LockTypeOK'
  BY LockAssumption DEF LockInv, Acquire, LockTypeOK, Waiting
<1> QED BY <1>1, SameLocks DEF LockInv, Acquire, LockTypeOK, HoldsState, Holding

LEMMA StepGivesUp ==
    ASSUME LockInv, NEW p \in Processes, NEW code \in LockErrors,
           GivesUp(p, code), stage[p] \in Waiting,
           UNCHANGED <<lock, target, left, delay, cancelled>>
    PROVE  LockInv'
<1>1. LockTypeOK'
  BY DEF LockInv, GivesUp, LockTypeOK, Waiting
<1> QED BY <1>1, SameLocks
        DEF LockInv, GivesUp, LockTypeOK, HoldsState, Holding, Waiting

LEMMA StepCancelled ==
    ASSUME LockInv, NEW p \in Processes, Cancelled(p) PROVE LockInv'
BY StepGivesUp DEF Cancelled, LockErrors

LEMMA StepCreate ==
    ASSUME LockInv, NEW p \in Processes, Create(p) PROVE LockInv'
<1>1. /\ LockTypeOK /\ stage[p] \in Waiting /\ lock[Wanted(p)] = "free"
      /\ lock' = [lock EXCEPT ![Wanted(p)] = p]
      /\ stage' = [stage EXCEPT ![p] =
                     IF stage[p] = "state" THEN "stateFill" ELSE "configFill"]
      /\ UNCHANGED <<target, left, delay, cancelled, failure>>
  BY DEF LockInv, Create, MayCreate, Exclusive
<1>2. LockTypeOK'
  BY <1>1, Wants DEF LockTypeOK, Waiting
<1>3. Owns(p)'
  <2>1. CASE stage[p] = "state"
    <3>1. /\ Wanted(p) = StateOf[p] /\ StateOf[p] \in States
          /\ StateOf[p] \notin Configs
      BY <2>1, LockAssumption DEF Wanted
    <3>2. /\ \A s \in States : lock[s] # p
          /\ \A c \in Configs : lock[c] # p
      BY <2>1 DEF LockInv, Owns, HoldsState, Holding
    <3>3. stage'[p] = "stateFill"
      BY <1>1, <2>1 DEF LockTypeOK
    <3> QED BY <1>1, <3>1, <3>2, <3>3 DEF Owns, HoldsState, Holding, LockTypeOK
  <2>2. CASE stage[p] = "config"
    BY <1>1, <2>2, Wants, LockAssumption
    DEF LockInv, Owns, HoldsState, Holding, LockTypeOK, Wanted
  <2> QED BY <1>1, <2>1, <2>2 DEF Waiting
<1> QED BY <1>1, <1>2, <1>3, OneLock, Wants DEF LockTypeOK, Nobody

LEMMA StepCreateFails ==
    ASSUME LockInv, NEW p \in Processes, CreateFails(p) PROVE LockInv'
BY StepGivesUp DEF CreateFails, MayCreate, LockErrors

LEMMA LeastBound ==
    ASSUME NEW m \in Nat, NEW n \in Nat
    PROVE  Least(m, n) \in Nat /\ Least(m, n) <= m /\ Least(m, n) <= n
BY DEF Least

LEMMA StepContended ==
    ASSUME LockInv, NEW p \in Processes, Contended(p) PROVE LockInv'
<1>1. /\ LockTypeOK /\ stage[p] \in Waiting
      /\ UNCHANGED <<lock, target, cancelled>>
  BY DEF LockInv, Contended, MayCreate
<1>2. CASE left[p] = 0
  <2>1. \E code \in LockErrors : GivesUp(p, code)
    BY <1>2 DEF Contended, LockErrors
  <2> QED BY <1>1, <1>2, <2>1, StepGivesUp DEF Contended
<1>3. CASE left[p] > 0
  <2>1. /\ \E r \in Remaining(p) : left' = [left EXCEPT ![p] = r]
        /\ delay' = [delay EXCEPT ![p] = Least(2 * delay[p], LongestWait)]
        /\ UNCHANGED <<stage, failure>>
    BY <1>1, <1>3 DEF Contended, LockTypeOK
  <2>2. left[p] \in 0..Budget /\ delay[p] \in 0..(FirstWait + LongestWait)
    BY <1>1 DEF LockTypeOK
  <2>3. Remaining(p) \subseteq 0..Budget
    BY <2>2, LeastBound, LockAssumption DEF Remaining, Least
  <2>4. Least(2 * delay[p], LongestWait) \in 0..(FirstWait + LongestWait)
    BY <2>2, LockAssumption DEF Least
  <2>5. LockTypeOK'
    BY <1>1, <2>1, <2>3, <2>4 DEF LockTypeOK
  <2> QED BY <1>1, <2>1, <2>5, SameLocks DEF HoldsState
<1> QED BY <1>1, <1>2, <1>3, LockAssumption DEF LockTypeOK

LEMMA StepFill ==
    ASSUME LockInv, NEW p \in Processes, Fill(p) PROVE LockInv'
<1>1. LockTypeOK'
  BY LockAssumption DEF LockInv, Fill, LockTypeOK, Waiting
<1> QED BY <1>1, SameLocks DEF LockInv, Fill, LockTypeOK, HoldsState, Holding

LEMMA StepFillFails ==
    ASSUME LockInv, NEW p \in Processes, FillFails(p) PROVE LockInv'
<1>1. PICK rest \in Nobody : lock' = [lock EXCEPT ![Wanted(p)] = rest]
  BY DEF FillFails, Nobody
<1>2. /\ LockTypeOK /\ stage[p] \in {"stateFill", "configFill"}
      /\ stage' = [stage EXCEPT ![p] =
                     IF stage[p] = "configFill" THEN "abandon" ELSE "idle"]
      /\ UNCHANGED <<target, left, delay, cancelled>>
  BY DEF LockInv, FillFails, GivesUp
<1>3. LockTypeOK'
  BY <1>1, <1>2, Wants DEF FillFails, GivesUp, LockTypeOK, Nobody, LockErrors
<1>4. CASE stage[p] = "stateFill"
  <2>1. Wanted(p) = StateOf[p] /\ lock[StateOf[p]] = p
    BY <1>4, LockAssumption DEF LockInv, Owns, HoldsState, Wanted
  <2>2. Owns(p)'
    BY <1>1, <1>2, <1>4, <2>1, Wants, LockAssumption
    DEF LockInv, Owns, HoldsState, Holding, LockTypeOK
  <2> QED BY <1>1, <1>2, <1>3, <2>1, <2>2, OneLock, Wants DEF LockTypeOK
<1>5. CASE stage[p] = "configFill"
  <2>1. Wanted(p) = target[p] /\ lock[target[p]] = p
    BY <1>2, <1>5 DEF LockInv, Owns, Holding, Wanted, LockTypeOK
  <2>2. Owns(p)'
    BY <1>1, <1>2, <1>5, <2>1, Wants, LockAssumption
    DEF LockInv, Owns, HoldsState, Holding, LockTypeOK
  <2> QED BY <1>1, <1>2, <1>3, <2>1, <2>2, OneLock, Wants DEF LockTypeOK
<1> QED BY <1>2, <1>4, <1>5

LEMMA StepLeave ==
    ASSUME LockInv, NEW p \in Processes, NEW code \in Errors \cup LockErrors \cup {"none"},
           Leave(p, code)
    PROVE  LockInv'
<1>1. LockTypeOK'
  BY DEF LockInv, Leave, LockTypeOK
<1> QED BY <1>1, SameLocks DEF LockInv, Leave, LockTypeOK, HoldsState, Holding

LEMMA StepUnlockConfig ==
    ASSUME LockInv, NEW p \in Processes, UnlockConfig(p) PROVE LockInv'
<1>1. PICK rest \in Nobody : lock' = [lock EXCEPT ![target[p]] = rest]
  BY DEF UnlockConfig, Nobody
<1>2. /\ LockTypeOK /\ stage[p] = "unlockConfig" /\ lock[target[p]] = p
      /\ stage' = [stage EXCEPT ![p] = "unlockState"]
      /\ UNCHANGED <<target, left, delay, cancelled>>
  BY DEF LockInv, UnlockConfig, Owns, Holding, LockTypeOK
<1>3. LockTypeOK'
  BY <1>1, <1>2, Wants DEF UnlockConfig, LockTypeOK, Nobody, LockErrors
<1>4. Owns(p)'
  BY <1>1, <1>2, Wants, LockAssumption
  DEF LockInv, Owns, HoldsState, Holding, LockTypeOK
<1> QED BY <1>1, <1>2, <1>3, <1>4, OneLock, Wants DEF LockTypeOK

LEMMA StepUnlockState ==
    ASSUME LockInv, NEW p \in Processes, UnlockState(p) PROVE LockInv'
<1>1. PICK rest \in Nobody : lock' = [lock EXCEPT ![StateOf[p]] = rest]
  BY DEF UnlockState, Nobody
<1>2. /\ LockTypeOK /\ stage[p] = "unlockState" /\ lock[StateOf[p]] = p
      /\ stage' = [stage EXCEPT ![p] = "idle"]
      /\ UNCHANGED <<target, left, delay, cancelled>>
  BY LockAssumption DEF LockInv, UnlockState, Owns, HoldsState, LockTypeOK
<1>3. LockTypeOK'
  BY <1>1, <1>2, Wants DEF UnlockState, LockTypeOK, Nobody, LockErrors
<1>4. Owns(p)'
  BY <1>1, <1>2, Wants, LockAssumption
  DEF LockInv, Owns, HoldsState, Holding, LockTypeOK
<1> QED BY <1>1, <1>2, <1>3, <1>4, OneLock, Wants DEF LockTypeOK

LEMMA StepAbandon ==
    ASSUME LockInv, NEW p \in Processes, Abandon(p) PROVE LockInv'
<1>1. PICK rest \in Nobody : lock' = [lock EXCEPT ![StateOf[p]] = rest]
  BY DEF Abandon, Nobody
<1>2. /\ LockTypeOK /\ stage[p] = "abandon" /\ lock[StateOf[p]] = p
      /\ stage' = [stage EXCEPT ![p] = "idle"]
      /\ UNCHANGED <<target, left, delay, cancelled, failure>>
  BY LockAssumption DEF LockInv, Abandon, Owns, HoldsState, LockTypeOK
<1>3. LockTypeOK'
  BY <1>1, <1>2, Wants DEF LockTypeOK, Nobody
<1>4. Owns(p)'
  BY <1>1, <1>2, Wants, LockAssumption
  DEF LockInv, Owns, HoldsState, Holding, LockTypeOK
<1> QED BY <1>1, <1>2, <1>3, <1>4, OneLock, Wants DEF LockTypeOK

LEMMA StepCancel ==
    ASSUME LockInv, NEW p \in Processes, Cancel(p) PROVE LockInv'
<1>1. LockTypeOK'
  BY DEF LockInv, Cancel, LockTypeOK
<1> QED BY <1>1, SameLocks DEF Cancel, HoldsState

LEMMA StepCrash ==
    ASSUME LockInv, NEW p \in Processes, Crash(p) PROVE LockInv'
<1>1. /\ LockTypeOK /\ stage' = [stage EXCEPT ![p] = "idle"]
      /\ lock' = [l \in Locks |-> IF lock[l] = p THEN "orphan" ELSE lock[l]]
      /\ UNCHANGED <<target, left, delay, cancelled>>
  BY DEF LockInv, Crash
<1>2. LockTypeOK'
  BY <1>1 DEF Crash, LockTypeOK
<1>3. Owns(p)'
  BY <1>1, Wants DEF Owns, HoldsState, Holding, LockTypeOK, Nobody
<1>4. \A q \in Processes : q # p => \A m \in Locks : lock'[m] = q <=> lock[m] = q
  BY <1>1, Wants DEF LockTypeOK, Nobody
<1> QED BY <1>1, <1>2, <1>3, <1>4, Mine DEF LockTypeOK

LEMMA StepOperatorClears ==
    ASSUME LockInv, NEW l \in Locks, OperatorClears(l) PROVE LockInv'
<1>1. LockTypeOK'
  BY DEF LockInv, OperatorClears, LockTypeOK
<1>2. ASSUME NEW p \in Processes PROVE Owns(p)'
  <2>1. \A m \in Locks : lock'[m] = p <=> lock[m] = p
    BY Wants DEF LockInv, OperatorClears, LockTypeOK, Nobody
  <2> QED BY <2>1 DEF LockInv, Owns, HoldsState, OperatorClears
<1> QED BY <1>1, <1>2 DEF LockInv

LEMMA LockSteps == LockInv /\ [LockNext]_lockVars => LockInv'
<1> SUFFICES ASSUME LockInv, [LockNext]_lockVars PROVE LockInv'
  OBVIOUS
<1>1. ASSUME NEW p \in Processes, LockStep(p) PROVE LockInv'
  BY <1>1, StepCancelled, StepCreate, StepCreateFails, StepContended, StepFill,
     StepFillFails, StepUnlockConfig, StepUnlockState, StepAbandon DEF LockStep
<1>2. CASE UNCHANGED lockVars
  BY <1>2 DEF lockVars, LockInv, LockTypeOK, Owns, HoldsState
<1> QED
  BY <1>1, <1>2, StepAcquire, StepLeave, StepCancel, StepCrash, StepOperatorClears
  DEF LockNext

THEOREM LockInvariance == LockSpec => []LockInv
BY LockInitially, LockSteps, PTL DEF LockSpec

(* The types, of locks, stages and the waits within the budget.            *)
THEOREM LockTypeCorrect == LockSpec => []LockTypeOK
<1>1. LockInv => LockTypeOK
  BY DEF LockInv
<1> QED BY <1>1, LockInvariance, PTL

(* A process has exactly the lock files its stage will release.            *)
THEOREM NoLockForgotten == LockSpec => []LocksBelongToStage
<1>1. LockInv => LocksBelongToStage
  BY DEF LockInv, Owns, LocksBelongToStage
<1> QED BY <1>1, LockInvariance, PTL

LEMMA OneOwner == LocksBelongToStage /\ LockTypeOK => MutualExclusion
<1> SUFFICES ASSUME LocksBelongToStage, LockTypeOK,
                    NEW p \in Processes, NEW q \in Processes, p # q,
                    stage[p] \in Holding, stage[q] \in Holding
             PROVE  StateOf[p] # StateOf[q] /\ target[p] # target[q]
  BY DEF MutualExclusion
<1>1. lock[StateOf[p]] = p /\ lock[StateOf[q]] = q
  BY LockAssumption DEF LocksBelongToStage, HoldsState
<1>2. lock[target[p]] = p /\ lock[target[q]] = q
  BY DEF LocksBelongToStage, LockTypeOK
<1> QED BY <1>1, <1>2

(* ADR 0013: two processes never hold a state file or a configuration at   *)
(* the same time.                                                          *)
THEOREM LocksExclude == LockSpec => []MutualExclusion
BY LockTypeCorrect, NoLockForgotten, OneOwner, PTL

(* A cancelled process creates no lock file.                               *)
THEOREM CancelledCreateNothing == LockSpec => NoLockAfterCancel
<1>1. LockInv /\ [LockNext]_lockVars =>
        [\A p \in Processes, l \in Locks :
            lock'[l] = p /\ lock[l] # p => ~cancelled[p]]_lockVars
  <2> SUFFICES ASSUME LockInv, [LockNext]_lockVars,
                      NEW p \in Processes, NEW l \in Locks,
                      lock'[l] = p, lock[l] # p
               PROVE  ~cancelled[p]
    OBVIOUS
  <2>1. LockTypeOK /\ p \notin Nobody
    BY Wants DEF LockInv
  <2>2. ASSUME NEW q \in Processes, LockStep(q) PROVE ~cancelled[p]
    <3>1. CASE Create(q)
      BY <2>1, <3>1, Wants DEF Create, MayCreate, LockTypeOK
    <3>2. CASE FillFails(q)
      BY <2>1, <3>2, Wants DEF FillFails, LockTypeOK, Nobody
    <3>3. CASE UnlockConfig(q)
      BY <2>1, <3>3, Wants DEF UnlockConfig, LockTypeOK, Nobody
    <3>4. CASE UnlockState(q)
      BY <2>1, <3>4, Wants DEF UnlockState, LockTypeOK, Nobody
    <3>5. CASE Abandon(q)
      BY <2>1, <3>5, Wants DEF Abandon, LockTypeOK, Nobody
    <3>6. CASE Cancelled(q) \/ CreateFails(q) \/ Contended(q) \/ Fill(q)
      BY <3>6 DEF Cancelled, CreateFails, Contended, Fill
    <3> QED BY <2>2, <3>1, <3>2, <3>3, <3>4, <3>5, <3>6 DEF LockStep
  <2>3. ASSUME NEW q \in Processes, Crash(q) PROVE ~cancelled[p]
    BY <2>1, <2>3 DEF Crash, Nobody
  <2>4. ASSUME NEW m \in Locks, OperatorClears(m) PROVE ~cancelled[p]
    BY <2>1, <2>4 DEF OperatorClears, LockTypeOK, Nobody
  <2>5. ASSUME UNCHANGED lock PROVE ~cancelled[p]
    BY <2>5
  <2> QED BY <2>2, <2>3, <2>4, <2>5 DEF LockNext, lockVars, Acquire, Leave, Cancel
<1> QED BY <1>1, LockInvariance, PTL DEF LockSpec, NoLockAfterCancel

HIDE DEF Locks, Enter

-----------------------------------------------------------------------------
(* InstallerTransaction.                                                   *)

LEMMA Constants ==
    /\ TransactionErrors \subseteq Errors
    /\ Jobs \subseteq Job /\ Outside.job \in Jobs
    /\ InitialFiles \subseteq {f \in File : f.exists \/ f = NoFile}
    /\ NoFile \in File /\ NoRecords \in [Keys -> Record]
BY TransactionAssumption, InitialAssumption, Absences
DEF File, NoFile, NoServers, NoRecords, Outside

-----------------------------------------------------------------------------
(* Between the locks a process either leaves, with a code of Errors, or    *)
(* does not touch what InstallerLock is about.                             *)
LEMMA TransactionLeaves ==
    ASSUME NEW p \in Processes, TransactionStep(p)
    PROVE  \/ UNCHANGED lockVars
           \/ \E code \in Errors \cup {"none"} : Leave(p, code)
<1>1. /\ "none" \in Errors \cup {"none"}
      /\ \A code \in TransactionErrors : code \in Errors \cup {"none"}
  BY Constants
<1>2. ASSUME NEW j \in Jobs, Load(p, j) PROVE
        UNCHANGED lockVars \/ Leave(p, "ENGINE_IDENTITY_MISMATCH")
  BY <1>2 DEF Load, Fail, Finish
<1>3. ASSUME Read(p) PROVE
        \/ UNCHANGED lockVars
        \/ \E code \in {"CONFIG_CHANGED", "none", "REFUSED", "STATE_INVALID"} :
              Leave(p, code)
  BY <1>3 DEF Read, Plan, Fail, Finish
<1>4. ASSUME ReadFails(p) \/ WriteFails(p) \/ Commit(p) \/ CommitFails(p)
             \/ Restore(p) \/ UndoFails(p)
      PROVE  \/ UNCHANGED lockVars
             \/ \E code \in {"READ_FAILED", "CONFIG_WRITE_FAILED", "none",
                             "STATE_WRITE_FAILED", "CONFIG_ROLLBACK_FAILED"} :
                   Leave(p, code)
  BY <1>4 DEF ReadFails, WriteFails, Commit, CommitFails, Restore, UndoFails,
              Fail, Finish, Goto
<1>5. ASSUME Check(p) \/ Rename(p) \/ Undo(p) \/ Recheck(p) PROVE UNCHANGED lockVars
  BY <1>5 DEF Check, Rename, Undo, Recheck, Goto
<1> QED BY <1>1, <1>2, <1>3, <1>4, <1>5 DEF TransactionStep, TransactionErrors

LEMMA LockStepOf == [Next]_vars => [LockNext]_lockVars
<1> SUFFICES ASSUME [Next]_vars PROVE [LockNext]_lockVars
  OBVIOUS
<1>1. ASSUME NEW p \in Processes, NEW c \in Configs, Begin(p, c) PROVE LockNext
  BY <1>1 DEF Begin, LockNext
<1>2. ASSUME NEW p \in Processes, LockStep(p) \/ Cancel(p) PROVE LockNext
  BY <1>2 DEF LockNext
<1>3. ASSUME NEW p \in Processes, TransactionStep(p) PROVE [LockNext]_lockVars
  BY <1>3, TransactionLeaves DEF LockNext
<1>4. ASSUME NEW p \in Processes, Dies(p) PROVE LockNext
  BY <1>4 DEF Dies, LockNext
<1>5. ASSUME NEW l \in Locks, OperatorClears(l) PROVE LockNext
  BY <1>5 DEF LockNext
<1>6. ASSUME NEW c \in Configs, NEW n \in Names, NEW definition \in Definition,
             NEW b \in BOOLEAN, Edit(c, n, definition, b)
      PROVE  UNCHANGED lockVars
  BY <1>6 DEF Edit
<1>7. CASE UNCHANGED vars
  BY <1>7 DEF vars
<1> QED BY <1>1, <1>2, <1>3, <1>4, <1>5, <1>6, <1>7 DEF Next

(* The transactions follow the lock protocol, step by step.                *)
THEOREM FollowsTheLocks == Spec => LockSpec
<1>1. Init => LockInit
  BY DEF Init
<1> QED BY <1>1, LockStepOf, PTL DEF Spec, LockSpec

(* ADR 0013: mutual exclusion holds of the transactions.                   *)
THEOREM TransactionsExclude == Spec => [](LockTypeOK /\ MutualExclusion)
BY FollowsTheLocks, LockTypeCorrect, LocksExclude, PTL

-----------------------------------------------------------------------------
Shape ==
    /\ file \in [Configs -> File]
    /\ records \in [States -> [Keys -> Record]]
    /\ tx \in [Processes -> Tx]
    /\ committed \in [Processes -> BOOLEAN]
    /\ edits \in 0..MaxEdits
    /\ disturbed \subseteq Configs \X Names

ExistingOrEmpty(f) == f.exists \/ f = NoFile

Planning == Steps \ {"load", "read"}

(* What p remembers is what it read, and still good for what it will do.   *)
Good(p) ==
    LET t == tx[p] IN
    /\ stage[p] # "locked" => t.step = "load"
    /\ t.step # "load" => t.records = records[StateOf[p]]
    /\ ExistingOrEmpty(t.source)
    /\ t.step \in Planning =>
          Writes(OldRecord(p), Desc(p), Found(p, t.source), t.job.action)
    /\ t.step \in {"check", "rename"} => RewritesConfig(p, t.source)
    /\ edits = 0 /\ t.step = "read" => file[target[p]].exists = t.source.exists
    /\ edits = 0 /\ t.step \in {"check", "rename"} => file[target[p]] = t.source
    /\ edits = 0 /\ t.step = "commit" /\ ~RewritesConfig(p, t.source) =>
          file[target[p]] = t.source

TxInv ==
    /\ Shape
    /\ \A c \in Configs : ExistingOrEmpty(file[c])
    /\ \A p \in Processes : Good(p)

(* The locks, before and after a step.                                     *)
Locked == LockTypeOK /\ MutualExclusion

LEMMA Targets ==
    ASSUME LockTypeOK, NEW p \in Processes
    PROVE  StateOf[p] \in States /\ target[p] \in Configs
BY LockAssumption DEF LockTypeOK

LEMMA TxFields ==
    ASSUME NEW t \in Tx
    PROVE  /\ t.step \in Steps /\ t.job \in Jobs /\ t.records \in [Keys -> Record]
           /\ t.source \in File /\ t.fresh \in BOOLEAN
           /\ \A step \in Steps, source \in File, fresh \in BOOLEAN :
                 LET u == Advance(t, step, source, fresh) IN
                 /\ u \in Tx
                 /\ u.step = step /\ u.source = source /\ u.fresh = fresh
                 /\ u.job = t.job /\ u.records = t.records
BY DEF Tx, Advance

LEMMA OutsideFields ==
    /\ Outside \in Tx /\ Outside.step = "load" /\ Outside.source = NoFile
BY Constants DEF Outside, Tx, Steps

LEMMA JobFields ==
    ASSUME NEW j \in Jobs
    PROVE  j.action \in Actions /\ j.d \in Descriptor /\ j.d.name \in Names
           /\ j.d.entry \in Entries
BY Constants DEF Job, Descriptor

(* What p reads and plans has the types of records and definitions.        *)
LEMMA PlanTyped ==
    ASSUME LockTypeOK, Shape, NEW p \in Processes, NEW source \in File
    PROVE  /\ Key(p) \in Keys /\ Desc(p) \in Descriptor /\ Place(p) \in Configs \X Names
           /\ tx[p].job.action \in Actions
           /\ OldRecord(p) \in Record /\ Found(p, source) \in Definition
           /\ Writes(OldRecord(p), Desc(p), Found(p, source), tx[p].job.action) =>
                 /\ Planned(p, source) \in Definition
                 /\ Recorded(p, source) \in [Keys -> Record]
<1>1. /\ tx[p].job \in Jobs /\ tx[p].records \in [Keys -> Record]
      /\ target[p] \in Configs
  BY TxFields, Targets DEF Shape
<1>2. /\ tx[p].job.action \in Actions /\ Desc(p) \in Descriptor
      /\ Desc(p).name \in Names /\ Desc(p).entry \in Entries
  BY <1>1, JobFields DEF Desc
<1>3. Key(p) \in Keys /\ Place(p) \in Configs \X Names
  BY <1>1, <1>2 DEF Key, Keys, Place, Desc
<1>4. OldRecord(p) \in Record /\ Found(p, source) \in Definition
  BY <1>1, <1>2, <1>3 DEF OldRecord, Found, File
<1>5. ASSUME Writes(OldRecord(p), Desc(p), Found(p, source), tx[p].job.action)
      PROVE  /\ Planned(p, source) \in Definition
             /\ PostRecord(OldRecord(p), Desc(p), Found(p, source),
                           tx[p].job.action) \in Record
  BY <1>2, <1>4, <1>5, PostTyped DEF Planned
<1> QED BY <1>1, <1>2, <1>3, <1>4, <1>5 DEF Recorded

LEMMA MovedFields ==
    ASSUME Shape, NEW c, NEW unaffected
    PROVE  /\ Moved(c, unaffected) \in [Processes -> Tx]
           /\ \A q \in Processes :
                 LET u == Moved(c, unaffected)[q] IN
                 /\ u.step = tx[q].step /\ u.job = tx[q].job
                 /\ u.records = tx[q].records /\ u.source = tx[q].source
<1>1. ASSUME NEW q \in Processes
      PROVE  LET u == Moved(c, unaffected)[q] IN
             /\ u \in Tx
             /\ u.step = tx[q].step /\ u.job = tx[q].job
             /\ u.records = tx[q].records /\ u.source = tx[q].source
  <2>1. tx[q] \in Tx
    BY DEF Shape
  <2>2. Moved(c, unaffected)[q] \in
          {tx[q], Advance(tx[q], tx[q].step, tx[q].source, FALSE)}
    BY DEF Moved
  <2>3. LET v == Advance(tx[q], tx[q].step, tx[q].source, FALSE) IN
        /\ v \in Tx /\ v.step = tx[q].step /\ v.job = tx[q].job
        /\ v.records = tx[q].records /\ v.source = tx[q].source
    BY <2>1, TxFields DEF Advance
  <2> QED BY <2>1, <2>2, <2>3
<1>2. Moved(c, unaffected) = [q \in Processes |-> Moved(c, unaffected)[q]]
  BY DEF Moved
<1> QED BY <1>1, <1>2

-----------------------------------------------------------------------------
(* What a step of p, which may be in the files only while it is locked,    *)
(* leaves of the others: mutual exclusion keeps their files apart.         *)
SameTask(t, u) ==
    /\ u.step = t.step /\ u.job = t.job
    /\ u.records = t.records /\ u.source = t.source

LEMMA Others ==
    ASSUME TxInv, Locked, LockTypeOK', Shape', NEW p \in Processes,
           Good(p)', edits' = edits,
           \A c \in Configs : ExistingOrEmpty(file'[c]),
           \A q \in Processes : q # p =>
              /\ stage'[q] = stage[q] /\ target'[q] = target[q]
              /\ SameTask(tx[q], tx'[q]),
           \A s \in States :
              (s = StateOf[p] /\ stage[p] = "locked") \/ records'[s] = records[s],
           \A c \in Configs :
              (c = target[p] /\ stage[p] = "locked") \/ file'[c] = file[c]
    PROVE  TxInv'
<1>1. ASSUME NEW q \in Processes, q # p PROVE Good(q)'
  <2>1. /\ stage'[q] = stage[q] /\ target'[q] = target[q]
        /\ SameTask(tx[q], tx'[q])
    BY <1>1
  <2>2. /\ OldRecord(q)' = OldRecord(q) /\ Desc(q)' = Desc(q)
        /\ (Found(q, tx[q].source))' = Found(q, tx[q].source)
        /\ (RewritesConfig(q, tx[q].source))' <=> RewritesConfig(q, tx[q].source)
    BY <2>1 DEF SameTask, OldRecord, Desc, Key, Found, RewritesConfig, Planned
  <2>3. Good(q)
    BY DEF TxInv
  <2>4. tx[q].step # "load" =>
           records'[StateOf[q]] = records[StateOf[q]] /\ file'[target[q]] = file[target[q]]
    <3> SUFFICES ASSUME tx[q].step # "load"
                 PROVE  records'[StateOf[q]] = records[StateOf[q]]
                        /\ file'[target[q]] = file[target[q]]
      OBVIOUS
    <3>1. stage[q] = "locked"
      BY <2>3 DEF Good
    <3>2. stage[p] = "locked" => StateOf[p] # StateOf[q] /\ target[p] # target[q]
      BY <1>1, <3>1 DEF Locked, MutualExclusion, Holding
    <3>3. StateOf[q] \in States /\ target[q] \in Configs
      BY Targets DEF Locked
    <3> QED BY <3>2, <3>3
  <2> QED BY <2>1, <2>2, <2>3, <2>4 DEF Good, SameTask, Planning, Steps
<1> QED BY <1>1 DEF TxInv

-----------------------------------------------------------------------------
(* p leaves the transaction, or dies.                                      *)
LEMMA StepFinish ==
    ASSUME TxInv, Locked, LockTypeOK', NEW p \in Processes,
           \/ tx' = [tx EXCEPT ![p] = Outside]
           \/ tx' = [Moved(target[p], {p}) EXCEPT ![p] = Outside],
           \A q \in Processes : q # p => stage'[q] = stage[q] /\ target'[q] = target[q],
           file' \in [Configs -> File], records' \in [States -> [Keys -> Record]],
           committed' \in [Processes -> BOOLEAN], disturbed' \subseteq Configs \X Names,
           edits' = edits,
           \A c \in Configs : ExistingOrEmpty(file'[c]),
           \A s \in States :
              (s = StateOf[p] /\ stage[p] = "locked") \/ records'[s] = records[s],
           \A c \in Configs :
              (c = target[p] /\ stage[p] = "locked") \/ file'[c] = file[c]
    PROVE  TxInv'
<1>1. Shape
  BY DEF TxInv
<1>2. /\ tx' \in [Processes -> Tx] /\ tx'[p] = Outside
      /\ \A q \in Processes : q # p => SameTask(tx[q], tx'[q])
  <2>1. PICK old \in [Processes -> Tx] :
          /\ tx' = [old EXCEPT ![p] = Outside]
          /\ \A q \in Processes : SameTask(tx[q], old[q])
    <3>1. tx \in [Processes -> Tx] /\ \A q \in Processes : SameTask(tx[q], tx[q])
      BY <1>1 DEF Shape, SameTask
    <3>2. \A q \in Processes : SameTask(tx[q], Moved(target[p], {p})[q])
      BY <1>1, MovedFields DEF SameTask
    <3> QED BY <1>1, <3>1, <3>2, MovedFields
  <2> QED BY <2>1, OutsideFields
<1>3. Shape'
  BY <1>1, <1>2 DEF Shape
<1>4. Good(p)'
  BY <1>2, OutsideFields DEF Good, ExistingOrEmpty, Planning
<1> QED BY <1>2, <1>3, <1>4, Others

LEMMA StepFail ==
    ASSUME TxInv, Locked, LockTypeOK', NEW p \in Processes, NEW code, Fail(p, code)
    PROVE  TxInv'
<1>1. /\ tx' = [tx EXCEPT ![p] = Outside]
      /\ \A q \in Processes : q # p => stage'[q] = stage[q] /\ target'[q] = target[q]
      /\ UNCHANGED <<file, records, committed, edits, disturbed>>
  BY DEF Fail, Finish, Leave, Enter, Locked, LockTypeOK
<1> QED BY <1>1, StepFinish DEF TxInv, Shape

(* p goes on with its task, and no file changes.                           *)
LEMMA StepOn ==
    ASSUME TxInv, Locked, LockTypeOK', NEW p \in Processes, NEW u \in Tx,
           tx' = [tx EXCEPT ![p] = u],
           UNCHANGED <<lockVars, file, records, committed, edits, disturbed>>,
           Good(p)'
    PROVE  TxInv'
<1>1. Shape /\ Shape'
  BY DEF TxInv, Shape
<1>2. \A q \in Processes : q # p => SameTask(tx[q], tx'[q])
  BY <1>1 DEF Shape, SameTask
<1> QED BY <1>1, <1>2, Others DEF TxInv, lockVars

LEMMA StepLoad ==
    ASSUME TxInv, Locked, LockTypeOK', NEW p \in Processes, NEW j \in Jobs, Load(p, j)
    PROVE  TxInv'
<1>1. CASE Fail(p, "ENGINE_IDENTITY_MISMATCH")
  BY <1>1, StepFail
<1> DEFINE u == [step |-> "read", job |-> j, records |-> records[StateOf[p]],
                 source |-> [exists |-> file[target[p]].exists, servers |-> NoServers],
                 fresh |-> TRUE]
<1>2. CASE /\ tx' = [tx EXCEPT ![p] = u]
           /\ UNCHANGED <<lockVars, file, records, committed, edits, disturbed>>
  <2>1. /\ Shape /\ StateOf[p] \in States /\ target[p] \in Configs
        /\ stage[p] = "locked"
    BY Targets DEF TxInv, Locked, Load, At
  <2>2. file[target[p]] \in File /\ NoServers \in [Names -> Definition]
    BY <2>1, Absences DEF Shape, NoServers
  <2>3. /\ [exists |-> file[target[p]].exists, servers |-> NoServers] \in File
        /\ ExistingOrEmpty([exists |-> file[target[p]].exists, servers |-> NoServers])
    BY <2>2 DEF File, ExistingOrEmpty, NoFile
  <2>4. u \in Tx
    BY <2>1, <2>3 DEF Shape, Tx, Steps
  <2>5. Good(p)'
    BY <1>2, <2>1, <2>3 DEF Good, Planning, Shape, lockVars
  <2> QED BY <1>2, <2>4, <2>5, StepOn
<1> QED BY <1>1, <1>2 DEF Load

LEMMA StepPlan ==
    ASSUME TxInv, Locked, LockTypeOK', NEW p \in Processes, At(p, "read"), ~Changed(p),
           Plan(p, Source(p))
    PROVE  TxInv'
<1> DEFINE source == Source(p)
           u == Advance(tx[p], IF RewritesConfig(p, source) THEN "check" ELSE "commit",
                        source, tx[p].fresh)
<1>1. CASE \E code : Fail(p, code)
  BY <1>1, StepFail
<1>2. CASE /\ Writes(OldRecord(p), Desc(p), Found(p, source), tx[p].job.action)
           /\ tx' = [tx EXCEPT ![p] = u]
           /\ UNCHANGED <<lockVars, file, records, committed, edits, disturbed>>
  <2>1. /\ Shape /\ Good(p) /\ tx[p] \in Tx /\ target[p] \in Configs
        /\ stage[p] = "locked" /\ tx[p].step = "read"
    BY Targets DEF TxInv, Shape, Locked, At
  <2>2. source \in File /\ ExistingOrEmpty(source)
    BY <2>1, TxFields DEF Source, Shape, TxInv, Good
  <2>3. edits = 0 => file[target[p]] = source
    <3>1. CASE tx[p].source.exists
      BY <3>1 DEF Source
    <3>2. CASE ~tx[p].source.exists
      BY <2>1, <3>2 DEF Source, Good, TxInv, ExistingOrEmpty, NoFile
    <3> QED BY <3>1, <3>2
  <2>4. /\ u \in Tx /\ u.source = source
        /\ u.step = IF RewritesConfig(p, source) THEN "check" ELSE "commit"
        /\ u.job = tx[p].job /\ u.records = tx[p].records
    BY <2>1, <2>2, TxFields DEF Steps, Advance
  <2>5. /\ tx'[p] = u /\ target' = target /\ stage' = stage
        /\ tx[p].records = records[StateOf[p]]
    BY <1>2, <2>1 DEF Shape, lockVars, Good
  <2>6. /\ OldRecord(p)' = OldRecord(p) /\ Desc(p)' = Desc(p)
        /\ (Found(p, tx[p].source))' = Found(p, source)
        /\ (RewritesConfig(p, tx[p].source))' <=> RewritesConfig(p, source)
    BY <2>4, <2>5 DEF OldRecord, Desc, Key, Found, RewritesConfig, Planned
  <2>7. Good(p)'
    BY <1>2, <2>1, <2>2, <2>3, <2>4, <2>5, <2>6 DEF Good
  <2> QED BY <1>2, <2>4, <2>7, StepOn
<1> QED BY <1>1, <1>2 DEF Plan

LEMMA StepRead ==
    ASSUME TxInv, Locked, LockTypeOK', NEW p \in Processes, Read(p)
    PROVE  TxInv'
BY StepFail, StepPlan DEF Read

LEMMA ReadIsCurrent ==
    ASSUME NEW p \in Processes, Good(p), edits = 0, tx[p].step \in {"check", "rename"}
    PROVE  file[target[p]] = tx[p].source
BY DEF Good

(* p goes to another step with the source it has read.                     *)
LEMMA StepGoto ==
    ASSUME TxInv, Locked, LockTypeOK', NEW p \in Processes,
           NEW step \in Planning, NEW fresh \in BOOLEAN,
           tx[p].step \in Planning, stage[p] = "locked",
           tx' = [tx EXCEPT ![p] = Advance(tx[p], step, tx[p].source, fresh)],
           UNCHANGED <<lockVars, file, records, committed, edits, disturbed>>,
           \/ step \notin {"check", "rename", "commit"}
           \/ step = "rename" /\ tx[p].step = "check"
    PROVE  TxInv'
<1> DEFINE u == Advance(tx[p], step, tx[p].source, fresh)
<1>1. /\ Shape /\ Good(p) /\ tx[p] \in Tx
  BY DEF TxInv, Shape
<1>2. /\ u \in Tx /\ u.step = step /\ u.source = tx[p].source
      /\ u.job = tx[p].job /\ u.records = tx[p].records
  BY <1>1, TxFields DEF Planning, Advance
<1>3. /\ tx'[p] = u /\ target' = target /\ stage' = stage
  BY <1>1 DEF Shape, lockVars
<1>4. /\ OldRecord(p)' = OldRecord(p) /\ Desc(p)' = Desc(p)
      /\ (Found(p, tx[p].source))' = Found(p, tx[p].source)
      /\ (RewritesConfig(p, tx[p].source))' <=> RewritesConfig(p, tx[p].source)
  BY <1>2, <1>3 DEF OldRecord, Desc, Key, Found, RewritesConfig, Planned
<1>5. Good(p)'
  <2>1. tx'[p].step = step /\ tx'[p].source = tx[p].source
        /\ tx'[p].job = tx[p].job /\ tx'[p].records = tx[p].records
    BY <1>2, <1>3
  <2>2. /\ tx[p].records = records[StateOf[p]] /\ ExistingOrEmpty(tx[p].source)
        /\ Writes(OldRecord(p), Desc(p), Found(p, tx[p].source), tx[p].job.action)
    BY <1>1 DEF Good, Planning
  <2>3. step \notin {"load", "read"}
    BY DEF Planning
  <2>4. step = "rename" =>
           /\ RewritesConfig(p, tx[p].source)
           /\ edits = 0 => file[target[p]] = tx[p].source
    <3>1. CASE step # "rename"
      BY <3>1
    <3>2. CASE tx[p].step = "check"
      <4>1. RewritesConfig(p, tx[p].source)
        BY <1>1, <3>2 DEF Good
      <4>2. edits = 0 => file[target[p]] = tx[p].source
        BY <1>1, <3>2, ReadIsCurrent
      <4> QED BY <4>1, <4>2
    <3> QED BY <3>1, <3>2
  <2> QED BY <1>3, <1>4, <2>1, <2>2, <2>3, <2>4 DEF Good
<1> QED BY <1>2, <1>5, StepOn

LEMMA StepRename ==
    ASSUME TxInv, Locked, LockTypeOK', NEW p \in Processes, Rename(p)
    PROVE  TxInv'
<1> DEFINE source == tx[p].source
           renamed == [exists  |-> TRUE,
                       servers |-> [source.servers EXCEPT
                                      ![Desc(p).name] = Planned(p, source)]]
           u == Advance(tx[p], "commit", source, tx[p].fresh)
<1>1. /\ Shape /\ Good(p) /\ tx[p] \in Tx /\ target[p] \in Configs
      /\ stage[p] = "locked" /\ tx[p].step = "rename" /\ source \in File
  BY Targets, TxFields DEF TxInv, Shape, Locked, Rename, At
<1>2. /\ file' = [file EXCEPT ![target[p]] = renamed]
      /\ tx' = [Moved(target[p], {p}) EXCEPT ![p] = u]
      /\ UNCHANGED <<lockVars, records, committed, edits, disturbed>>
  BY DEF Rename
<1>3. Writes(OldRecord(p), Desc(p), Found(p, source), tx[p].job.action)
  BY <1>1 DEF Good, Planning, Steps
<1>4. renamed \in File /\ ExistingOrEmpty(renamed)
  <2>1. Planned(p, source) \in Definition /\ Desc(p).name \in Names
    BY <1>1, <1>3, PlanTyped, TxFields, JobFields DEF Locked, Desc
  <2> QED BY <1>1, <2>1 DEF File, ExistingOrEmpty
<1>5. /\ u \in Tx /\ u.step = "commit" /\ u.source = source
      /\ u.job = tx[p].job /\ u.records = tx[p].records
  BY <1>1, TxFields DEF Steps, Advance
<1>6. Shape' /\ \A c \in Configs : ExistingOrEmpty(file'[c])
  BY <1>1, <1>2, <1>4, <1>5, MovedFields DEF Shape, TxInv
<1>7. tx'[p] = u /\ \A q \in Processes : q # p => SameTask(tx[q], tx'[q])
  BY <1>1, <1>2, MovedFields DEF SameTask
<1>8. /\ OldRecord(p)' = OldRecord(p) /\ Desc(p)' = Desc(p)
      /\ (Found(p, tx[p].source))' = Found(p, source)
      /\ (RewritesConfig(p, tx[p].source))' <=> RewritesConfig(p, source)
  BY <1>2, <1>5, <1>7 DEF OldRecord, Desc, Key, Found, lockVars, RewritesConfig, Planned
<1>9. RewritesConfig(p, source)
  BY <1>1 DEF Good
<1>10. Good(p)'
  BY <1>1, <1>2, <1>3, <1>5, <1>7, <1>8, <1>9 DEF Good, lockVars
<1> QED BY <1>1, <1>2, <1>6, <1>7, <1>10, Others DEF lockVars, Shape

LEMMA StepCommit ==
    ASSUME TxInv, Locked, LockTypeOK', NEW p \in Processes, Commit(p)
    PROVE  TxInv'
<1> DEFINE source == tx[p].source
<1>1. /\ Shape /\ Good(p) /\ tx[p] \in Tx /\ StateOf[p] \in States
      /\ stage[p] = "locked" /\ tx[p].step = "commit" /\ source \in File
  BY Targets, TxFields DEF TxInv, Shape, Locked, Commit, At
<1>2. /\ records' = [records EXCEPT ![StateOf[p]] = Recorded(p, source)]
      /\ tx' = [tx EXCEPT ![p] = Outside]
      /\ committed' = [committed EXCEPT ![p] = TRUE]
      /\ UNCHANGED <<file, edits, disturbed>>
      /\ \A q \in Processes : q # p => stage'[q] = stage[q] /\ target'[q] = target[q]
  BY DEF Commit, Finish, Leave, Enter, Locked, LockTypeOK
<1>3. Recorded(p, source) \in [Keys -> Record]
  BY <1>1, PlanTyped DEF Good, Planning, Steps, Locked
<1>4. /\ records' \in [States -> [Keys -> Record]]
      /\ \A s \in States : s = StateOf[p] \/ records'[s] = records[s]
  BY <1>1, <1>2, <1>3 DEF Shape
<1>5. committed' \in [Processes -> BOOLEAN]
  BY <1>1, <1>2 DEF Shape
<1> QED BY <1>1, <1>2, <1>4, <1>5, StepFinish DEF TxInv, Shape

LEMMA StepCommitFails ==
    ASSUME TxInv, Locked, LockTypeOK', NEW p \in Processes, CommitFails(p)
    PROVE  TxInv'
<1>1. CASE Fail(p, "STATE_WRITE_FAILED")
  BY <1>1, StepFail
<1>2. CASE Goto(p, "undo")
  <2>1. /\ "undo" \in Planning /\ tx[p].step \in Planning /\ stage[p] = "locked"
        /\ tx[p].fresh \in BOOLEAN
    BY TxFields DEF CommitFails, At, Planning, Steps, TxInv, Shape
  <2>2. /\ tx' = [tx EXCEPT ![p] = Advance(tx[p], "undo", tx[p].source, tx[p].fresh)]
        /\ UNCHANGED <<lockVars, file, records, committed, edits, disturbed>>
    BY <1>2 DEF Goto, TxInv, Shape
  <2> QED BY <2>1, <2>2, StepGoto
<1> QED BY <1>1, <1>2 DEF CommitFails

LEMMA StepChecks ==
    ASSUME TxInv, Locked, LockTypeOK', NEW p \in Processes,
           Check(p) \/ Undo(p) \/ Recheck(p)
    PROVE  TxInv'
<1>1. /\ tx[p].step \in {"check", "undo", "recheck"} /\ stage[p] = "locked"
      /\ tx[p].fresh \in BOOLEAN
  BY TxFields DEF Check, Undo, Recheck, At, TxInv, Shape
<1>2. PICK step \in {"rename", "recheck", "restore"}, fresh \in BOOLEAN :
        /\ tx' = [tx EXCEPT ![p] = Advance(tx[p], step, tx[p].source, fresh)]
        /\ step = "rename" => tx[p].step = "check"
  <2>1. CASE Check(p)
    BY <1>1, <2>1 DEF Check, Goto, At, TxInv, Shape
  <2>2. CASE Undo(p)
    BY <1>1, <2>2 DEF Undo, TxInv, Shape
  <2>3. CASE Recheck(p)
    BY <1>1, <2>3 DEF Recheck, Goto, TxInv, Shape
  <2> QED BY <2>1, <2>2, <2>3
<1>3. UNCHANGED <<lockVars, file, records, committed, edits, disturbed>>
  BY DEF Check, Undo, Recheck, Goto
<1>4. step \in Planning /\ tx[p].step \in Planning
  BY <1>1 DEF Planning, Steps
<1> QED BY <1>1, <1>2, <1>3, <1>4, StepGoto

LEMMA StepRestore ==
    ASSUME TxInv, Locked, LockTypeOK', NEW p \in Processes, Restore(p)
    PROVE  TxInv'
<1>1. /\ Shape /\ Good(p) /\ stage[p] = "locked" /\ tx[p].source \in File
      /\ target[p] \in Configs
  BY Targets, TxFields DEF TxInv, Shape, Restore, At, Locked
<1>2. /\ file' = [file EXCEPT ![target[p]] = tx[p].source]
      /\ tx' = [Moved(target[p], {p}) EXCEPT ![p] = Outside]
      /\ UNCHANGED <<records, committed, edits, disturbed>>
      /\ \A q \in Processes : q # p => stage'[q] = stage[q] /\ target'[q] = target[q]
  BY DEF Restore, Leave, Enter, Locked, LockTypeOK
<1>3. /\ file' \in [Configs -> File]
      /\ \A c \in Configs : ExistingOrEmpty(file'[c])
      /\ \A c \in Configs : c = target[p] \/ file'[c] = file[c]
  BY <1>1, <1>2 DEF Shape, TxInv, Good
<1> QED BY <1>1, <1>2, <1>3, StepFinish DEF Shape

LEMMA StepUndoFails ==
    ASSUME TxInv, Locked, LockTypeOK', NEW p \in Processes, UndoFails(p)
    PROVE  TxInv'
<1>1. Shape /\ NoFile \in File
  BY Constants DEF TxInv
<1>2. /\ tx' = [tx EXCEPT ![p] = Outside]
      /\ disturbed' = disturbed \cup {Place(p)}
      /\ UNCHANGED <<file, records, committed, edits>>
      /\ \A q \in Processes : q # p => stage'[q] = stage[q] /\ target'[q] = target[q]
  BY DEF UndoFails, Finish, Leave, Enter, Locked, LockTypeOK
<1>3. disturbed' \subseteq Configs \X Names
  BY <1>1, <1>2, PlanTyped DEF Shape, Locked
<1> QED BY <1>2, <1>3, StepFinish DEF TxInv, Shape

LEMMA StepDies ==
    ASSUME TxInv, Locked, LockTypeOK', NEW p \in Processes, Dies(p)
    PROVE  TxInv'
<1>1. Shape /\ NoFile \in File
  BY Constants DEF TxInv
<1>2. /\ tx' = [tx EXCEPT ![p] = Outside]
      /\ disturbed' = disturbed \cup (IF Between(p) THEN {Place(p)} ELSE {})
      /\ UNCHANGED <<file, records, committed, edits>>
      /\ \A q \in Processes : q # p => stage'[q] = stage[q] /\ target'[q] = target[q]
  BY DEF Dies, Crash, Enter, Locked, LockTypeOK
<1>3. disturbed' \subseteq Configs \X Names
  BY <1>1, <1>2, PlanTyped DEF Shape, Locked
<1> QED BY <1>2, <1>3, StepFinish DEF TxInv, Shape

(* Acquisition, release, cancellation and clearing: no process has read    *)
(* anything while its stage changes.                                       *)
LEMMA StepLocks ==
    ASSUME TxInv, Locked, LockTypeOK',
           UNCHANGED <<file, records, tx, edits, disturbed>>,
           committed' \in [Processes -> BOOLEAN],
           \A q \in Processes :
              \/ stage[q] # "locked"
              \/ stage'[q] = stage[q] /\ target'[q] = target[q]
    PROVE  TxInv'
<1>1. Shape'
  BY DEF TxInv, Shape
<1>2. ASSUME NEW q \in Processes PROVE Good(q)'
  <2>1. Good(q)
    BY DEF TxInv
  <2>2. CASE stage[q] # "locked"
    BY <2>1, <2>2 DEF Good, Planning, ExistingOrEmpty
  <2>3. CASE stage'[q] = stage[q] /\ target'[q] = target[q]
    <3>1. /\ OldRecord(q)' = OldRecord(q) /\ Desc(q)' = Desc(q)
          /\ (Found(q, tx[q].source))' = Found(q, tx[q].source)
          /\ (RewritesConfig(q, tx[q].source))' <=> RewritesConfig(q, tx[q].source)
      BY <2>3 DEF OldRecord, Desc, Key, Found, RewritesConfig, Planned
    <3> QED BY <2>1, <2>3, <3>1 DEF Good, ExistingOrEmpty
  <2> QED BY <2>2, <2>3
<1> QED BY <1>1, <1>2 DEF TxInv, ExistingOrEmpty

LEMMA StepEdit ==
    ASSUME TxInv, Locked, LockTypeOK',
           NEW c \in Configs, NEW n \in Names, NEW definition \in Definition,
           NEW inPlace \in BOOLEAN, Edit(c, n, definition, inPlace)
    PROVE  TxInv'
<1>1. Shape /\ edits \in Nat /\ edits + 1 \in 0..MaxEdits
  BY TransactionAssumption DEF TxInv, Shape, Edit
<1> DEFINE edited == [exists |-> TRUE,
                      servers |-> [file[c].servers EXCEPT ![n] = definition]]
<1>2. /\ file' = [file EXCEPT ![c] = edited]
      /\ edits' = edits + 1
      /\ disturbed' = disturbed \cup {<<c, n>>}
      /\ UNCHANGED <<lockVars, records, committed>>
  BY <1>1 DEF Edit, Shape
<1>3. edited \in File /\ ExistingOrEmpty(edited)
  BY <1>1 DEF Shape, File, ExistingOrEmpty
<1>4. /\ tx' \in [Processes -> Tx]
      /\ \A q \in Processes : SameTask(tx[q], tx'[q])
  <2>1. CASE tx' = tx
    BY <1>1, <2>1 DEF Shape, SameTask
  <2>2. CASE tx' = Moved(c, {})
    BY <1>1, <2>2, MovedFields DEF SameTask
  <2> QED BY <2>1, <2>2 DEF Edit
<1>5. Shape'
  BY <1>1, <1>2, <1>3, <1>4 DEF Shape
<1>6. \A d \in Configs : ExistingOrEmpty(file'[d])
  BY <1>1, <1>2, <1>3 DEF Shape, TxInv
<1>7. ASSUME NEW q \in Processes PROVE Good(q)'
  <2>1. SameTask(tx[q], tx'[q]) /\ stage'[q] = stage[q] /\ target'[q] = target[q]
    BY <1>2, <1>4 DEF lockVars
  <2>2. /\ OldRecord(q)' = OldRecord(q) /\ Desc(q)' = Desc(q)
        /\ (Found(q, tx[q].source))' = Found(q, tx[q].source)
        /\ (RewritesConfig(q, tx[q].source))' <=> RewritesConfig(q, tx[q].source)
    BY <2>1 DEF SameTask, OldRecord, Desc, Key, Found, RewritesConfig, Planned
  <2>3. Good(q) /\ edits' # 0
    BY <1>1, <1>2 DEF TxInv
  <2> QED BY <1>2, <2>1, <2>2, <2>3 DEF Good, SameTask, ExistingOrEmpty
<1> QED BY <1>5, <1>6, <1>7 DEF TxInv

LEMMA TxInitially == Init => TxInv
<1> SUFFICES ASSUME Init PROVE TxInv
  OBVIOUS
<1>1. Shape
  BY Constants, OutsideFields, TransactionAssumption DEF Init, Shape, File
<1>2. \A c \in Configs : ExistingOrEmpty(file[c])
  BY Constants DEF Init, ExistingOrEmpty
<1>3. ASSUME NEW p \in Processes PROVE Good(p)
  BY OutsideFields DEF Init, Good, Planning, ExistingOrEmpty
<1> QED BY <1>1, <1>2, <1>3 DEF TxInv

LEMMA TxSteps == TxInv /\ Locked /\ LockTypeOK' /\ [Next]_vars => TxInv'
<1> SUFFICES ASSUME TxInv, Locked, LockTypeOK', [Next]_vars PROVE TxInv'
  OBVIOUS
<1>1. ASSUME NEW p \in Processes, NEW c \in Configs, Begin(p, c) PROVE TxInv'
  <2>1. committed' \in [Processes -> BOOLEAN]
    BY <1>1 DEF Begin, TxInv, Shape
  <2>2. \A q \in Processes :
           \/ stage[q] # "locked"
           \/ stage'[q] = stage[q] /\ target'[q] = target[q]
    BY <1>1 DEF Begin, Acquire, Enter, Locked, LockTypeOK
  <2> QED BY <1>1, <2>1, <2>2, StepLocks DEF Begin
<1>2. ASSUME NEW p \in Processes, LockStep(p) \/ Cancel(p), UNCHANGED txVars
      PROVE  TxInv'
  <2>1. \A q \in Processes :
           \/ stage[q] # "locked"
           \/ stage'[q] = stage[q] /\ target'[q] = target[q]
    BY <1>2 DEF LockStep, Cancelled, Create, CreateFails, Contended, Fill, FillFails,
                UnlockConfig, UnlockState, Abandon, Cancel, GivesUp, Enter, MayCreate,
                Waiting, Locked, LockTypeOK
  <2>2. committed' \in [Processes -> BOOLEAN]
    BY <1>2 DEF txVars, TxInv, Shape
  <2> QED BY <1>2, <2>1, <2>2, StepLocks DEF txVars
<1>3. ASSUME NEW p \in Processes, TransactionStep(p) PROVE TxInv'
  BY <1>3, StepLoad, StepRead, StepFail, StepChecks, StepRename, StepCommit,
     StepCommitFails, StepRestore, StepUndoFails
  DEF TransactionStep, ReadFails, WriteFails
<1>4. ASSUME NEW l \in Locks, OperatorClears(l), UNCHANGED txVars PROVE TxInv'
  <2>1. /\ UNCHANGED <<file, records, tx, edits, disturbed, stage, target>>
        /\ committed' \in [Processes -> BOOLEAN]
    BY <1>4 DEF OperatorClears, txVars, TxInv, Shape
  <2> QED BY <2>1, StepLocks
<1>5. CASE UNCHANGED vars
  <2>1. /\ UNCHANGED <<file, records, tx, edits, disturbed, stage, target>>
        /\ committed' \in [Processes -> BOOLEAN]
    BY <1>5 DEF vars, lockVars, txVars, TxInv, Shape
  <2> QED BY <2>1, StepLocks
<1> QED BY <1>1, <1>2, <1>3, <1>4, <1>5, StepDies, StepEdit DEF Next

THEOREM TxInvariance == Spec => []TxInv
BY TransactionsExclude, TxInitially, TxSteps, PTL DEF Spec, Locked

(* The types of the two files, of what is read of them and planned.        *)
THEOREM TransactionTypeCorrect == Spec => []TxTypeOK
<1>1. TxInv /\ LockTypeOK => TxTypeOK
  BY DEF TxInv, Shape, TxTypeOK
<1> QED BY <1>1, TxInvariance, TransactionsExclude, PTL

(* No update of the state file is lost: what a process has read of it is   *)
(* what it holds until the process replaces it.                            *)
THEOREM NoLostUpdate == Spec => []StateIsCurrent
<1>1. TxInv => StateIsCurrent
  BY DEF TxInv, Good, StateIsCurrent, Inside
<1> QED BY <1>1, TxInvariance, PTL

(* The same of a configuration, whatever state files its writers have.     *)
THEOREM NoLostConfig == Spec => []ConfigIsCurrent
<1>1. TxInv => ConfigIsCurrent
  BY ReadIsCurrent DEF TxInv, ConfigIsCurrent, At
<1> QED BY <1>1, TxInvariance, PTL

(* Only p itself ends its transaction.                                     *)
LEMMA EndsItself ==
    ASSUME Locked, [Next]_vars, NEW p \in Processes,
           stage[p] = "locked", stage'[p] = "unlockConfig"
    PROVE  TransactionStep(p)
<1>1. ASSUME NEW q \in Processes, NEW c \in Configs, Begin(q, c) PROVE FALSE
  BY <1>1 DEF Begin, Acquire, Enter, Locked, LockTypeOK
<1>2. ASSUME NEW q \in Processes, LockStep(q) \/ Cancel(q) PROVE FALSE
  BY <1>2 DEF LockStep, Cancelled, Create, CreateFails, Contended, Fill, FillFails,
              UnlockConfig, UnlockState, Abandon, Cancel, GivesUp, Enter, MayCreate,
              Waiting, Locked, LockTypeOK
<1>3. ASSUME NEW q \in Processes, q # p, TransactionStep(q) PROVE FALSE
  BY <1>3, TransactionLeaves DEF Leave, Enter, Locked, LockTypeOK, lockVars
<1>4. ASSUME NEW q \in Processes, Dies(q) PROVE FALSE
  BY <1>4 DEF Dies, Crash, Enter, Locked, LockTypeOK
<1>5. CASE UNCHANGED stage
  BY <1>5
<1> QED BY <1>1, <1>2, <1>3, <1>4, <1>5
        DEF Next, vars, lockVars, OperatorClears, Edit

(* A transaction that reports an error of its own, other than a rollback   *)
(* that failed, leaves both files as it read them.                         *)
THEOREM RollbackRestores == Spec => FailureUndoes
<1>1. TxInv /\ Locked /\ [Next]_vars =>
        [\A p \in Processes :
            /\ Inside(p) /\ stage'[p] = "unlockConfig" /\ edits = 0
            /\ failure'[p] \notin {"none", "CONFIG_ROLLBACK_FAILED"}
            => /\ records'[StateOf[p]] = tx[p].records
               /\ tx[p].step # "read" => file'[target[p]] = tx[p].source]_vars
  <2> SUFFICES ASSUME TxInv, Locked, [Next]_vars, NEW p \in Processes,
                      Inside(p), stage'[p] = "unlockConfig", edits = 0,
                      failure'[p] \notin {"none", "CONFIG_ROLLBACK_FAILED"}
               PROVE  /\ records'[StateOf[p]] = tx[p].records
                      /\ tx[p].step # "read" => file'[target[p]] = tx[p].source
    OBVIOUS
  <2>1. /\ Good(p) /\ stage[p] = "locked" /\ tx[p].step # "load"
        /\ tx[p].records = records[StateOf[p]]
        /\ target[p] \in Configs /\ file \in [Configs -> File]
    BY Targets DEF TxInv, Shape, Inside, Good, Locked
  <2>2. UNCHANGED lockVars => FALSE
    BY <2>1 DEF lockVars
  <2>3. \A code : Leave(p, code) => failure'[p] = code
    BY DEF Leave, Locked, LockTypeOK
  <2>4. CASE (\E j \in Jobs : Load(p, j)) \/ Commit(p) \/ UndoFails(p)
    BY <2>1, <2>3, <2>4 DEF Load, Commit, UndoFails, Finish, At
  <2>5. CASE Read(p) \/ ReadFails(p)
    BY <2>1, <2>2, <2>5 DEF Read, Plan, ReadFails, Fail, At
  <2>6. CASE Check(p) \/ Rename(p) \/ Undo(p) \/ Recheck(p)
    BY <2>2, <2>6 DEF Check, Rename, Undo, Recheck, Goto
  <2>7. CASE WriteFails(p)
    BY <2>1, <2>7, ReadIsCurrent DEF WriteFails, Fail, At
  <2>8. CASE CommitFails(p)
    <3>1. /\ ~RewritesConfig(p, tx[p].source) /\ tx[p].step = "commit"
          /\ UNCHANGED <<file, records>>
      BY <2>2, <2>8 DEF CommitFails, Fail, Goto, At
    <3> QED BY <2>1, <3>1 DEF Good
  <2>9. CASE Restore(p)
    BY <2>1, <2>9 DEF Restore
  <2> QED BY <2>1, <2>4, <2>5, <2>6, <2>7, <2>8, <2>9, EndsItself DEF TransactionStep
<1> QED BY <1>1, TxInvariance, TransactionsExclude, PTL DEF Spec, FailureUndoes, Locked

-----------------------------------------------------------------------------
(* Files and records agree.  Without a toggle a definition of a suspended  *)
(* entry is absent, and another entry, or the same one under another state *)
(* file, may be installed under its name; so a client without a toggle     *)
(* needs names that belong to one entry and one state file.                *)
NamesApart ==
    /\ \A j, k \in Jobs : j.d.name = k.d.name => j.d.entry = k.d.entry
    /\ \A s, t \in States : s = t

(* What p has read, and renamed, is still there, but for what clients edit *)
(* meanwhile.                                                              *)
Undisturbed(c, n) == edits = 0 \/ <<c, n>> \notin disturbed

Expected(p, n) ==
    IF Between(p) /\ n = Desc(p).name THEN Planned(p, tx[p].source)
    ELSE tx[p].source.servers[n]

Remembers(p) ==
    \A n \in Names : Undisturbed(target[p], n) =>
        /\ tx[p].step \in Planning => file[target[p]].servers[n] = Expected(p, n)
        /\ tx[p].step = "read" /\ ~tx[p].source.exists =>
              file[target[p]].servers[n] = Absent

Remembering == \A p \in Processes : Remembers(p)

(* The definition of n as transactions leave it: a process between the two *)
(* renames has not begun.                                                  *)
Seen(c, n, definition) ==
    \/ \E p \in Processes : InHand(p, c, n) /\ definition = tx[p].source.servers[n]
    \/ /\ \A p \in Processes : ~InHand(p, c, n)
       /\ definition = file[c].servers[n]

(* What is seen after a step was seen before it: everywhere, or everywhere *)
(* but where p was at work.                                                *)
SeenStays ==
    \A c \in Configs, n \in Names : \A definition :
        Undisturbed(c, n)' /\ Seen(c, n, definition)' => Seen(c, n, definition)

SeenElse(p) ==
    \A c \in Configs, n \in Names : \A definition :
        Undisturbed(c, n)' /\ <<c, n>> # Place(p) /\ Seen(c, n, definition)' =>
            Seen(c, n, definition)

(* A record that nothing has disturbed is true to the definition seen.     *)
Faithful(s, c, e) ==
    LET r == records[s][<<e, c>>] IN
    r.kept /\ <<c, r.name>> \notin disturbed =>
        \A definition \in Definition :
            Seen(c, r.name, definition) => ~Drifted(r, [name |-> r.name], definition)

(* Somebody asked for the entry under the name it is recorded under.       *)
WasAsked(s, c, e) ==
    LET r == records[s][<<e, c>>] IN
    r.kept => \E j \in Jobs : j.d.entry = e /\ j.d.name = r.name

(* Nothing else is recorded under that name.                               *)
Alone(s, t, c, e, f) ==
    LET r == records[s][<<e, c>>]
        other == records[t][<<f, c>>]
    IN  r.kept /\ other.kept /\ r.name = other.name /\ <<c, r.name>> \notin disturbed =>
            s = t /\ e = f

RecordsAgree ==
    /\ \A s \in States, c \in Configs, e \in Entries :
          Faithful(s, c, e) /\ WasAsked(s, c, e)
    /\ \A s, t \in States, c \in Configs, e, f \in Entries : Alone(s, t, c, e, f)

-----------------------------------------------------------------------------
LEMMA SameHand ==
    ASSUME NEW q \in Processes,
           stage'[q] = stage[q], target'[q] = target[q], SameTask(tx[q], tx'[q])
    PROVE  /\ Between(q)' <=> Between(q)
           /\ Place(q)' = Place(q) /\ Desc(q)' = Desc(q)
           /\ \A n : Expected(q, n)' = Expected(q, n)
           /\ \A c, n : InHand(q, c, n)' <=> InHand(q, c, n)
<1>1. /\ OldRecord(q)' = OldRecord(q) /\ Desc(q)' = Desc(q) /\ Place(q)' = Place(q)
      /\ (Planned(q, tx[q].source))' = Planned(q, tx[q].source)
      /\ (RewritesConfig(q, tx[q].source))' <=> RewritesConfig(q, tx[q].source)
  BY DEF SameTask, OldRecord, Desc, Place, Key, Found, RewritesConfig, Planned
<1>2. Between(q)' <=> Between(q)
  BY <1>1 DEF Between, At, SameTask
<1> QED BY <1>1, <1>2 DEF Expected, InHand, SameTask

(* A configuration is in the hands of one process.                         *)
LEMMA OneHand ==
    ASSUME Locked, NEW p \in Processes, NEW q \in Processes, p # q,
           stage[p] = "locked", stage[q] = "locked"
    PROVE  target[p] # target[q] /\ StateOf[p] # StateOf[q]
BY DEF Locked, MutualExclusion, Holding

(* A step of p leaves what is seen elsewhere, and what others remember.    *)
LEMMA SeenElsewhere ==
    ASSUME NEW p \in Processes, target'[p] = target[p],
           \A q \in Processes : q # p =>
              /\ stage'[q] = stage[q] /\ target'[q] = target[q]
              /\ SameTask(tx[q], tx'[q]),
           NEW c \in Configs, c # target[p], file'[c] = file[c],
           NEW n, NEW definition, Seen(c, n, definition)'
    PROVE  Seen(c, n, definition)
<1>1. ~InHand(p, c, n) /\ ~InHand(p, c, n)'
  BY DEF InHand, Place
<1>2. ASSUME NEW q \in Processes
      PROVE  /\ InHand(q, c, n)' <=> InHand(q, c, n)
             /\ InHand(q, c, n) => tx'[q].source = tx[q].source
  BY <1>1, SameHand DEF SameTask
<1> QED BY <1>2 DEF Seen

LEMMA OthersRemember ==
    ASSUME TxInv, Locked, NEW p \in Processes, stage[p] = "locked",
           \A q \in Processes : q # p =>
              /\ stage'[q] = stage[q] /\ target'[q] = target[q]
              /\ SameTask(tx[q], tx'[q]),
           \A c \in Configs : c = target[p] \/ file'[c] = file[c],
           disturbed \subseteq disturbed', edits' = edits,
           NEW q \in Processes, q # p, Remembers(q)
    PROVE  Remembers(q)'
<1>1. CASE tx[q].step = "load"
  BY <1>1 DEF Remembers, SameTask, Planning
<1>2. CASE tx[q].step # "load"
  <2>1. stage[q] = "locked"
    BY <1>2 DEF TxInv, Good
  <2>2. file'[target[q]] = file[target[q]]
    BY <2>1, OneHand, Targets DEF Locked
  <2>3. \A n : Expected(q, n)' = Expected(q, n)
    BY SameHand
  <2> QED BY <2>2, <2>3 DEF Remembers, SameTask, Undisturbed
<1> QED BY <1>1, <1>2

(* In the configuration p has locked, p decides what is seen.              *)
Own(p, n) ==
    IF Between(p) /\ n = Desc(p).name THEN tx[p].source.servers[n]
    ELSE file[target[p]].servers[n]

LEMMA SeenIsOwn ==
    ASSUME Locked, NEW p \in Processes, stage[p] = "locked",
           NEW n, NEW definition
    PROVE  Seen(target[p], n, definition) <=> definition = Own(p, n)
<1>1. \A q \in Processes : q # p => ~InHand(q, target[p], n)
  BY OneHand DEF InHand, Place, Between, At
<1>2. InHand(p, target[p], n) <=> Between(p) /\ n = Desc(p).name
  BY DEF InHand, Place, Desc
<1> QED BY <1>1, <1>2 DEF Seen, Own

LEMMA SeenIsOwnThen ==
    ASSUME Locked, NEW p \in Processes, stage[p] = "locked", target'[p] = target[p],
           \A q \in Processes : q # p =>
              /\ stage'[q] = stage[q] /\ target'[q] = target[q]
              /\ SameTask(tx[q], tx'[q]),
           NEW n, NEW definition
    PROVE  Seen(target[p], n, definition)' <=> definition = Own(p, n)'
<1>1. \A q \in Processes : q # p => ~InHand(q, target[p], n)'
  BY OneHand DEF InHand, Place, Between, At
<1>2. InHand(p, target[p], n)' <=> Between(p)' /\ n = Desc(p)'.name
  BY DEF InHand, Place, Desc
<1> QED BY <1>1, <1>2 DEF Seen, Own

(* A step of p before its commit: p shows the same to everybody else.      *)
LEMMA WorkOn ==
    ASSUME TxInv, Locked, Remembering, NEW p \in Processes, stage[p] = "locked",
           target'[p] = target[p],
           \A q \in Processes : q # p =>
              /\ stage'[q] = stage[q] /\ target'[q] = target[q]
              /\ SameTask(tx[q], tx'[q]),
           \A c \in Configs : c = target[p] \/ file'[c] = file[c],
           UNCHANGED <<edits, disturbed>>,
           Remembers(p)',
           \A n \in Names : Undisturbed(target[p], n) => Own(p, n)' = Own(p, n)
    PROVE  Remembering' /\ SeenStays
<1>1. ASSUME NEW q \in Processes PROVE Remembers(q)'
  BY <1>1, OthersRemember DEF Remembering
<1>2. ASSUME NEW c \in Configs, NEW n \in Names, Undisturbed(c, n)',
             NEW definition, Seen(c, n, definition)'
      PROVE  Seen(c, n, definition)
  <2>1. Undisturbed(c, n)
    BY <1>2 DEF Undisturbed
  <2>2. CASE c = target[p]
    <3>1. Own(p, n)' = Own(p, n)
      BY <2>1, <2>2
    <3> QED BY <1>2, <2>2, <3>1, SeenIsOwn, SeenIsOwnThen
  <2>3. CASE c # target[p]
    BY <1>2, <2>3, SeenElsewhere
  <2> QED BY <2>2, <2>3
<1> QED BY <1>1, <1>2 DEF Remembering, SeenStays

(* p ends with the configuration as it is: where it was at work, its       *)
(* definition is seen from now on.                                         *)
LEMMA WorkEnds ==
    ASSUME TxInv, Locked, Remembering, NEW p \in Processes, stage[p] = "locked",
           tx' = [tx EXCEPT ![p] = Outside], target'[p] = target[p],
           \A q \in Processes : q # p => stage'[q] = stage[q] /\ target'[q] = target[q],
           UNCHANGED <<file, edits>>, disturbed \subseteq disturbed'
    PROVE  Remembering' /\ SeenElse(p)
<1>1. /\ tx'[p] = Outside /\ target[p] \in Configs
      /\ \A q \in Processes : q # p => SameTask(tx[q], tx'[q])
  BY Targets DEF SameTask, TxInv, Shape, Locked
<1>2. ~Between(p)' /\ Remembers(p)'
  BY <1>1, OutsideFields DEF Between, At, Remembers, Planning
<1>3. ASSUME NEW q \in Processes PROVE Remembers(q)'
  BY <1>1, <1>2, <1>3, OthersRemember DEF Remembering
<1>4. ASSUME NEW c \in Configs, NEW n \in Names, <<c, n>> # Place(p),
             NEW definition, Seen(c, n, definition)'
      PROVE  Seen(c, n, definition)
  <2>1. CASE c = target[p]
    <3>1. Own(p, n)' = Own(p, n)
      BY <1>2, <1>4, <2>1 DEF Own, Place, Desc
    <3> QED BY <1>1, <1>4, <2>1, <3>1, SeenIsOwn, SeenIsOwnThen
  <2>2. CASE c # target[p]
    BY <1>1, <1>4, <2>2, SeenElsewhere
  <2> QED BY <2>1, <2>2
<1> QED BY <1>3, <1>4 DEF Remembering, SeenElse

-----------------------------------------------------------------------------
(* p leaves with a configuration that shows what it showed before.         *)
LEMMA WorkFinish ==
    ASSUME TxInv, Locked, Remembering, NEW p \in Processes, stage[p] = "locked",
           \/ tx' = [tx EXCEPT ![p] = Outside]
           \/ tx' = [Moved(target[p], {p}) EXCEPT ![p] = Outside],
           target'[p] = target[p],
           \A q \in Processes : q # p => stage'[q] = stage[q] /\ target'[q] = target[q],
           \A c \in Configs : c = target[p] \/ file'[c] = file[c],
           UNCHANGED <<edits, disturbed>>,
           \A n \in Names : Undisturbed(target[p], n) =>
              file'[target[p]].servers[n] = Own(p, n)
    PROVE  Remembering' /\ SeenStays
<1>1. Shape
  BY DEF TxInv
<1>2. /\ tx'[p] = Outside
      /\ \A q \in Processes : q # p => SameTask(tx[q], tx'[q])
  BY <1>1, MovedFields DEF SameTask, Shape
<1>3. ~Between(p)' /\ Remembers(p)'
  BY <1>2, OutsideFields DEF Between, At, Remembers, Planning
<1>4. \A n : Own(p, n)' = file'[target[p]].servers[n]
  BY <1>3 DEF Own
<1> QED BY <1>2, <1>3, <1>4, WorkOn

(* Before its rename, and when there is none, nothing is to be undone.     *)
LEMMA WorkFail ==
    ASSUME TxInv, Locked, LockTypeOK', Remembering, NEW p \in Processes, stage[p] = "locked",
           NEW code, Fail(p, code), ~Between(p)
    PROVE  Remembering' /\ SeenStays
<1>1. /\ tx' = [tx EXCEPT ![p] = Outside]
      /\ \A q \in Processes : q # p => stage'[q] = stage[q] /\ target'[q] = target[q]
      /\ target'[p] = target[p]
      /\ UNCHANGED <<file, records, edits, disturbed>>
  BY DEF Fail, Finish, Leave, Enter, Locked, LockTypeOK
<1>2. \A n : file'[target[p]].servers[n] = Own(p, n)
  BY <1>1 DEF Own
<1> QED BY <1>1, <1>2, WorkFinish

(* p goes on, and no file changes.                                         *)
LEMMA WorkGoesOn ==
    ASSUME TxInv, Locked, Remembering, NEW p \in Processes, stage[p] = "locked",
           NEW u, tx' = [tx EXCEPT ![p] = u],
           UNCHANGED <<lockVars, file, edits, disturbed>>,
           Remembers(p)',
           \A n \in Names : Undisturbed(target[p], n) => Own(p, n)' = Own(p, n)
    PROVE  Remembering' /\ SeenStays
<1>1. \A q \in Processes : q # p => SameTask(tx[q], tx'[q])
  BY DEF TxInv, Shape, SameTask
<1> QED BY <1>1, WorkOn DEF lockVars

LEMMA WorkLoad ==
    ASSUME TxInv, Locked, LockTypeOK', Remembering, NEW p \in Processes, NEW j \in Jobs,
           Load(p, j)
    PROVE  Remembering' /\ SeenStays
<1>1. stage[p] = "locked" /\ ~Between(p)
  BY DEF Load, At, Between
<1>2. CASE Fail(p, "ENGINE_IDENTITY_MISMATCH")
  BY <1>1, <1>2, WorkFail
<1> DEFINE u == [step |-> "read", job |-> j, records |-> records[StateOf[p]],
                 source |-> [exists |-> file[target[p]].exists, servers |-> NoServers],
                 fresh |-> TRUE]
<1>3. CASE /\ tx' = [tx EXCEPT ![p] = u]
           /\ UNCHANGED <<lockVars, file, records, committed, edits, disturbed>>
  <2>1. tx'[p] = u /\ target[p] \in Configs /\ target' = target
    BY <1>3, Targets DEF TxInv, Shape, Locked, lockVars
  <2>2. ~Between(p)'
    BY <2>1 DEF Between, At
  <2>3. ~file[target[p]].exists => \A n \in Names : file[target[p]].servers[n] = Absent
    BY <2>1 DEF TxInv, ExistingOrEmpty, NoFile, NoServers
  <2>4. Remembers(p)'
    BY <1>3, <2>1, <2>3 DEF Remembers, Planning
  <2>5. \A n : Own(p, n)' = Own(p, n)
    BY <1>1, <1>3, <2>1, <2>2 DEF Own
  <2> QED BY <1>1, <1>3, <2>4, <2>5, WorkGoesOn
<1> QED BY <1>2, <1>3 DEF Load

LEMMA WorkRead ==
    ASSUME TxInv, Locked, LockTypeOK', Remembering, NEW p \in Processes, Read(p)
    PROVE  Remembering' /\ SeenStays
<1> DEFINE source == Source(p)
           u == Advance(tx[p], IF RewritesConfig(p, source) THEN "check" ELSE "commit",
                        source, tx[p].fresh)
<1>1. /\ stage[p] = "locked" /\ tx[p].step = "read" /\ ~Between(p)
      /\ Good(p) /\ Remembers(p) /\ tx[p] \in Tx
  BY DEF Read, At, Between, TxInv, Shape, Remembering
<1>2. CASE \E code : Fail(p, code)
  BY <1>1, <1>2, WorkFail
<1>3. CASE /\ tx' = [tx EXCEPT ![p] = u]
           /\ UNCHANGED <<lockVars, file, records, committed, edits, disturbed>>
  <2>1. \A n \in Names : Undisturbed(target[p], n) =>
           source.servers[n] = file[target[p]].servers[n]
    <3>1. CASE tx[p].source.exists
      BY <3>1 DEF Source
    <3>2. CASE ~tx[p].source.exists
      BY <1>1, <3>2 DEF Source, Good, ExistingOrEmpty, NoFile, NoServers, Remembers
    <3> QED BY <3>1, <3>2
  <2>2. /\ tx'[p] = u /\ target' = target /\ stage' = stage
        /\ u.source = source /\ u.job = tx[p].job /\ u.records = tx[p].records
        /\ u.step = IF RewritesConfig(p, source) THEN "check" ELSE "commit"
    BY <1>3 DEF TxInv, Shape, lockVars, Advance
  <2>3. (RewritesConfig(p, tx[p].source))' <=> RewritesConfig(p, source)
    BY <2>2 DEF OldRecord, Desc, Key, Found, RewritesConfig, Planned
  <2>4. ~Between(p)'
    BY <2>2, <2>3 DEF Between, At
  <2>5. Remembers(p)'
    BY <1>3, <2>1, <2>2, <2>4 DEF Remembers, Expected, Undisturbed
  <2>6. \A n : Own(p, n)' = Own(p, n)
    BY <1>1, <1>3, <2>2, <2>4 DEF Own
  <2> QED BY <1>1, <1>3, <2>5, <2>6, WorkGoesOn
<1> QED BY <1>2, <1>3 DEF Read, Plan

(* p goes to another step with the source it has read.                     *)
LEMMA WorkGoto ==
    ASSUME TxInv, Locked, Remembering, NEW p \in Processes, stage[p] = "locked",
           NEW step \in Planning, NEW fresh, tx[p].step \in Planning,
           tx' = [tx EXCEPT ![p] = Advance(tx[p], step, tx[p].source, fresh)],
           UNCHANGED <<lockVars, file, records, committed, edits, disturbed>>,
           \/ tx[p].step = "check" /\ step = "rename"
           \/ Between(p) /\ step \in {"undo", "recheck", "restore"}
    PROVE  Remembering' /\ SeenStays
<1> DEFINE u == Advance(tx[p], step, tx[p].source, fresh)
<1>1. /\ tx'[p] = u /\ target' = target /\ stage' = stage
      /\ u.source = tx[p].source /\ u.job = tx[p].job /\ u.records = tx[p].records
      /\ u.step = step
  BY DEF TxInv, Shape, lockVars, Advance
<1>2. /\ Desc(p)' = Desc(p)
      /\ (Planned(p, tx[p].source))' = Planned(p, tx[p].source)
  BY <1>1 DEF OldRecord, Desc, Key, Found, Planned
<1>3. Between(p)' <=> Between(p)
  BY <1>1 DEF Between, At
<1>4. \A n : Expected(p, n)' = Expected(p, n) /\ Own(p, n)' = Own(p, n)
  BY <1>1, <1>2, <1>3 DEF Expected, Own
<1>5. Remembers(p)'
  BY <1>1, <1>4 DEF Remembering, Remembers, Planning, Undisturbed
<1> QED BY <1>4, <1>5, WorkGoesOn

LEMMA WorkRename ==
    ASSUME TxInv, Locked, LockTypeOK', Remembering, NEW p \in Processes, Rename(p)
    PROVE  Remembering' /\ SeenStays
<1> DEFINE source == tx[p].source
           renamed == [exists  |-> TRUE,
                       servers |-> [source.servers EXCEPT
                                      ![Desc(p).name] = Planned(p, source)]]
           u == Advance(tx[p], "commit", source, tx[p].fresh)
<1>1. /\ Shape /\ Good(p) /\ Remembers(p) /\ tx[p] \in Tx /\ target[p] \in Configs
      /\ stage[p] = "locked" /\ tx[p].step = "rename" /\ source \in File /\ ~Between(p)
  BY Targets, TxFields DEF TxInv, Shape, Locked, Rename, At, Remembering, Between
<1>2. /\ file' = [file EXCEPT ![target[p]] = renamed]
      /\ tx' = [Moved(target[p], {p}) EXCEPT ![p] = u]
      /\ UNCHANGED <<lockVars, records, committed, edits, disturbed>>
  BY DEF Rename
<1>3. /\ u.step = "commit" /\ u.source = source
      /\ u.job = tx[p].job /\ u.records = tx[p].records
  BY DEF Advance
<1>4. tx'[p] = u /\ \A q \in Processes : q # p => SameTask(tx[q], tx'[q])
  BY <1>1, <1>2, MovedFields DEF SameTask
<1>5. stage' = stage /\ target' = target
  BY <1>2 DEF lockVars
<1>6. /\ Desc(p)' = Desc(p)
      /\ (Planned(p, tx[p].source))' = Planned(p, source)
      /\ (RewritesConfig(p, tx[p].source))' <=> RewritesConfig(p, source)
  BY <1>3, <1>4, <1>5 DEF OldRecord, Desc, Key, Found, RewritesConfig, Planned
<1>7. Between(p)'
  BY <1>1, <1>3, <1>4, <1>5, <1>6 DEF Between, At, Good
<1>8. file'[target[p]] = renamed
  BY <1>1, <1>2 DEF Shape
<1>9. \A n \in Names : renamed.servers[n] =
         IF n = Desc(p).name THEN Planned(p, source) ELSE source.servers[n]
  BY <1>1 DEF File
<1>10. Remembers(p)'
  BY <1>3, <1>4, <1>5, <1>6, <1>7, <1>8, <1>9 DEF Remembers, Expected
<1>11. \A n \in Names : Undisturbed(target[p], n) =>
          source.servers[n] = file[target[p]].servers[n]
  BY <1>1 DEF Remembers, Expected, Planning, Steps
<1>12. \A n \in Names : Undisturbed(target[p], n) => Own(p, n)' = Own(p, n)
  BY <1>1, <1>3, <1>4, <1>5, <1>6, <1>7, <1>8, <1>9, <1>11 DEF Own
<1>13. \A c \in Configs : c = target[p] \/ file'[c] = file[c]
  BY <1>1, <1>2 DEF Shape
<1> QED BY <1>1, <1>2, <1>4, <1>5, <1>10, <1>12, <1>13, WorkOn
        DEF Undisturbed

LEMMA WorkRestore ==
    ASSUME TxInv, Locked, LockTypeOK', Remembering, NEW p \in Processes, Restore(p)
    PROVE  Remembering' /\ SeenStays
<1>1. /\ Shape /\ Remembers(p) /\ stage[p] = "locked" /\ target[p] \in Configs
      /\ tx[p].step = "restore" /\ Between(p)
  BY Targets DEF TxInv, Restore, At, Locked, Remembering, Between
<1>2. /\ file' = [file EXCEPT ![target[p]] = tx[p].source]
      /\ tx' = [Moved(target[p], {p}) EXCEPT ![p] = Outside]
      /\ UNCHANGED <<records, committed, edits, disturbed>>
      /\ \A q \in Processes : q # p => stage'[q] = stage[q] /\ target'[q] = target[q]
      /\ target'[p] = target[p]
  BY DEF Restore, Leave, Enter, Locked, LockTypeOK
<1>3. /\ file'[target[p]] = tx[p].source
      /\ \A c \in Configs : c = target[p] \/ file'[c] = file[c]
  BY <1>1, <1>2 DEF Shape
<1>4. \A n \in Names : Undisturbed(target[p], n) =>
         file'[target[p]].servers[n] = Own(p, n)
  BY <1>1, <1>2, <1>3 DEF Own, Remembers, Expected, Planning, Steps, Undisturbed
<1> QED BY <1>1, <1>2, <1>3, <1>4, WorkFinish


(* Clients, and processes that come and go outside the locks.              *)
LEMMA WorkElsewhere ==
    ASSUME TxInv, LockTypeOK, Remembering,
           disturbed \subseteq disturbed', edits' = 0 => edits = 0,
           \A c \in Configs, n \in Names : Undisturbed(c, n)' =>
              file'[c].servers[n] = file[c].servers[n],
           \A q \in Processes :
              \/ /\ stage'[q] = stage[q] /\ target'[q] = target[q]
                 /\ SameTask(tx[q], tx'[q])
              \/ tx[q].step = "load" /\ tx'[q].step = "load"
    PROVE  Remembering' /\ SeenStays
<1>1. ASSUME NEW q \in Processes
      PROVE  /\ \A c, n : InHand(q, c, n)' <=> InHand(q, c, n)
             /\ \A c, n : InHand(q, c, n) => tx'[q].source = tx[q].source
             /\ Remembers(q)'
  <2>1. CASE /\ stage'[q] = stage[q] /\ target'[q] = target[q]
             /\ SameTask(tx[q], tx'[q])
    <3>1. Remembers(q) /\ target[q] \in Configs
      BY Targets DEF Remembering
    <3>2. Remembers(q)'
      BY <2>1, <3>1, SameHand DEF Remembers, SameTask, Undisturbed
    <3> QED BY <2>1, <3>2, SameHand DEF SameTask
  <2>2. CASE tx[q].step = "load" /\ tx'[q].step = "load"
    BY <2>2 DEF InHand, Between, At, Remembers, Planning
  <2> QED BY <2>1, <2>2
<1>2. ASSUME NEW c \in Configs, NEW n \in Names, Undisturbed(c, n)',
             NEW definition, Seen(c, n, definition)'
      PROVE  Seen(c, n, definition)
  BY <1>1, <1>2 DEF Seen
<1> QED BY <1>1, <1>2 DEF Remembering, SeenStays

(* What a commit finds in the file, and what was seen there before it.     *)
LEMMA AtCommit ==
    ASSUME TxInv, Locked, Remembering, NEW p \in Processes, Commit(p)
    PROVE  /\ Writes(OldRecord(p), Desc(p), Found(p, tx[p].source), tx[p].job.action)
           /\ Undisturbed(target[p], Desc(p).name) =>
                 /\ file[target[p]].servers[Desc(p).name] = Planned(p, tx[p].source)
                 /\ Own(p, Desc(p).name) = Found(p, tx[p].source)
<1>1. /\ Good(p) /\ Remembers(p) /\ stage[p] = "locked" /\ tx[p].step = "commit"
      /\ Desc(p).name \in Names
  BY TxFields, JobFields DEF TxInv, Shape, Commit, At, Remembering, Desc
<1>2. Undisturbed(target[p], Desc(p).name) =>
         file[target[p]].servers[Desc(p).name] = Expected(p, Desc(p).name)
  BY <1>1 DEF Remembers, Planning, Steps
<1>3. Between(p) <=> Planned(p, tx[p].source) # Found(p, tx[p].source)
  BY <1>1 DEF Between, At, RewritesConfig
<1> QED BY <1>1, <1>2, <1>3 DEF Expected, Own, Found, Good, Planning, Steps

LEMMA CommitShows ==
    ASSUME TxInv, Locked, LockTypeOK', Remembering, NEW p \in Processes, Commit(p)
    PROVE  Remembering' /\ SeenElse(p)
<1>1. /\ stage[p] = "locked" /\ tx' = [tx EXCEPT ![p] = Outside]
      /\ UNCHANGED <<file, edits, disturbed>> /\ target'[p] = target[p]
      /\ \A q \in Processes : q # p => stage'[q] = stage[q] /\ target'[q] = target[q]
  BY DEF Commit, At, Finish, Leave, Enter, Locked, LockTypeOK
<1> QED BY <1>1, WorkEnds

(* Every step: what is seen stays, unless p commits, or ends between its   *)
(* renames.                                                                *)
WorkDone(p) ==
    /\ Commit(p) \/ (Between(p) /\ (Dies(p) \/ UndoFails(p)))
    /\ SeenElse(p)

WorkSteps == Remembering' /\ (SeenStays \/ \E p \in Processes : WorkDone(p))

LEMMA Works ==
    ASSUME TxInv, Locked, LockTypeOK', Remembering, [Next]_vars PROVE WorkSteps
<1>1. \A q \in Processes : stage[q] # "locked" => tx[q].step = "load"
  BY DEF TxInv, Good
<1>2. ASSUME UNCHANGED <<file, records, tx, edits, disturbed>>,
             \A q \in Processes :
                \/ stage[q] # "locked"
                \/ stage'[q] = stage[q] /\ target'[q] = target[q]
      PROVE  WorkSteps
  BY <1>1, <1>2, WorkElsewhere DEF WorkSteps, SameTask, Locked
<1>3. ASSUME NEW p \in Processes, NEW c \in Configs, Begin(p, c) PROVE WorkSteps
  <2>1. \A q \in Processes :
           \/ stage[q] # "locked"
           \/ stage'[q] = stage[q] /\ target'[q] = target[q]
    BY <1>3 DEF Begin, Acquire, Enter, Locked, LockTypeOK
  <2> QED BY <1>2, <1>3, <2>1 DEF Begin
<1>4. ASSUME NEW p \in Processes, LockStep(p) \/ Cancel(p), UNCHANGED txVars
      PROVE  WorkSteps
  <2>1. \A q \in Processes :
           \/ stage[q] # "locked"
           \/ stage'[q] = stage[q] /\ target'[q] = target[q]
    BY <1>4 DEF LockStep, Cancelled, Create, CreateFails, Contended, Fill, FillFails,
                UnlockConfig, UnlockState, Abandon, Cancel, GivesUp, Enter, MayCreate,
                Waiting, Locked, LockTypeOK
  <2> QED BY <1>2, <1>4, <2>1 DEF txVars
<1>5. ASSUME NEW p \in Processes, TransactionStep(p) PROVE WorkSteps
  <2>1. /\ stage[p] = "locked" /\ tx[p] \in Tx
    BY <1>5 DEF TransactionStep, Load, Read, ReadFails, Check, WriteFails, Rename,
                Commit, CommitFails, Undo, Recheck, Restore, UndoFails, At, TxInv, Shape
  <2>2. ASSUME ReadFails(p) \/ WriteFails(p) PROVE WorkSteps
    BY <2>1, <2>2, WorkFail DEF WorkSteps, ReadFails, WriteFails, Between, At
  <2>3. ASSUME Check(p) \/ Undo(p) \/ Recheck(p) PROVE WorkSteps
    <3>1. PICK step \in {"rename", "recheck", "restore"}, fresh \in BOOLEAN :
            /\ tx' = [tx EXCEPT ![p] = Advance(tx[p], step, tx[p].source, fresh)]
            /\ tx[p].step \in {"check", "undo", "recheck"}
            /\ tx[p].step = "check" <=> step = "rename"
      <4>1. CASE Check(p)
        BY <2>1, <4>1, TxFields DEF Check, Goto, At, TxInv, Shape
      <4>2. CASE Undo(p)
        BY <4>2 DEF Undo, At, TxInv, Shape
      <4>3. CASE Recheck(p)
        BY <2>1, <4>3, TxFields DEF Recheck, Goto, At, TxInv, Shape
      <4> QED BY <2>3, <4>1, <4>2, <4>3
    <3>2. UNCHANGED <<lockVars, file, records, committed, edits, disturbed>>
      BY <2>3 DEF Check, Undo, Recheck, Goto
    <3>3. step \in Planning /\ tx[p].step \in Planning
      BY <3>1 DEF Planning, Steps
    <3>4. tx[p].step # "check" => Between(p)
      BY <2>1, <3>1 DEF Between, At
    <3> QED BY <2>1, <3>1, <3>2, <3>3, <3>4, WorkGoto DEF WorkSteps
  <2>4. ASSUME CommitFails(p) PROVE WorkSteps
    <3>1. tx[p].step = "commit" /\ tx[p].step \in Planning /\ "undo" \in Planning
      BY <2>4 DEF CommitFails, At, Planning, Steps
    <3>2. CASE RewritesConfig(p, tx[p].source) /\ Goto(p, "undo")
      <4>1. Between(p)
        BY <2>1, <3>1, <3>2 DEF Between, At
      <4>2. /\ tx' = [tx EXCEPT ![p] = Advance(tx[p], "undo", tx[p].source, tx[p].fresh)]
            /\ UNCHANGED <<lockVars, file, records, committed, edits, disturbed>>
        BY <3>2 DEF Goto, TxInv, Shape
      <4> QED BY <2>1, <3>1, <4>1, <4>2, WorkGoto DEF WorkSteps
    <3>3. CASE ~RewritesConfig(p, tx[p].source) /\ Fail(p, "STATE_WRITE_FAILED")
      BY <2>1, <3>1, <3>3, WorkFail DEF WorkSteps, Between, At
    <3> QED BY <2>4, <3>2, <3>3 DEF CommitFails
  <2>5. ASSUME UndoFails(p) PROVE WorkSteps
    <3>1. /\ tx' = [tx EXCEPT ![p] = Outside]
          /\ disturbed' = disturbed \cup {Place(p)}
          /\ UNCHANGED <<file, records, edits>> /\ target'[p] = target[p]
          /\ \A q \in Processes : q # p => stage'[q] = stage[q] /\ target'[q] = target[q]
      BY <2>5 DEF UndoFails, Finish, Leave, Enter, Locked, LockTypeOK
    <3>2. Between(p)
      BY <2>1, <2>5 DEF UndoFails, Between, At
    <3> QED BY <2>1, <2>5, <3>1, <3>2, WorkEnds DEF WorkSteps, WorkDone
  <2>6. ASSUME Commit(p) PROVE WorkSteps
    BY <2>6, CommitShows DEF WorkSteps, WorkDone
  <2> QED BY <1>5, <2>2, <2>3, <2>4, <2>5, <2>6, WorkLoad, WorkRead, WorkRename,
             WorkRestore DEF TransactionStep, WorkSteps
<1>6. ASSUME NEW p \in Processes, Dies(p) PROVE WorkSteps
  <2>1. /\ tx' = [tx EXCEPT ![p] = Outside]
        /\ disturbed' = disturbed \cup (IF Between(p) THEN {Place(p)} ELSE {})
        /\ UNCHANGED <<file, records, edits>> /\ target' = target
        /\ \A q \in Processes : q # p => stage'[q] = stage[q]
    BY <1>6 DEF Dies, Crash, Enter, Locked, LockTypeOK
  <2>2. CASE stage[p] = "locked"
    <3>1. CASE Between(p)
      BY <1>6, <2>1, <2>2, <3>1, WorkEnds DEF WorkSteps, WorkDone
    <3>2. CASE ~Between(p)
      <4>1. \A n : file'[target[p]].servers[n] = Own(p, n)
        BY <2>1, <3>2 DEF Own
      <4> QED BY <2>1, <2>2, <3>2, <4>1, WorkFinish DEF WorkSteps
    <3> QED BY <3>1, <3>2
  <2>3. CASE stage[p] # "locked"
    <3>1. tx'[p].step = "load" /\ \A q \in Processes : q # p => SameTask(tx[q], tx'[q])
      BY <2>1, OutsideFields DEF SameTask, TxInv, Shape
    <3> QED BY <1>1, <2>1, <2>3, <3>1, WorkElsewhere DEF WorkSteps, Locked
  <2> QED BY <2>2, <2>3
<1>7. ASSUME NEW l \in Locks, OperatorClears(l), UNCHANGED txVars PROVE WorkSteps
  BY <1>2, <1>7 DEF OperatorClears, txVars
<1>8. ASSUME NEW c \in Configs, NEW n \in Names, NEW definition \in Definition,
             NEW b \in BOOLEAN, Edit(c, n, definition, b)
      PROVE  WorkSteps
  <2>1. /\ disturbed' = disturbed \cup {<<c, n>>}
        /\ UNCHANGED <<records, stage, target>>
        /\ file' = [file EXCEPT ![c] =
                      [exists |-> TRUE, servers |-> [file[c].servers EXCEPT ![n] = definition]]]
    BY <1>8 DEF Edit, lockVars, TxInv, Shape
  <2>2. \A d \in Configs, m \in Names : Undisturbed(d, m)' =>
           file'[d].servers[m] = file[d].servers[m]
    BY <1>8, <2>1 DEF TxInv, Shape, File, Undisturbed, Edit
  <2>3. \A q \in Processes : SameTask(tx[q], tx'[q])
    BY <1>8, MovedFields DEF Edit, SameTask, TxInv
  <2>4. edits' = 0 => edits = 0
    BY <1>8 DEF Edit, TxInv, Shape
  <2> QED BY <2>1, <2>2, <2>3, <2>4, WorkElsewhere DEF WorkSteps, Locked
<1>9. CASE UNCHANGED vars
  BY <1>2, <1>9 DEF vars, lockVars, txVars
<1> QED BY <1>3, <1>4, <1>5, <1>6, <1>7, <1>8, <1>9 DEF Next

-----------------------------------------------------------------------------
(* The commit: the definition p has written becomes the one that is seen,  *)
(* together with the record that agrees with it.                           *)
LEMMA RecordsCommit ==
    ASSUME TxInv, Locked, LockTypeOK', Remembering, RecordsAgree,
           Strategy = "native" \/ NamesApart,
           NEW p \in Processes, Commit(p), SeenElse(p)
    PROVE  RecordsAgree'
<1> DEFINE source == tx[p].source
           mine == Key(p)
           name == Desc(p).name
           old == OldRecord(p)
           found == Found(p, source)
           post == PostRecord(old, Desc(p), found, tx[p].job.action)
           planned == Planned(p, source)
<1>1. /\ Shape /\ Good(p) /\ Remembers(p) /\ tx[p] \in Tx /\ source \in File
      /\ StateOf[p] \in States /\ target[p] \in Configs
      /\ stage[p] = "locked" /\ tx[p].step = "commit"
  BY Targets, TxFields DEF TxInv, Shape, Locked, Commit, At, Remembering
<1>2. /\ records' = [records EXCEPT ![StateOf[p]] = Recorded(p, source)]
      /\ tx' = [tx EXCEPT ![p] = Outside]
      /\ UNCHANGED <<file, edits, disturbed>>
      /\ \A q \in Processes : q # p => stage'[q] = stage[q] /\ target'[q] = target[q]
      /\ target'[p] = target[p]
  BY DEF Commit, Finish, Leave, Enter, Locked, LockTypeOK
<1>3. Writes(old, Desc(p), found, tx[p].job.action)
  BY <1>1 DEF Good, Planning, Steps
<1>4. /\ mine \in Keys /\ Desc(p) \in Descriptor /\ tx[p].job.action \in Actions
      /\ old \in Record /\ found \in Definition /\ planned \in Definition
      /\ tx[p].job \in Jobs /\ name \in Names
      /\ Desc(p).entry \in Entries /\ mine = <<Desc(p).entry, target[p]>>
  BY <1>1, <1>3, PlanTyped, TxFields, JobFields DEF Locked, Desc, Key
<1>5. /\ \A q \in Processes : q # p => SameTask(tx[q], tx'[q])
      /\ tx'[p] = Outside /\ ~Between(p)'
  BY <1>1, <1>2, OutsideFields DEF SameTask, Shape, Between, At
<1>6. /\ tx[p].records = records[StateOf[p]] /\ old = records[StateOf[p]][mine]
  BY <1>1 DEF Good, OldRecord
<1>7. \A s \in States, k \in Keys :
         records'[s][k] = IF s = StateOf[p] /\ k = mine THEN post ELSE records[s][k]
  BY <1>1, <1>2, <1>4, <1>6 DEF Shape, Recorded
<1>8. /\ post.kept => post.name = name
      /\ post.kept => ~Drifted(post, [name |-> post.name], planned)
  <2>1. post.kept => ~Drifted(post, Desc(p), planned)
    BY <1>3, <1>4, PostAgrees DEF Planned
  <2> QED BY <2>1 DEF Drifted
(* What is in the file, and what was seen there.                           *)
<1>9. <<target[p], name>> \notin disturbed =>
         /\ file[target[p]].servers[name] = planned
         /\ Own(p, name) = found
  BY AtCommit DEF Undisturbed
<1>11. \A n : Own(p, n)' = file[target[p]].servers[n]
  BY <1>2, <1>5 DEF Own
(* Nothing else is recorded under the name.                                *)
<1>13. ASSUME NEW t \in States, NEW f \in Entries,
              records[t][<<f, target[p]>>].kept,
              records[t][<<f, target[p]>>].name = name,
              <<target[p], name>> \notin disturbed
       PROVE  t = StateOf[p] /\ f = Desc(p).entry
  <2>1. CASE NamesApart
    <3>1. PICK j \in Jobs : j.d.entry = f /\ j.d.name = name
      BY <1>1, <1>13 DEF RecordsAgree, WasAsked
    <3> QED BY <1>1, <1>4, <2>1, <3>1 DEF NamesApart, Desc
  <2>2. CASE Strategy = "native"
    <3> DEFINE r == records[t][<<f, target[p]>>]
    <3>1. Seen(target[p], name, found)
      BY <1>1, <1>9, <1>13, SeenIsOwn
    <3>2. ~Drifted(r, [name |-> name], found)
      BY <1>1, <1>4, <1>13, <3>1 DEF RecordsAgree, Faithful
    <3>3. found.present
      BY <2>2, <3>2 DEF Drifted
    <3>4. tx[p].job.action # "adopt"
      BY <1>4, Constants DEF Job
    <3>5. old.kept
      BY <1>3, <1>4, <3>3, <3>4, WritesWhen
    <3>6. old.name = name
      BY <1>3, <1>4, <3>5, WritesWhen, Undrifted
    <3> QED BY <1>1, <1>4, <1>6, <1>13, <3>5, <3>6 DEF RecordsAgree, Alone
  <2> QED BY <2>1, <2>2
<1> HIDE DEF source, mine, name, old, found, post, planned
<1>15. ASSUME NEW s \in States, NEW c \in Configs, NEW e \in Entries
       PROVE  Faithful(s, c, e)' /\ WasAsked(s, c, e)'
  <2> DEFINE r == records[s][<<e, c>>]
  <2>1. <<e, c>> \in Keys /\ r \in Record /\ (r.kept => r.name \in Names)
    BY <1>1, Absences, Shapes DEF Shape, Keys
  <2>2. Faithful(s, c, e) /\ WasAsked(s, c, e)
    BY DEF RecordsAgree
  <2>3. CASE s = StateOf[p] /\ <<e, c>> = mine
    <3>1. records'[s][<<e, c>>] = post /\ c = target[p] /\ e = Desc(p).entry
      BY <1>4, <1>7, <2>1, <2>3
    <3>2. ASSUME NEW n \in Names, n = name, <<c, n>> \notin disturbed,
                 NEW definition, Seen(c, n, definition)'
          PROVE  definition = planned
      <4>1. Seen(target[p], n, definition)'
        BY <1>2, <3>1, <3>2
      <4>2. definition = Own(p, n)'
        BY <1>1, <1>2, <1>5, <4>1, SeenIsOwnThen
      <4> QED BY <1>9, <1>11, <3>1, <3>2, <4>2
    <3>3. Faithful(s, c, e)'
      BY <1>2, <1>4, <1>8, <3>1, <3>2 DEF Faithful
    <3>4. WasAsked(s, c, e)'
      BY <1>4, <1>8, <3>1 DEF WasAsked, Desc, name
    <3> QED BY <3>3, <3>4
  <2>4. CASE ~(s = StateOf[p] /\ <<e, c>> = mine)
    <3>1. records'[s][<<e, c>>] = r
      BY <1>7, <2>1, <2>4
    <3>2. ASSUME NEW n \in Names, r.kept, n = r.name, <<c, n>> \notin disturbed,
                 NEW definition, Seen(c, n, definition)'
          PROVE  Seen(c, n, definition)
      <4>1. <<c, n>> # Place(p)
        BY <1>4, <1>13, <2>4, <3>2 DEF Place, Desc, name
      <4> QED BY <1>2, <3>2, <4>1 DEF SeenElse, Undisturbed
    <3>3. Faithful(s, c, e)'
      BY <1>2, <2>1, <2>2, <3>1, <3>2 DEF Faithful
    <3>4. WasAsked(s, c, e)'
      BY <2>2, <3>1 DEF WasAsked
    <3> QED BY <3>3, <3>4
  <2> QED BY <2>3, <2>4
<1>16. ASSUME NEW s \in States, NEW t \in States, NEW c \in Configs,
              NEW e \in Entries, NEW f \in Entries
       PROVE  Alone(s, t, c, e, f)'
  <2>1. Alone(s, t, c, e, f) /\ <<e, c>> \in Keys /\ <<f, c>> \in Keys
    BY DEF RecordsAgree, Keys
  <2>2. CASE s = StateOf[p] /\ <<e, c>> = mine /\ ~(t = StateOf[p] /\ <<f, c>> = mine)
    <3>1. /\ records'[s][<<e, c>>] = post /\ records'[t][<<f, c>>] = records[t][<<f, c>>]
          /\ c = target[p]
      BY <1>4, <1>7, <2>1, <2>2
    <3> QED BY <1>2, <1>4, <1>8, <1>13, <2>2, <3>1 DEF Alone
  <2>3. CASE t = StateOf[p] /\ <<f, c>> = mine /\ ~(s = StateOf[p] /\ <<e, c>> = mine)
    <3>1. /\ records'[t][<<f, c>>] = post /\ records'[s][<<e, c>>] = records[s][<<e, c>>]
          /\ c = target[p]
      BY <1>4, <1>7, <2>1, <2>3
    <3> QED BY <1>2, <1>4, <1>8, <1>13, <2>3, <3>1 DEF Alone
  <2>4. CASE s = StateOf[p] /\ <<e, c>> = mine /\ t = StateOf[p] /\ <<f, c>> = mine
    BY <1>4, <2>4 DEF Alone
  <2>5. CASE ~(s = StateOf[p] /\ <<e, c>> = mine) /\ ~(t = StateOf[p] /\ <<f, c>> = mine)
    <3>1. /\ records'[s][<<e, c>>] = records[s][<<e, c>>]
          /\ records'[t][<<f, c>>] = records[t][<<f, c>>]
      BY <1>7, <2>1, <2>5
    <3> QED BY <1>2, <2>1, <3>1 DEF Alone
  <2> QED BY <2>2, <2>3, <2>4, <2>5
<1> QED BY <1>15, <1>16 DEF RecordsAgree


(* Any other step: the records stay, and what is no longer seen is among   *)
(* the disturbed.                                                          *)
LEMMA RecordsStay ==
    ASSUME TxInv, RecordsAgree, UNCHANGED records, disturbed \subseteq disturbed',
           \/ SeenStays
           \/ \E p \in Processes : SeenElse(p) /\ Place(p) \in disturbed'
    PROVE  RecordsAgree'
<1>1. ASSUME NEW c \in Configs, NEW n \in Names, <<c, n>> \notin disturbed',
             NEW definition, Seen(c, n, definition)'
      PROVE  Seen(c, n, definition)
  BY <1>1 DEF SeenStays, SeenElse, Undisturbed
<1>2. ASSUME NEW s \in States, NEW c \in Configs, NEW e \in Entries
      PROVE  Faithful(s, c, e)' /\ WasAsked(s, c, e)'
  <2>1. records[s][<<e, c>>] \in Record
    BY DEF TxInv, Shape, Keys
  <2>2. records[s][<<e, c>>].kept => records[s][<<e, c>>].name \in Names
    BY <2>1, Absences, Shapes
  <2> QED BY <1>1, <2>2 DEF RecordsAgree, Faithful, WasAsked
<1> QED BY <1>2 DEF RecordsAgree, Alone

(* Only a commit changes a record.                                         *)
LEMMA OnlyCommitRecords ==
    ASSUME [Next]_vars
    PROVE  /\ disturbed \subseteq disturbed'
           /\ UNCHANGED records \/ \E p \in Processes : Commit(p)
BY DEF Next, vars, txVars, Begin, TransactionStep, Load, Read, Plan, ReadFails, Check,
       WriteFails, Rename, Commit, CommitFails, Undo, Recheck, Restore, UndoFails, Dies,
       Edit, Fail, Goto

LEMMA WorkInitially == Init => Remembering /\ RecordsAgree
<1> SUFFICES ASSUME Init PROVE Remembering /\ RecordsAgree
  OBVIOUS
<1>1. ASSUME NEW p \in Processes PROVE Remembers(p)
  BY OutsideFields DEF Init, Remembers, Planning
<1>2. \A s \in States, k \in Keys : ~records[s][k].kept
  BY Absences DEF Init, NoRecords
<1> QED BY <1>1, <1>2 DEF Remembering, RecordsAgree, Faithful, WasAsked, Alone, Keys

LEMMA WorkInvariance == Spec => []Remembering
<1>1. TxInv /\ Locked /\ LockTypeOK' /\ Remembering /\ [Next]_vars => Remembering'
  BY Works DEF WorkSteps
<1> QED BY <1>1, WorkInitially, TxInvariance, TransactionsExclude, PTL DEF Spec, Locked

LEMMA RecordsStep ==
    ASSUME Strategy = "native" \/ NamesApart,
           TxInv, Locked, LockTypeOK', Remembering, RecordsAgree, [Next]_vars
    PROVE  RecordsAgree'
<1>1. CASE SeenStays /\ UNCHANGED records
  BY <1>1, RecordsStay, OnlyCommitRecords
<1>2. ASSUME NEW p \in Processes, WorkDone(p) PROVE RecordsAgree'
  <2>1. CASE Commit(p)
    BY <1>2, <2>1, RecordsCommit DEF WorkDone
  <2>2. CASE Between(p) /\ (Dies(p) \/ UndoFails(p))
    <3>1. Place(p) \in disturbed' /\ UNCHANGED records
      BY <2>2 DEF Dies, UndoFails
    <3> QED BY <1>2, <3>1, RecordsStay, OnlyCommitRecords DEF WorkDone
  <2> QED BY <1>2, <2>1, <2>2 DEF WorkDone
<1>3. ASSUME NEW p \in Processes, Commit(p) PROVE RecordsAgree'
  BY <1>3, RecordsCommit, CommitShows
<1> QED BY <1>1, <1>2, <1>3, Works, OnlyCommitRecords DEF WorkSteps

(* ADR 0013, steps 3 to 5, for every number of processes, state files,     *)
(* entries and clients: a recorded installation whose definition differs   *)
(* from its record has been disturbed, or a transaction is between its two *)
(* renames.  The clients have a toggle, or names belong to one entry.      *)
THEOREM FilesAgreeAlways ==
    ASSUME Strategy = "native" \/ NamesApart
    PROVE  Spec => []FilesAgree
<1>1. TxInv /\ RecordsAgree => FilesAgree
  <2> SUFFICES ASSUME TxInv, RecordsAgree,
                      NEW s \in States, NEW c \in Configs, NEW e \in Entries,
                      <<c, records[s][<<e, c>>].name>> \notin disturbed,
                      ~\E p \in Processes : target[p] = c /\ Between(p)
               PROVE  Agrees(s, c, e)
    BY DEF FilesAgree
  <2> DEFINE r == records[s][<<e, c>>]
  <2>1. r \in Record /\ file[c] \in File
    BY DEF TxInv, Shape, Keys
  <2>2. r.kept => file[c].servers[r.name] \in Definition
    BY <2>1, Absences, Shapes DEF File
  <2>3. Seen(c, r.name, file[c].servers[r.name])
    BY DEF Seen, InHand, Place
  <2> QED BY <2>2, <2>3 DEF RecordsAgree, Faithful, Agrees
<1>2. TxInv /\ Locked /\ LockTypeOK' /\ Remembering /\ RecordsAgree /\ [Next]_vars =>
        RecordsAgree'
  BY RecordsStep
<1>3. Spec => []RecordsAgree
  BY <1>2, WorkInitially, WorkInvariance, TxInvariance, TransactionsExclude, PTL
  DEF Spec, Locked
<1> QED BY <1>1, <1>3, TxInvariance, PTL

-----------------------------------------------------------------------------
(* The transactions of an entry implement ManagedInstallation.             *)

LEMMA LifePlans ==
    /\ Life!Definition = Definition /\ Life!NoRecord = NoRecord /\ Life!Actions = Actions
    /\ \A r, d, current, action :
          /\ Life!Writes(r, d, current, action) <=> Writes(r, d, current, action)
          /\ Life!PostDefinition(r, d, current, action) =
                PostDefinition(r, d, current, action)
          /\ Life!PostRecord(r, d, current, action) = PostRecord(r, d, current, action)
<1>1. /\ Life!Definition = Definition /\ Life!NoRecord = NoRecord
      /\ Life!Actions = Actions
  BY DEF Life!Definition, Definition, Life!Absent, Absent, Life!Present, Present,
         Life!NoRecord, NoRecord, Life!Actions, Actions
<1>2. ASSUME NEW r, NEW d, NEW current
      PROVE  Life!Drifted(r, d, current) <=> Drifted(r, d, current)
  BY DEF Life!Drifted, Drifted
<1>3. ASSUME NEW r, NEW d, NEW current
      PROVE  Life!Status(r, d, current) = Status(r, d, current)
  BY <1>2 DEF Life!Status, Status
<1>4. ASSUME NEW r, NEW d, NEW current, NEW action
      PROVE  Life!Writes(r, d, current, action) <=> Writes(r, d, current, action)
  BY <1>3 DEF Life!Writes, Writes, Life!Blocked, Blocked, Life!Unchanged, Unchanged
<1>5. ASSUME NEW r, NEW d, NEW current, NEW action
      PROVE  Life!PostDefinition(r, d, current, action) =
                PostDefinition(r, d, current, action)
  BY DEF Life!PostDefinition, PostDefinition, Life!Present, Present, Life!Absent, Absent
<1>6. ASSUME NEW r, NEW d, NEW current, NEW action
      PROVE  Life!PostRecord(r, d, current, action) = PostRecord(r, d, current, action)
  BY DEF Life!PostRecord, PostRecord, Life!Kept, Kept, Life!NoRecord, NoRecord
<1> QED BY <1>1, <1>4, <1>5, <1>6

(* Shown is what is seen.                                                  *)
SeenIsShown ==
    \A n \in Names : \A definition :
        Seen(observedConfig, n, definition) <=> definition = Shown[n]

LEMMA ShownIsSeen == Locked => SeenIsShown
<1> SUFFICES ASSUME Locked, NEW n \in Names
             PROVE  \A definition :
                       Seen(observedConfig, n, definition) <=> definition = Shown[n]
  BY DEF SeenIsShown
<1>1. CASE \E p \in Processes : InHand(p, observedConfig, n)
  <2> DEFINE holder == CHOOSE p \in Processes : InHand(p, observedConfig, n)
  <2>1. holder \in Processes /\ InHand(holder, observedConfig, n)
    BY <1>1
  <2> HIDE DEF holder
  <2>2. \A q \in Processes : InHand(q, observedConfig, n) => q = holder
    BY <2>1, OneHand DEF InHand, Place, Between, At
  <2>3. Shown[n] = tx[holder].source.servers[n]
    BY <1>1 DEF Shown, holder
  <2> QED BY <2>1, <2>2, <2>3 DEF Seen
<1>2. CASE ~\E p \in Processes : InHand(p, observedConfig, n)
  BY <1>2 DEF Seen, Shown
<1> QED BY <1>1, <1>2

(* A step that leaves what is seen, and one that changes one definition.   *)
LEMMA ShownStays ==
    ASSUME SeenIsShown, SeenIsShown', SeenStays, edits' = 0
    PROVE  Shown' = Shown
<1>1. \A n \in Names : Shown'[n] = Shown[n]
  BY ObservedAssumption DEF SeenIsShown, SeenStays, Undisturbed
<1> QED BY <1>1 DEF Shown

LEMMA ShownElse ==
    ASSUME SeenIsShown, SeenIsShown', NEW p \in Processes, SeenElse(p), edits' = 0
    PROVE  /\ target[p] # observedConfig => Shown' = Shown
           /\ Shown' = [Shown EXCEPT ![Desc(p).name] = Shown'[Desc(p).name]]
<1>1. \A n \in Names : <<observedConfig, n>> # Place(p) => Shown'[n] = Shown[n]
  BY ObservedAssumption DEF SeenIsShown, SeenElse, Undisturbed
<1>2. \A n : <<observedConfig, n>> = Place(p) <=>
                 target[p] = observedConfig /\ n = Desc(p).name
  BY DEF Place, Desc
<1>3. Shown = [n \in Names |-> Shown[n]] /\ Shown' = [n \in Names |-> Shown'[n]]
  BY DEF Shown
<1>4. \A n \in Names : (target[p] # observedConfig \/ n # Desc(p).name) => Shown'[n] = Shown[n]
  BY <1>1, <1>2
<1>5. target[p] # observedConfig => Shown' = Shown
  BY <1>3, <1>4
<1>6. Shown' = [Shown EXCEPT ![Desc(p).name] = Shown'[Desc(p).name]]
  <2>1. \A n \in Names :
            Shown'[n] = [Shown EXCEPT ![Desc(p).name] = Shown'[Desc(p).name]][n]
    BY <1>3, <1>4
  <2> QED BY <1>3, <2>1
<1> QED BY <1>5, <1>6

(* What p leaves behind in the observed configuration.                     *)
LEMMA ShownAfter ==
    ASSUME TxInv, Locked, LockTypeOK', SeenIsShown, SeenIsShown',
           NEW p \in Processes, stage[p] = "locked", target[p] = observedConfig,
           Commit(p) \/ Dies(p) \/ UndoFails(p)
    PROVE  /\ Shown[Desc(p).name] = Own(p, Desc(p).name)
           /\ Shown'[Desc(p).name] = file[target[p]].servers[Desc(p).name]
           /\ Shown'[Desc(p).name] \in Definition
<1>1. Desc(p).name \in Names /\ target[p] \in Configs
  BY TxFields, JobFields, Targets DEF TxInv, Shape, Locked, Desc
<1>2. /\ tx' = [tx EXCEPT ![p] = Outside] /\ target'[p] = target[p] /\ file' = file
      /\ \A q \in Processes : q # p => stage'[q] = stage[q] /\ target'[q] = target[q]
  BY DEF Commit, UndoFails, Finish, Leave, Dies, Crash, Enter, Locked, LockTypeOK
<1>3. /\ ~Between(p)'
      /\ \A q \in Processes : q # p => SameTask(tx[q], tx'[q])
  BY <1>2, OutsideFields DEF Between, At, SameTask, TxInv, Shape
<1>4. ASSUME NEW n \in Names, n = Desc(p).name
      PROVE  Shown[n] = Own(p, n) /\ Shown'[n] = file[target[p]].servers[n]
  <2>1. Shown[n] = Own(p, n)
    BY <1>4, SeenIsOwn DEF SeenIsShown
  <2>2. \A definition : Seen(target[p], n, definition)' <=> definition = Own(p, n)'
    BY <1>2, <1>3, SeenIsOwnThen
  <2>3. \A definition : Seen(observedConfig, n, definition)' <=> definition = Own(p, n)'
    BY <1>2, <2>2
  <2>4. Own(p, n)' = file[target[p]].servers[n]
    BY <1>2, <1>3 DEF Own
  <2> QED BY <2>1, <2>3, <2>4 DEF SeenIsShown
<1> QED BY <1>1, <1>4 DEF TxInv, Shape, File

LEMMA LifeStep ==
    ASSUME TxInv, Locked, LockTypeOK', Remembering, SeenIsShown, SeenIsShown',
           edits = 0, edits' = 0, [Next]_vars
    PROVE  [Life!Next]_(Life!vars)
<1> DEFINE mine == <<observedEntry, observedConfig>>
           record == records[observedState][mine]
<1>1. CASE SeenStays /\ UNCHANGED records
  BY <1>1, ShownStays DEF Life!vars
<1>2. ASSUME NEW p \in Processes, WorkDone(p) PROVE [Life!Next]_(Life!vars)
  <2> DEFINE name == Desc(p).name
  <2>1. /\ stage[p] = "locked" /\ SeenElse(p)
        /\ (Commit(p) \/ Dies(p) \/ UndoFails(p))
        /\ name \in Names /\ tx[p].job \in Jobs /\ Key(p) \in Keys /\ mine \in Keys
        /\ StateOf[p] \in States /\ Shape
    BY <1>2, TxFields, JobFields, Targets, PlanTyped, ObservedAssumption
    DEF WorkDone, Between, At, Commit, TxInv, Shape, Locked, Desc, Keys, Key
  <2>2. /\ target[p] # observedConfig => Shown' = Shown
        /\ Shown' = [Shown EXCEPT ![name] = Shown'[name]]
    BY <2>1, ShownElse
  <2>3. ASSUME record' = record PROVE [Life!Next]_(Life!vars)
    <3>1. CASE target[p] # observedConfig
      BY <2>2, <2>3, <3>1 DEF Life!vars
    <3>2. CASE target[p] = observedConfig
      <4>1. Shown'[name] \in Life!Definition
        BY <2>1, <3>2, ShownAfter, LifePlans
      <4>2. \E definition \in Life!Definition : Life!ClientEdits(name, definition)
        BY <2>2, <2>3, <4>1 DEF Life!ClientEdits
      <4> QED BY <2>1, <4>2 DEF Life!Next
    <3> QED BY <3>1, <3>2
  <2>4. CASE Commit(p) /\ StateOf[p] = observedState /\ Key(p) = mine
    <3> DEFINE action == tx[p].job.action
               source == tx[p].source
    <3>1. target[p] = observedConfig /\ Desc(p).entry = observedEntry
      BY <2>4 DEF Key, Desc
    <3>2. /\ Writes(OldRecord(p), Desc(p), Found(p, source), action)
          /\ file[target[p]].servers[name] = Planned(p, source)
          /\ Own(p, name) = Found(p, source)
      BY <2>4, AtCommit DEF Undisturbed
    <3>3. Shown[name] = Found(p, source) /\ Shown'[name] = Planned(p, source)
      BY <2>1, <2>4, <3>1, <3>2, ShownAfter
    <3>4. OldRecord(p) = record
      BY <2>1, <2>4 DEF TxInv, Good, Commit, At, OldRecord
    <3>5. record' = PostRecord(record, Desc(p), Shown[name], action)
      <4>1. records' = [records EXCEPT ![observedState] = Recorded(p, source)]
        BY <2>4 DEF Commit
      <4>2. tx[p].records \in [Keys -> Record]
        BY <2>1, TxFields DEF Shape
      <4> QED BY <2>1, <2>4, <3>3, <3>4, <4>1, <4>2 DEF Recorded, Shape
    <3>6. Shown' = [Shown EXCEPT ![name] =
                      PostDefinition(record, Desc(p), Shown[name], action)]
      BY <2>2, <3>3, <3>4 DEF Planned
    <3>7. Life!Perform(action, Desc(p))
      BY <3>2, <3>3, <3>4, <3>5, <3>6, LifePlans DEF Life!Perform
    <3>8. action \in Life!Actions
      BY <2>1, JobFields, LifePlans
    <3>9. Desc(p) \in {j.d : j \in {k \in Jobs : k.d.entry = observedEntry}}
      BY <2>1, <3>1 DEF Desc
    <3> QED BY <3>7, <3>8, <3>9 DEF Life!Next
  <2>5. CASE ~(Commit(p) /\ StateOf[p] = observedState /\ Key(p) = mine)
    <3>1. CASE UNCHANGED records
      BY <2>3, <3>1
    <3>2. CASE Commit(p)
      <4>1. /\ records' = [records EXCEPT ![StateOf[p]] = Recorded(p, tx[p].source)]
            /\ tx[p].records = records[StateOf[p]]
        BY <3>2 DEF Commit, TxInv, Good, At
      <4>2. record' = record
        BY <2>1, <2>5, <3>2, <4>1 DEF Recorded, Shape
      <4> QED BY <2>3, <4>2
    <3>3. CASE Dies(p) \/ UndoFails(p)
      BY <2>3, <3>3 DEF Dies, UndoFails
    <3> QED BY <2>1, <3>1, <3>2, <3>3
  <2> QED BY <2>4, <2>5
<1>3. ASSUME NEW p \in Processes, Commit(p) PROVE [Life!Next]_(Life!vars)
  BY <1>2, <1>3, CommitShows DEF WorkDone
<1> QED BY <1>1, <1>2, <1>3, Works, OnlyCommitRecords DEF WorkSteps

(* ADR 0013, steps 3 to 5: as long as no client writes, every transaction  *)
(* of an entry is atomic.  Whatever the other processes do, it takes place *)
(* at its commit, with the record and the definition of one moment, and    *)
(* one that fails, or dies before its first rename, has not taken place at *)
(* all.  One that stops between its renames, or whose undoing fails, shows *)
(* as an edit of its own definition, never as a change of the record.      *)
THEOREM TransactionsAreAtomic == Spec /\ [](edits = 0) => AtomicTransactions
<1>1. Init => Life!Init
  <2> SUFFICES ASSUME Init PROVE Life!Init
    OBVIOUS
  <2>1. \A p \in Processes : \A c, n : ~InHand(p, c, n)
    BY OutsideFields DEF Init, LockInit, InHand, Between, At
  <2>2. Shown = [n \in Names |-> file[observedConfig].servers[n]]
    BY <2>1 DEF Shown
  <2>3. file[observedConfig] \in File
    BY TxInitially, ObservedAssumption DEF TxInv, Shape
  <2>4. Shown \in [Names -> Definition]
    BY <2>2, <2>3 DEF File
  <2>5. records[observedState][<<observedEntry, observedConfig>>] = NoRecord
    BY ObservedAssumption DEF Init, NoRecords, Keys
  <2> QED BY <2>4, <2>5, LifePlans DEF Life!Init
<1>2. Spec => []Locked
  BY TransactionsExclude, PTL DEF Locked
<1>3. Spec => []SeenIsShown
  BY <1>2, ShownIsSeen, PTL
<1>4. TxInv /\ Locked /\ LockTypeOK' /\ Remembering /\ SeenIsShown /\ SeenIsShown'
      /\ edits = 0 /\ (edits = 0)' /\ [Next]_vars => [Life!Next]_(Life!vars)
  BY LifeStep
<1> QED BY <1>1, <1>2, <1>3, <1>4, TxInvariance, WorkInvariance, TransactionsExclude, PTL
        DEF Spec, AtomicTransactions, Life!Spec
=============================================================================
