------------------------------ MODULE InstallerLock ------------------------------
(***************************************************************************)
(* packages/installer/src/installer-lock.ts: the lock files that installer *)
(* processes create next to the state file and the client configuration    *)
(* they change.  A mutation takes the state lock, then the configuration   *)
(* lock, each within a bounded wait, and releases them in reverse.         *)
(*                                                                         *)
(* A lock is a file created with O_EXCL: it outlives the process that      *)
(* created it.  Nothing breaks a lock; one that its process left behind is *)
(* "orphan" until an operator removes it by hand.                          *)
(***************************************************************************)
EXTENDS Naturals

CONSTANTS
    Processes,    \* installer processes
    Interruptible,\* those whose transactions have an AbortSignal
    States,       \* state files
    Configs,      \* client configuration files
    StateOf,      \* [Processes -> States], from XDG_STATE_HOME
    Errors,       \* the failures of the transaction between the locks
    Budget,       \* totalLockWaitMilliseconds, scaled
    FirstWait,    \* initialLockWaitMilliseconds, scaled
    LongestWait   \* maximumLockWaitMilliseconds, scaled

Locks == States \cup Configs

LockErrors ==
    {"STATE_LOCKED", "CONFIG_LOCKED", "STATE_WRITE_FAILED",
     "CONFIG_WRITE_FAILED", "CANCELLED"}

ASSUME LockAssumption ==
    /\ Interruptible \subseteq Processes
    /\ States \cap Configs = {}
    /\ StateOf \in [Processes -> States]
    /\ Processes \cap {"free", "orphan"} = {}
    /\ Budget \in Nat
    /\ FirstWait \in Nat \ {0}
    /\ LongestWait \in Nat \ {0}

VARIABLES
    lock,       \* lock[l]: the process whose lock file is there
    stage,      \* stage[p]: where p is in acquire, hold, release
    target,     \* target[p]: the configuration p mutates
    left,       \* left[p]: what remains of the budget of this acquisition
    delay,      \* delay[p]: the next wait
    cancelled,  \* cancelled[p]: p's AbortSignal is aborted
    failure     \* failure[p]: the error p reports, "none" so far

lockVars == <<lock, stage, target, left, delay, cancelled, failure>>

Waiting == {"state", "config"}

(* The lock p asks for or is creating.                                     *)
Wanted(p) == IF stage[p] \in {"state", "stateFill"} THEN StateOf[p] ELSE target[p]

LockTypeOK ==
    /\ lock \in [Locks -> Processes \cup {"free", "orphan"}]
    /\ stage \in [Processes -> Waiting \cup {"idle", "stateFill", "configFill",
                    "locked", "unlockConfig", "unlockState", "abandon"}]
    /\ target \in [Processes -> Configs]
    /\ left \in [Processes -> 0..Budget]
    /\ delay \in [Processes -> 0..(FirstWait + LongestWait)]
    /\ cancelled \in [Processes -> BOOLEAN]
    /\ failure \in [Processes -> {"none", "crashed"} \cup LockErrors \cup Errors]

LockInit ==
    /\ lock = [l \in Locks |-> "free"]
    /\ stage = [p \in Processes |-> "idle"]
    /\ target \in [Processes -> Configs]
    /\ left = [p \in Processes |-> Budget]
    /\ delay = [p \in Processes |-> FirstWait]
    /\ cancelled = [p \in Processes |-> FALSE]
    /\ failure = [p \in Processes |-> "none"]

-----------------------------------------------------------------------------
Least(m, n) == IF m < n THEN m ELSE n

Enter(p, next) == stage' = [stage EXCEPT ![p] = next]

(* A process, or the next one of a batch, begins with the state lock.      *)
Acquire(p, c) ==
    /\ stage[p] = "idle"
    /\ Enter(p, "state")
    /\ target' = [target EXCEPT ![p] = c]
    /\ left' = [left EXCEPT ![p] = Budget]
    /\ delay' = [delay EXCEPT ![p] = FirstWait]
    /\ failure' = [failure EXCEPT ![p] = "none"]
    /\ UNCHANGED <<lock, cancelled>>

(* Mutant of GivesUp: the state lock is kept.                              *)
GivesUpKeeping(p, code) ==
    /\ failure' = [failure EXCEPT ![p] = code]
    /\ Enter(p, "idle")

(* acquireLock throws: a state lock already held is released first.        *)
GivesUp(p, code) ==
    /\ failure' = [failure EXCEPT ![p] = code]
    /\ Enter(p, IF stage[p] \in {"config", "configFill"} THEN "abandon" ELSE "idle")

(* throwIfCancelled comes before every attempt, also the last one.         *)
Cancelled(p) ==
    /\ stage[p] \in Waiting
    /\ cancelled[p]
    /\ GivesUp(p, "CANCELLED")
    /\ UNCHANGED <<lock, target, left, delay, cancelled>>

MayCreate(p) == stage[p] \in Waiting /\ ~cancelled[p]

(* Mutant of Exclusive: created without O_EXCL.                            *)
ExclusiveNot(l) == TRUE

Exclusive(l) == lock[l] = "free"

(* createExclusiveNoFollow succeeds.                                       *)
Create(p) ==
    /\ MayCreate(p)
    /\ Exclusive(Wanted(p))
    /\ lock' = [lock EXCEPT ![Wanted(p)] = p]
    /\ Enter(p, IF stage[p] = "state" THEN "stateFill" ELSE "configFill")
    /\ UNCHANGED <<target, left, delay, cancelled, failure>>

(* ... or fails for another reason than contention.                        *)
CreateFails(p) ==
    /\ MayCreate(p)
    /\ GivesUp(p, IF stage[p] = "state" THEN "STATE_WRITE_FAILED"
                  ELSE "CONFIG_WRITE_FAILED")
    /\ UNCHANGED <<lock, target, left, delay, cancelled>>

(* Mutant of Remaining: the waits are not charged to the budget.           *)
RemainingForever(p) == {left[p]}

(* What remains after a wait: the timer may fire late, even very late.     *)
Remaining(p) == {0, left[p] - Least(delay[p], left[p])}

(* ALREADY_EXISTS: wait and try again, or give up once the budget is gone. *)
Contended(p) ==
    /\ MayCreate(p)
    /\ ~Exclusive(Wanted(p))
    /\ \/ /\ left[p] = 0
          /\ GivesUp(p, IF stage[p] = "state" THEN "STATE_LOCKED"
                        ELSE "CONFIG_LOCKED")
          /\ UNCHANGED <<left, delay>>
       \/ /\ left[p] > 0
          /\ left' \in {[left EXCEPT ![p] = r] : r \in Remaining(p)}
          /\ delay' = [delay EXCEPT ![p] = Least(2 * delay[p], LongestWait)]
          /\ UNCHANGED <<stage, failure>>
    /\ UNCHANGED <<lock, target, cancelled>>

(* stat, writeAll, sync, close: the lock is now p's to release.            *)
Fill(p) ==
    /\ \/ /\ stage[p] = "stateFill"
          /\ Enter(p, "config")
       \/ /\ stage[p] = "configFill"
          /\ Enter(p, "locked")
    /\ left' = [left EXCEPT ![p] = Budget]
    /\ delay' = [delay EXCEPT ![p] = FirstWait]
    /\ UNCHANGED <<lock, target, cancelled, failure>>

(* One of them fails: discardCreatedLock, whose own failure is swallowed.  *)
FillFails(p) ==
    /\ stage[p] \in {"stateFill", "configFill"}
    /\ \E rest \in {"free", "orphan"} :
          lock' = [lock EXCEPT ![Wanted(p)] = rest]
    /\ GivesUp(p, IF stage[p] = "stateFill" THEN "STATE_WRITE_FAILED"
                  ELSE "CONFIG_WRITE_FAILED")
    /\ UNCHANGED <<target, left, delay, cancelled>>

-----------------------------------------------------------------------------
(* The work between acquire and release ends, with an error or without.    *)
Leave(p, code) ==
    /\ stage[p] = "locked"
    /\ Enter(p, "unlockConfig")
    /\ failure' = [failure EXCEPT ![p] = code]
    /\ UNCHANGED <<lock, target, left, delay, cancelled>>

(* releaseLock never throws: a lock that cannot be read, recognised or     *)
(* unlinked stays, and is reported unless there is an error already.       *)
UnlockConfig(p) ==
    /\ stage[p] = "unlockConfig"
    /\ Enter(p, "unlockState")
    /\ \/ /\ lock' = [lock EXCEPT ![target[p]] = "free"]
          /\ UNCHANGED failure
       \/ /\ lock' = [lock EXCEPT ![target[p]] = "orphan"]
          /\ failure' = [failure EXCEPT ![p] = IF @ = "none" THEN "CONFIG_LOCKED" ELSE @]
    /\ UNCHANGED <<target, left, delay, cancelled>>

(* The failure to release the state lock is reported before the other one. *)
UnlockState(p) ==
    /\ stage[p] = "unlockState"
    /\ Enter(p, "idle")
    /\ \/ /\ lock' = [lock EXCEPT ![StateOf[p]] = "free"]
          /\ UNCHANGED failure
       \/ /\ lock' = [lock EXCEPT ![StateOf[p]] = "orphan"]
          /\ failure' = [failure EXCEPT ![p] =
                           IF @ \in {"none", "CONFIG_LOCKED"} THEN "STATE_LOCKED" ELSE @]
    /\ UNCHANGED <<target, left, delay, cancelled>>

(* No configuration lock: the state lock is released, the error stays.     *)
Abandon(p) ==
    /\ stage[p] = "abandon"
    /\ Enter(p, "idle")
    /\ \E rest \in {"free", "orphan"} :
          lock' = [lock EXCEPT ![StateOf[p]] = rest]
    /\ UNCHANGED <<target, left, delay, cancelled, failure>>

-----------------------------------------------------------------------------
Cancel(p) ==
    /\ p \in Interruptible
    /\ ~cancelled[p]
    /\ cancelled' = [cancelled EXCEPT ![p] = TRUE]
    /\ UNCHANGED <<lock, stage, target, left, delay, failure>>

(* The process dies; its lock files stay.  Another one may run in its      *)
(* place.                                                                  *)
Crash(p) ==
    /\ stage[p] # "idle"
    /\ Enter(p, "idle")
    /\ lock' = [l \in Locks |-> IF lock[l] = p THEN "orphan" ELSE lock[l]]
    /\ failure' = [failure EXCEPT ![p] = "crashed"]
    /\ UNCHANGED <<target, left, delay, cancelled>>

(* The operator removes a lock whose process is gone.                      *)
OperatorClears(l) ==
    /\ lock[l] = "orphan"
    /\ lock' = [lock EXCEPT ![l] = "free"]
    /\ UNCHANGED <<stage, target, left, delay, cancelled, failure>>

(* What a process does by itself, without the work between the locks.      *)
LockStep(p) ==
    \/ Cancelled(p) \/ Create(p) \/ CreateFails(p) \/ Contended(p)
    \/ Fill(p) \/ FillFails(p)
    \/ UnlockConfig(p) \/ UnlockState(p) \/ Abandon(p)

LockNext ==
    \/ \E p \in Processes :
          \/ \E c \in Configs : Acquire(p, c)
          \/ LockStep(p)
          \/ \E code \in Errors \cup {"none"} : Leave(p, code)
          \/ Cancel(p)
          \/ Crash(p)
    \/ \E l \in Locks : OperatorClears(l)

LockSpec == LockInit /\ [][LockNext]_lockVars

(* A process that lives takes its next step, and its work ends; that a     *)
(* file operation fails is never counted on.                               *)
Proceeds(p) ==
    \/ Cancelled(p) \/ Create(p) \/ Contended(p) \/ Fill(p)
    \/ \E code \in Errors \cup {"none"} : Leave(p, code)
    \/ UnlockConfig(p) \/ UnlockState(p) \/ Abandon(p)

FairLockSpec == LockSpec /\ \A p \in Processes : WF_lockVars(Proceeds(p))

-----------------------------------------------------------------------------
Holding == {"locked", "unlockConfig"}

(* A process has exactly the lock files its stage will release: no way     *)
(* through acquisition, failure and release forgets one.                   *)
HoldsState(p) ==
    stage[p] \in Holding \cup {"stateFill", "config", "configFill",
                              "unlockState", "abandon"}

LocksBelongToStage ==
    \A p \in Processes :
        /\ \A s \in States : lock[s] = p <=> s = StateOf[p] /\ HoldsState(p)
        /\ \A c \in Configs :
              lock[c] = p <=> c = target[p] /\ stage[p] \in Holding \cup {"configFill"}

(* ADR 0013: no two processes are between acquire and release with the     *)
(* same state file or the same configuration, whatever crashes, whatever   *)
(* is cancelled and whichever leftovers the operator clears.               *)
MutualExclusion ==
    \A p, q \in Processes :
        p # q /\ stage[p] \in Holding /\ stage[q] \in Holding =>
            StateOf[p] # StateOf[q] /\ target[p] # target[q]

(* A cancelled process creates no further lock file, not even in the       *)
(* attempt that follows its last wait.                                     *)
NoLockAfterCancel ==
    [][\A p \in Processes, l \in Locks :
          lock'[l] = p /\ lock[l] # p => ~cancelled[p]]_lockVars

(* ADR 0013: "Locks are bounded".  Every acquisition ends, with the lock   *)
(* or without, although nothing ever breaks a lock that was left behind.   *)
AcquisitionEnds ==
    \A p \in Processes : (stage[p] \in Waiting) ~> (stage[p] \notin Waiting)
=============================================================================
