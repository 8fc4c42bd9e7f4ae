------------------------------ MODULE InstallLock ------------------------------
(***************************************************************************)
(* The lock that serializes installs and uninstalls (install/lock.mjs):    *)
(* the directory "lock" with one file naming its owner.  A process that    *)
(* finds the lock of a dead owner moves it to a quarantine, under the      *)
(* recovery directory, removes it there and tries once more.  Every        *)
(* process runs one install or uninstall; it may die between any two file  *)
(* system calls, and each call may fail.                                   *)
(***************************************************************************)
EXTENDS Naturals

CONSTANT Runs

(* What a lock directory can hold instead of a complete owner file.        *)
Marks == {"missing", "empty", "partial"}

ASSUME RunsAssumption == Runs \cap Marks = {}

VARIABLES
  call,        \* the next file system call of each process
  attempt,     \* attempt of acquireInstallLock
  observed,    \* the contents of the lock as the process last read them
  ending,      \* how the run of the process ended
  alive,       \* the processes that have not died
  lock,        \* contents of the lock directory
  recovery,    \* the recovery directory exists
  quarantine   \* quarantine[p]: contents of the directory named for p's nonce

lockVars == <<call, attempt, observed, ending, alive, lock, recovery, quarantine>>

Contents == Marks \cup Runs

Acquiring  == {"residues", "quarantines", "mkdir", "create", "write", "abandon",
               "abandonDir", "look", "judge"}
Holding    == {"hold", "check", "unlink"}
Releasing  == {"rmdir"}
Owning     == Holding \cup Releasing \cup {"create", "write", "abandon", "abandonDir"}
Recovering == {"relook", "rejudge", "rename", "verify", "unlinkOld", "rmdirOld",
               "endRecovery"}
Calls      == Acquiring \cup Holding \cup Releasing \cup Recovering \cup {"recover", "done"}

Endings == {"none", "released", "residue", "active", "manual", "recovering",
            "changed", "unwritten", "error"}

LockInit ==
  /\ call = [p \in Runs |-> "residues"]
  /\ attempt = [p \in Runs |-> 0]
  /\ observed = [p \in Runs |-> "missing"]
  /\ ending = [p \in Runs |-> "none"]
  /\ alive = Runs
  /\ lock = "missing"
  /\ recovery = FALSE
  /\ quarantine = [p \in Runs |-> "missing"]

--------------------------------------------------------------------------------
Calling(p, here) == p \in alive /\ call[p] = here

GoOn(p, there) == call' = [call EXCEPT ![p] = there] /\ UNCHANGED ending

Quit(p, how) ==
  /\ call' = [call EXCEPT ![p] = "done"]
  /\ ending' = [ending EXCEPT ![p] = how]

(* An exception inside recoverStale runs its finally clause first.         *)
Throw(p) ==
  /\ call' = [call EXCEPT ![p] = "endRecovery"]
  /\ ending' = [ending EXCEPT ![p] = "error"]

(* processActive: the pid of a dead process may belong to another by now.  *)
ProcessActive_None(q) == {FALSE}                                    \* fault
ProcessActive(q) == IF q \in alive THEN {TRUE} ELSE BOOLEAN

--------------------------------------------------------------------------------
(* acquireInstallLock.                                                     *)

CheckRecovery(p) ==
  /\ Calling(p, "residues")
  /\ IF recovery THEN Quit(p, "residue") ELSE GoOn(p, "quarantines")
  /\ UNCHANGED <<attempt, observed, alive, lock, recovery, quarantine>>

CheckQuarantines(p) ==
  /\ Calling(p, "quarantines")
  /\ IF \E q \in Runs : quarantine[q] # "missing"
     THEN Quit(p, "residue") ELSE GoOn(p, "mkdir")
  /\ UNCHANGED <<attempt, observed, alive, lock, recovery, quarantine>>

MakeLock(p) ==
  /\ Calling(p, "mkdir")
  /\ IF lock = "missing"
     THEN lock' = "empty" /\ GoOn(p, "create")
     ELSE GoOn(p, "look") /\ UNCHANGED lock
  /\ UNCHANGED <<attempt, observed, alive, recovery, quarantine>>

(* writeFileSync makes the file and then fills it; chmodSync may still fail.*)
CreateOwner(p) ==
  /\ Calling(p, "create")
  /\ \/ lock' = "partial" /\ GoOn(p, "write")
     \/ GoOn(p, "abandonDir") /\ UNCHANGED lock
  /\ UNCHANGED <<attempt, observed, alive, recovery, quarantine>>

WriteOwner(p) ==
  /\ Calling(p, "write")
  /\ \/ lock' = p /\ GoOn(p, "hold")
     \/ lock' \in {"partial", p} /\ GoOn(p, "abandon")
  /\ UNCHANGED <<attempt, observed, alive, recovery, quarantine>>

(* The owner file could not be written: undo.  Errors of the undoing are   *)
(* dropped, and the lock stays; the ending tells the two apart.           *)
AbandonOwner(p) ==
  /\ Calling(p, "abandon")
  /\ lock' \in {"empty", lock}
  /\ GoOn(p, "abandonDir")
  /\ UNCHANGED <<attempt, observed, alive, recovery, quarantine>>

AbandonLock(p) ==
  /\ Calling(p, "abandonDir")
  /\ \/ lock = "empty" /\ lock' = "missing" /\ Quit(p, "unwritten")
     \/ Quit(p, "error") /\ UNCHANGED lock
  /\ UNCHANGED <<attempt, observed, alive, recovery, quarantine>>

(* inspectInstallLock reads the lock and then probes the owner's pid.      *)
Look(p) ==
  /\ Calling(p, "look")
  /\ observed' = [observed EXCEPT ![p] = lock]
  /\ GoOn(p, "judge")
  /\ UNCHANGED <<attempt, alive, lock, recovery, quarantine>>

JudgeLock(p) ==
  /\ Calling(p, "judge")
  /\ \/ observed[p] \in Marks /\ Quit(p, "manual")
     \/ /\ observed[p] \in Runs
        /\ \E active \in ProcessActive(observed[p]) :
             \/ active /\ Quit(p, "active")
             \/ ~active /\ attempt[p] = 0 /\ GoOn(p, "recover")
             \/ ~active /\ attempt[p] > 0 /\ Quit(p, "manual")
  /\ UNCHANGED <<attempt, observed, alive, lock, recovery, quarantine>>

--------------------------------------------------------------------------------
(* recoverStale.                                                           *)

MakeRecovery(p) ==
  /\ Calling(p, "recover")
  /\ IF recovery
     THEN Quit(p, "recovering") /\ UNCHANGED recovery
     ELSE recovery' = TRUE /\ GoOn(p, "relook")
  /\ UNCHANGED <<attempt, observed, alive, lock, quarantine>>

(* The lock may be another one by now.                                     *)

Relook(p) ==
  /\ Calling(p, "relook")
  /\ \/ lock = observed[p] /\ GoOn(p, "rejudge")
     \/ lock # observed[p] /\ GoOn(p, "endRecovery")
  /\ UNCHANGED <<attempt, observed, alive, lock, recovery, quarantine>>

Rejudge(p) ==
  /\ Calling(p, "rejudge")
  /\ \E active \in ProcessActive(observed[p]) :
       \/ active /\ GoOn(p, "endRecovery")
       \/ ~active /\ quarantine[observed[p]] = "missing" /\ GoOn(p, "rename")
       \/ ~active /\ quarantine[observed[p]] # "missing" /\ Throw(p)
  /\ UNCHANGED <<attempt, observed, alive, lock, recovery, quarantine>>

RenameLock(p) ==
  /\ Calling(p, "rename")
  /\ \/ /\ lock # "missing"
        /\ quarantine' = [quarantine EXCEPT ![observed[p]] = lock]
        /\ lock' = "missing"
        /\ GoOn(p, "verify")
     \/ Throw(p) /\ UNCHANGED <<lock, quarantine>>
  /\ UNCHANGED <<attempt, observed, alive, recovery>>

VerifyQuarantine(p) ==
  /\ Calling(p, "verify")
  /\ \E active \in ProcessActive(observed[p]) :
       IF quarantine[observed[p]] = observed[p] /\ ~active
       THEN GoOn(p, "unlinkOld") ELSE Throw(p)
  /\ UNCHANGED <<attempt, observed, alive, lock, recovery, quarantine>>

UnlinkOldOwner(p) ==
  /\ Calling(p, "unlinkOld")
  /\ \/ quarantine' = [quarantine EXCEPT ![observed[p]] = "empty"] /\ GoOn(p, "rmdirOld")
     \/ Throw(p) /\ UNCHANGED quarantine
  /\ UNCHANGED <<attempt, observed, alive, lock, recovery>>

(* The last call of a recovery that succeeds begins the second attempt.    *)
RemoveQuarantine_Kept(p) ==                                         \* fault
  /\ Calling(p, "rmdirOld")
  /\ attempt' = [attempt EXCEPT ![p] = @ + 1] /\ GoOn(p, "endRecovery")
  /\ UNCHANGED <<observed, alive, lock, recovery, quarantine>>

RemoveQuarantine(p) ==
  /\ Calling(p, "rmdirOld")
  /\ \/ /\ quarantine' = [quarantine EXCEPT ![observed[p]] = "missing"]
        /\ attempt' = [attempt EXCEPT ![p] = @ + 1]
        /\ GoOn(p, "endRecovery")
     \/ Throw(p) /\ UNCHANGED <<quarantine, attempt>>
  /\ UNCHANGED <<observed, alive, lock, recovery>>

(* The finally clause, then continue, false or the exception.              *)
Continue(p) ==
  IF ending[p] # "error" /\ attempt[p] > 0
  THEN GoOn(p, "residues")
  ELSE Quit(p, IF ending[p] = "error" THEN "error" ELSE "recovering")

EndRecovery_NotFinally(p) ==                                        \* fault
  /\ Calling(p, "endRecovery")
  /\ recovery' = (recovery /\ attempt[p] = 0)
  /\ Continue(p)
  /\ UNCHANGED <<attempt, observed, alive, lock, quarantine>>

EndRecovery(p) ==
  /\ Calling(p, "endRecovery")
  /\ \/ recovery' = FALSE /\ Continue(p)
     \/ Quit(p, "error") /\ UNCHANGED recovery
  /\ UNCHANGED <<attempt, observed, alive, lock, quarantine>>

--------------------------------------------------------------------------------
(* The install or uninstall runs while call is "hold"; then release.       *)

FinishWork(p) ==
  /\ Calling(p, "hold")
  /\ GoOn(p, "check")
  /\ UNCHANGED <<attempt, observed, alive, lock, recovery, quarantine>>

CheckOwnership(p) ==
  /\ Calling(p, "check")
  /\ IF lock = p THEN GoOn(p, "unlink") ELSE Quit(p, "changed")
  /\ UNCHANGED <<attempt, observed, alive, lock, recovery, quarantine>>

UnlinkOwner(p) ==
  /\ Calling(p, "unlink")
  /\ \/ lock' = "empty" /\ GoOn(p, "rmdir")
     \/ Quit(p, "error") /\ UNCHANGED lock
  /\ UNCHANGED <<attempt, observed, alive, recovery, quarantine>>

RemoveLock(p) ==
  /\ Calling(p, "rmdir")
  /\ \/ lock' = "missing" /\ Quit(p, "released")
     \/ Quit(p, "error") /\ UNCHANGED lock
  /\ UNCHANGED <<attempt, observed, alive, recovery, quarantine>>

Crash(p) ==
  /\ p \in alive /\ call[p] # "done"
  /\ alive' = alive \ {p}
  /\ UNCHANGED <<call, attempt, observed, ending, lock, recovery, quarantine>>

(* A process that has ended is gone, its pid too.                          *)
Exit(p) ==
  /\ Calling(p, "done")
  /\ alive' = alive \ {p}
  /\ UNCHANGED <<call, attempt, observed, ending, lock, recovery, quarantine>>

AcquireLock(p) ==
  \/ CheckRecovery(p) \/ CheckQuarantines(p) \/ MakeLock(p)
  \/ CreateOwner(p) \/ WriteOwner(p) \/ AbandonOwner(p) \/ AbandonLock(p)
  \/ Look(p) \/ JudgeLock(p)

RecoverStale(p) ==
  \/ MakeRecovery(p) \/ Relook(p) \/ Rejudge(p) \/ RenameLock(p)
  \/ VerifyQuarantine(p) \/ UnlinkOldOwner(p) \/ RemoveQuarantine(p)
  \/ EndRecovery(p)

ReleaseLock(p) ==
  FinishWork(p) \/ CheckOwnership(p) \/ UnlinkOwner(p) \/ RemoveLock(p)

LockNext ==
  \E p \in Runs :
    AcquireLock(p) \/ RecoverStale(p) \/ ReleaseLock(p) \/ Crash(p) \/ Exit(p)

LockSpec == LockInit /\ [][LockNext]_lockVars

--------------------------------------------------------------------------------
LockTypeOK ==
  /\ call \in [Runs -> Calls]
  /\ attempt \in [Runs -> 0..1]
  /\ observed \in [Runs -> Contents]
  /\ ending \in [Runs -> Endings]
  /\ alive \subseteq Runs
  /\ lock \in Contents
  /\ recovery \in BOOLEAN
  /\ quarantine \in [Runs -> Contents]

--------------------------------------------------------------------------------
(* Correctness.                                                            *)

Holders == {p \in alive : call[p] \in Holding}

(* No two installs or uninstalls work at the same time, also when one of   *)
(* them took over the lock of a process that died.                         *)
MutualExclusion == \A p, q \in Holders : p = q

(* The lock as those see it who work under it (InstallTransaction): one    *)
(* holder, who leaves before another comes.                                *)
Promise == INSTANCE ExclusiveLock WITH Procs <- Runs, holders <- Holders
ImplementsLock == Promise!Spec

(* The recovery of a stale lock never takes the lock of a process that is  *)
(* still running, so release always finds its own nonce.                   *)
OwnershipNeverChanges == \A p \in Runs : ending[p] # "changed"

(* Only the lock of a dead process ends in quarantine.                     *)
QuarantineIsDead ==
  \A p \in Runs : quarantine[p] \in Marks \cup (Runs \ alive)

(* The recovery directory is there only while one process recovers, died   *)
(* while it did, or failed to remove it: every other way out of            *)
(* recoverStale takes it away, and two processes never recover at once.    *)
RecoveryIsAttended ==
  /\ recovery => \E p \in Runs : call[p] \in Recovering \/ ending[p] = "error"
  /\ \A p, q \in Runs : call[p] \in Recovering /\ call[q] \in Recovering => p = q

(* When all processes have ended or died and none met an error, whatever   *)
(* blocks the next install is the work of a death at just that place: the  *)
(* lock of its owner, a recovery or a quarantine of its recoverer.         *)
NothingLeftBehind ==
  (\A p \in Runs : (call[p] = "done" \/ p \notin alive) /\ ending[p] # "error") =>
    /\ lock # "missing" => \E p \in Runs \ alive : call[p] \in Owning
    /\ recovery => \E p \in Runs \ alive : call[p] \in Recovering
    /\ (\E q \in Runs : quarantine[q] # "missing") =>
         \E p \in Runs \ alive : call[p] \in {"verify", "unlinkOld", "rmdirOld"}

--------------------------------------------------------------------------------
(* The inductive invariant: what each place in the code knows of the lock. *)

(* A running process finds in the directory it made what it put there.     *)
OwnerKnowsLock ==
  \A p \in alive :
    /\ call[p] \in {"create", "rmdir"} => lock = "empty"
    /\ call[p] = "write" => lock = "partial"
    /\ call[p] = "abandon" => lock \in {"partial", p}
    /\ call[p] = "abandonDir" => lock \in {"empty", "partial", p}
    /\ call[p] \in Holding => lock = p

OneOwner == \A p, q \in alive : call[p] \in Owning /\ call[q] \in Owning => p = q

(* A process recovers only the lock of a dead one, and the lock is still   *)
(* there when it is renamed.                                               *)
RecoveredIsDead ==
  \A p \in Runs : call[p] \in Recovering \cup {"recover"} =>
    observed[p] \in Runs \ alive

RecoveredIsThere ==
  \A p \in alive :
    /\ call[p] \in {"rejudge", "rename"} => lock = observed[p]
    /\ call[p] = "verify" => quarantine[observed[p]] = observed[p]

RecoveringIsMarked == \A p \in Runs : call[p] \in Recovering => recovery

FirstAttempt ==
  \A p \in Runs : call[p] \in {"recover"} \cup (Recovering \ {"endRecovery"}) =>
    attempt[p] = 0

ErrorEnds == \A p \in Runs : ending[p] = "error" => call[p] \in {"endRecovery", "done"}

(* Whatever stands in the way of the next install has somebody to answer   *)
(* for it: at work on it, dead at that place, or ended by an error.        *)
Answerable ==
  /\ lock # "missing" => \E p \in Runs : call[p] \in Owning \/ ending[p] = "error"
  /\ \A q \in Runs : quarantine[q] # "missing" =>
       \E p \in Runs : \/ call[p] \in {"verify", "unlinkOld", "rmdirOld"} /\ observed[p] = q
                       \/ ending[p] = "error"

LockInv ==
  /\ LockTypeOK
  /\ OwnerKnowsLock /\ OneOwner
  /\ RecoveredIsDead /\ RecoveredIsThere
  /\ OwnershipNeverChanges /\ QuarantineIsDead
  /\ RecoveryIsAttended /\ RecoveringIsMarked
  /\ FirstAttempt /\ ErrorEnds /\ Answerable
================================================================================
