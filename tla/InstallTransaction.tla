--------------------------- MODULE InstallTransaction ---------------------------
(***************************************************************************)
(* Installing and uninstalling the application under one prefix            *)
(* (install/transaction.mjs, install/uninstall.mjs).  Several processes    *)
(* each run one command after the other.  A process may die before any     *)
(* file system call and each call may fail; the next command finds what    *)
(* was left.  The lock is what ExclusiveLock promises of install/lock.mjs. *)
(*                                                                         *)
(* Links in bin that await their renaming are noticed by nothing and are   *)
(* left out, as are owners, modes and the contents of files.               *)
(***************************************************************************)
EXTENDS Integers

CONSTANTS
  Procs,
  NReleases,   \* releases 1..NReleases, in the order of their versions
  MaxRuns      \* bound: commands run in all

ASSUME NReleasesAssumption == NReleases \in Nat \ {0}
ASSUME MaxRunsAssumption == MaxRuns \in Nat

Releases == 1..NReleases

VARIABLES
  pc,              \* the next step of each process
  want,            \* the release it installs; 0: it uninstalls
  prior,           \* what it found once it held the lock
  created,         \* the directories and the release it made itself
  activated,       \* links renamed into place by activateLinks
  outcome,         \* how its command ended, or will end
  holders,         \* the holder of the lock
  root,            \* the tree at lib/tm-u220
  moved,           \* the tree moved aside by an uninstall
  links,           \* links in bin: "220", "tm-u220-install" and their backups
  runs             \* commands begun

procVars == <<pc, want, prior, created, activated, outcome>>
diskVars == <<root, moved, links>>
vars == <<procVars, holders, diskVars, runs>>

Lock == INSTANCE ExclusiveLock

(* A tree: is it there, with the directory "releases", the state of each   *)
(* release, a staged one, the link "current" (0: none), and temporary      *)
(* links beside it.                                                        *)
Trees ==
  [there : BOOLEAN, dir : BOOLEAN, release : [Releases -> {"none", "part", "whole"}],
   stage : BOOLEAN, current : 0..NReleases, litter : SUBSET {"activate", "restore"}]

NoTree == [there |-> FALSE, dir |-> FALSE, release |-> [r \in Releases |-> "none"],
           stage |-> FALSE, current |-> 0, litter |-> {}]

Launchers == {"launcher", "manager"}
Backups   == {"launcherBackup", "managerBackup"}

Disk == [root |-> root, moved |-> moved, links |-> links]

Outcomes == {"none", "installed", "removed", "refused", "failed", "unrestored",
             "stopped", "error", "died"}

Places == {"idle", "acquire", "makeRoot", "makeReleases", "validate", "makeStage",
           "publish", "prepare", "switch", "restore", "clean", "dropStage",
           "dropRelease", "dropPart", "dropReleases", "dropRoot", "release",
           "confirm", "moveTree", "moveLauncher", "moveManager", "backManager",
           "backLauncher", "backTree", "delete", "deletePart", "deleteReleases",
           "deleteCurrent", "deleteTree", "deleteLauncher", "deleteManager", "judge"}

Init ==
  /\ pc = [p \in Procs |-> "idle"]
  /\ want = [p \in Procs |-> 0]
  /\ prior = [p \in Procs |-> [root |-> NoTree, moved |-> NoTree, links |-> {}]]
  /\ created = [p \in Procs |-> {}]
  /\ activated = [p \in Procs |-> 0]
  /\ outcome = [p \in Procs |-> "none"]
  /\ holders = {}
  /\ root = NoTree /\ moved = NoTree /\ links = {}
  /\ runs = 0

--------------------------------------------------------------------------------
(* What the code reads.                                                    *)

(* inspectRemovalResidues.                                                 *)
Residues == moved.there \/ links \cap Backups # {}

AllWhole(t) == \A r \in Releases : t.release[r] # "part"
Empty(t)    == \A r \in Releases : t.release[r] = "none"

(* inspectInstallation finds no issue; the lock is the caller's own.       *)
Healthy ==
  /\ ~Residues
  /\ root.there /\ root.dir /\ ~root.stage /\ root.litter = {}
  /\ AllWhole(root)
  /\ root.current # 0 /\ root.release[root.current] = "whole"
  /\ Launchers \subseteq links

--------------------------------------------------------------------------------
(* The step at hand, its end, and the things it leaves alone.              *)
At(p, here) == pc[p] = here

Goto(p, there) == pc' = [pc EXCEPT ![p] = there] /\ UNCHANGED outcome

Fail(p, there, how) ==
  pc' = [pc EXCEPT ![p] = there] /\ outcome' = [outcome EXCEPT ![p] = how]

own   == <<want, prior, created, activated>>
other == <<holders, runs>>

--------------------------------------------------------------------------------
(* Beginning and ending a command.                                         *)

BeginInstall(p, r) ==
  /\ At(p, "idle") /\ runs < MaxRuns
  /\ runs' = runs + 1
  /\ want' = [want EXCEPT ![p] = r]
  /\ created' = [created EXCEPT ![p] = {}]
  /\ activated' = [activated EXCEPT ![p] = 0]
  /\ \/ Residues /\ Fail(p, "idle", "refused")
     \/ ~Residues /\ Fail(p, "acquire", "none")
  /\ UNCHANGED <<prior, holders, diskVars>>

(* Without an installation there is nothing to do.                         *)
BeginUninstall(p) ==
  /\ At(p, "idle") /\ runs < MaxRuns
  /\ root.there
  /\ runs' = runs + 1
  /\ want' = [want EXCEPT ![p] = 0]
  /\ Fail(p, "acquire", "none")
  /\ UNCHANGED <<prior, created, activated, holders, diskVars>>

Acquire(p) ==
  /\ At(p, "acquire")
  /\ Lock!Take(p)
  /\ prior' = [prior EXCEPT ![p] = Disk]
  /\ Goto(p, IF want[p] = 0 THEN "confirm" ELSE "makeRoot")
  /\ UNCHANGED <<want, created, activated, diskVars, runs>>

(* Another process holds the lock, or the lock needs manual inspection.    *)
LockRefused(p) ==
  /\ At(p, "acquire")
  /\ Fail(p, "idle", "refused")
  /\ UNCHANGED <<own, other, diskVars>>

Release(p) ==
  /\ At(p, "release")
  /\ Lock!Leave(p)
  /\ Goto(p, "idle")
  /\ UNCHANGED <<own, diskVars, runs>>

(* install/lock.mjs recovers the lock of a dead holder.                    *)
Die(p) ==
  /\ ~At(p, "idle")
  /\ holders' = holders \ {p}
  /\ Fail(p, "idle", "died")
  /\ UNCHANGED <<own, diskVars, runs>>

--------------------------------------------------------------------------------
(* installRelease.                                                         *)

(* ensureDirectory makes the directory and looks at it; when that fails it *)
(* takes it away, unless that fails too.                                   *)
MakeRoot(p) ==
  /\ At(p, "makeRoot")
  /\ \/ root.there /\ Goto(p, "makeReleases") /\ UNCHANGED <<root, created>>
     \/ /\ ~root.there
        /\ root' = [root EXCEPT !.there = TRUE]
        /\ created' = [created EXCEPT ![p] = @ \cup {"root"}]
        /\ Goto(p, "makeReleases")
     \/ /\ root' \in {root, [root EXCEPT !.there = TRUE]}
        /\ Fail(p, "release", "failed") /\ UNCHANGED created
  /\ UNCHANGED <<want, prior, activated, other, moved, links>>

MakeReleases(p) ==
  /\ At(p, "makeReleases")
  /\ \/ root.dir /\ Goto(p, "validate") /\ UNCHANGED <<root, created>>
     \/ /\ ~root.dir
        /\ root' = [root EXCEPT !.dir = TRUE]
        /\ created' = [created EXCEPT ![p] = @ \cup {"releases"}]
        /\ Goto(p, "validate")
     \/ /\ root' \in {root, [root EXCEPT !.dir = TRUE]}
        /\ Fail(p, "dropRoot", "failed") /\ UNCHANGED created
  /\ UNCHANGED <<want, prior, activated, other, moved, links>>

(* No residues; nothing but empty directories, or a healthy installation   *)
(* of no later version; and no other content under the release's name.     *)
Acceptable_Downgrade(r) ==                                          \* fault
  /\ ~Residues
  /\ \/ root.current = 0 /\ root.litter = {} /\ Empty(root) /\ ~root.stage
     \/ root.current # 0 /\ Healthy
Acceptable(r) ==
  /\ ~Residues
  /\ \/ root.current = 0 /\ root.litter = {} /\ Empty(root) /\ ~root.stage
     \/ root.current # 0 /\ Healthy /\ root.current <= r

Validate(p) ==
  /\ At(p, "validate")
  /\ \/ Fail(p, "dropReleases", "failed")
     \/ Acceptable(want[p]) /\ root.release[want[p]] = "none" /\ Goto(p, "makeStage")
     \/ Acceptable(want[p]) /\ root.release[want[p]] = "whole" /\ Goto(p, "prepare")
  /\ UNCHANGED <<own, other, diskVars>>

MakeStage(p) ==
  /\ At(p, "makeStage")
  /\ \/ root' = [root EXCEPT !.stage = TRUE] /\ Goto(p, "publish")
     \/ Fail(p, "dropReleases", "failed") /\ UNCHANGED root
  /\ UNCHANGED <<own, other, moved, links>>

(* The staged files are written and verified, then renamed.                *)
Publish(p) ==
  /\ At(p, "publish")
  /\ \/ /\ root' = [root EXCEPT !.stage = FALSE, !.release[want[p]] = "whole"]
        /\ created' = [created EXCEPT ![p] = @ \cup {"release"}]
        /\ Goto(p, "prepare")
     \/ Fail(p, "dropStage", "failed") /\ UNCHANGED <<root, created>>
  /\ UNCHANGED <<want, prior, activated, other, moved, links>>

--------------------------------------------------------------------------------
(* activateLinks.                                                          *)

(* The temporary links; the first lies beside "current".                   *)
PrepareLinks(p) ==
  /\ At(p, "prepare")
  /\ \/ root' = [root EXCEPT !.litter = @ \cup {"activate"}] /\ Goto(p, "switch")
     \/ root' = [root EXCEPT !.litter = @ \cup {"activate"}] /\ Fail(p, "clean", "failed")
     \/ Fail(p, "dropRelease", "failed") /\ UNCHANGED root
  /\ UNCHANGED <<own, other, moved, links>>

(* The links in their order: current, launcher, manager.                   *)
SwitchLink(p) ==
  /\ At(p, "switch")
  /\ \/ /\ \/ /\ activated[p] = 0
              /\ root' = [root EXCEPT !.current = want[p], !.litter = @ \ {"activate"}]
              /\ UNCHANGED links
           \/ activated[p] = 1 /\ links' = links \cup {"launcher"} /\ UNCHANGED root
           \/ activated[p] = 2 /\ links' = links \cup {"manager"} /\ UNCHANGED root
        /\ activated' = [activated EXCEPT ![p] = @ + 1]
        /\ IF activated[p] = 2 THEN Fail(p, "release", "installed") ELSE Goto(p, "switch")
     \/ Fail(p, "restore", "failed") /\ UNCHANGED <<activated, root, links>>
  /\ UNCHANGED <<want, prior, created, other, moved>>

(* restoreLink: back to the prior target, or away with a new link.  It may *)
(* fail and leave its temporary link.                                      *)
Restored_Unlink(p) ==                                               \* fault
  \/ activated[p] = 1 /\ root' = [root EXCEPT !.current = 0] /\ UNCHANGED links
  \/ activated[p] = 2 /\ links' = links \ {"launcher"} /\ UNCHANGED root
Restored(p) ==
  \/ activated[p] = 1 /\ root' = [root EXCEPT !.current = prior[p].root.current] /\ UNCHANGED links
  \/ /\ activated[p] = 2
     /\ links' = (links \ {"launcher"}) \cup (prior[p].links \cap {"launcher"})
     /\ UNCHANGED root

RestoreLink(p) ==
  /\ At(p, "restore")
  /\ \/ activated[p] = 0 /\ Goto(p, "clean") /\ UNCHANGED <<activated, root, links>>
     \/ /\ activated[p] > 0
        /\ activated' = [activated EXCEPT ![p] = @ - 1]
        /\ \/ Restored(p) /\ Goto(p, "restore")
           \/ /\ Fail(p, "restore", "unrestored")
              /\ UNCHANGED links
              /\ \/ UNCHANGED root
                 \/ /\ activated[p] = 1 /\ prior[p].root.current # 0
                    /\ root' = [root EXCEPT !.litter = @ \cup {"restore"}]
  /\ UNCHANGED <<want, prior, created, other, moved>>

(* The temporary links that are still there; the last of them lies in bin. *)
(* An error here takes the place of the one before, also of the report     *)
(* that a link could not be restored.                                      *)
CleanLinks(p) ==
  /\ At(p, "clean")
  /\ \/ root' = [root EXCEPT !.litter = @ \ {"activate"}] /\ Goto(p, "dropRelease")
     \/ /\ root' \in {root, [root EXCEPT !.litter = @ \ {"activate"}]}
        /\ Fail(p, "dropRelease", "error")
  /\ UNCHANGED <<own, other, moved, links>>

--------------------------------------------------------------------------------
(* The finally clause of installRelease.                                   *)

DropStage(p) ==
  /\ At(p, "dropStage")
  /\ \/ root' = [root EXCEPT !.stage = FALSE] /\ Goto(p, "dropReleases")
     \/ Fail(p, "dropReleases", "error") /\ UNCHANGED root
  /\ UNCHANGED <<own, other, moved, links>>

(* A release that could not be deactivated stays.                          *)
Removable_Active(p) == "release" \in created[p]                     \* fault
Removable(p) == "release" \in created[p] /\ root.current # want[p]

DropRelease(p) ==
  /\ At(p, "dropRelease")
  /\ \/ ~Removable(p) /\ Goto(p, "dropReleases") /\ UNCHANGED root
     \/ /\ Removable(p)
        /\ root' = [root EXCEPT !.release[want[p]] = "part"] /\ Goto(p, "dropPart")
     \/ Removable(p) /\ Fail(p, "dropReleases", "error") /\ UNCHANGED root
  /\ UNCHANGED <<own, other, moved, links>>

DropPart(p) ==
  /\ At(p, "dropPart")
  /\ \/ root' = [root EXCEPT !.release[want[p]] = "none"] /\ Goto(p, "dropReleases")
     \/ Fail(p, "dropReleases", "error") /\ UNCHANGED root
  /\ UNCHANGED <<own, other, moved, links>>

(* cleanupDirectories: errors are dropped.                                 *)
DropReleases(p) ==
  /\ At(p, "dropReleases")
  /\ \/ /\ "releases" \in created[p] /\ Empty(root) /\ ~root.stage
        /\ root' = [root EXCEPT !.dir = FALSE]
     \/ UNCHANGED root
  /\ Goto(p, "dropRoot")
  /\ UNCHANGED <<own, other, moved, links>>

DropRoot(p) ==
  /\ At(p, "dropRoot")
  /\ \/ /\ "root" \in created[p] /\ ~root.dir /\ root.current = 0 /\ root.litter = {}
        /\ root' = NoTree
     \/ UNCHANGED root
  /\ Goto(p, "release")
  /\ UNCHANGED <<own, other, moved, links>>

--------------------------------------------------------------------------------
(* uninstall.                                                              *)

(* The plan made under the lock: a healthy installation, or none at all.   *)
Confirm(p) ==
  /\ At(p, "confirm")
  /\ \/ /\ Healthy \/ (~root.there /\ ~Residues /\ links = {})
        /\ Goto(p, "moveTree")
     \/ Fail(p, "release", "failed")
  /\ UNCHANGED <<own, other, diskVars>>

MoveTree(p) ==
  /\ At(p, "moveTree")
  /\ \/ root.there /\ moved' = root /\ root' = NoTree /\ Goto(p, "moveLauncher")
     \/ Fail(p, "backManager", "failed") /\ UNCHANGED <<root, moved>>
  /\ UNCHANGED <<own, other, links>>

MoveLink(p, here, link, backup, there) ==
  /\ At(p, here)
  /\ \/ links' = (links \ {link}) \cup {backup} /\ Goto(p, there)
     \/ Fail(p, "backManager", "failed") /\ UNCHANGED links
  /\ UNCHANGED <<own, other, root, moved>>

MoveLauncher(p) == MoveLink(p, "moveLauncher", "launcher", "launcherBackup", "moveManager")
MoveManager(p)  == MoveLink(p, "moveManager", "manager", "managerBackup", "delete")

(* rollbackDeactivation tries every step, whatever fails.                  *)
BackLink(p, here, link, backup, there) ==
  /\ At(p, here)
  /\ \/ backup \notin links /\ Goto(p, there) /\ UNCHANGED links
     \/ /\ backup \in links
        /\ links' = (links \ {backup}) \cup {link} /\ Goto(p, there)
     \/ backup \in links /\ Fail(p, there, "unrestored") /\ UNCHANGED links
  /\ UNCHANGED <<own, other, root, moved>>

BackManager(p)  == BackLink(p, "backManager", "manager", "managerBackup", "backLauncher")
BackLauncher(p) == BackLink(p, "backLauncher", "launcher", "launcherBackup", "backTree")

BackTree(p) ==
  /\ At(p, "backTree")
  /\ \/ ~(moved.there /\ ~root.there) /\ Goto(p, "release") /\ UNCHANGED <<root, moved>>
     \/ /\ moved.there /\ ~root.there
        /\ root' = moved /\ moved' = NoTree /\ Goto(p, "release")
     \/ moved.there /\ ~root.there /\ Fail(p, "release", "unrestored") /\ UNCHANGED <<root, moved>>
  /\ UNCHANGED <<own, other, links>>

(* deleteQuarantine: one release after the other, then the rest.           *)
DeleteRelease(p) ==
  /\ At(p, "delete")
  /\ \/ Empty(moved) /\ Goto(p, "deleteReleases") /\ UNCHANGED moved
     \/ \E r \in Releases :
          /\ moved.release[r] = "whole"
          /\ \A s \in 1..(r - 1) : moved.release[s] = "none"
          /\ moved' = [moved EXCEPT !.release[r] = "part"]
          /\ Goto(p, "deletePart")
     \/ ~Empty(moved) /\ Fail(p, "judge", "failed") /\ UNCHANGED moved
  /\ UNCHANGED <<own, other, root, links>>

DeletePart(p) ==
  /\ At(p, "deletePart")
  /\ \/ /\ moved' = [moved EXCEPT !.release =
                       [r \in Releases |-> IF @[r] = "part" THEN "none" ELSE @[r]]]
        /\ Goto(p, "delete")
     \/ Fail(p, "judge", "failed") /\ UNCHANGED moved
  /\ UNCHANGED <<own, other, root, links>>

Delete(p, here, tree, remaining, there) ==
  /\ At(p, here)
  /\ \/ moved' = tree /\ links' = remaining /\ Goto(p, there)
     \/ Fail(p, "judge", "failed") /\ UNCHANGED <<moved, links>>
  /\ UNCHANGED <<own, other, root>>

DeleteReleases(p) ==
  Delete(p, "deleteReleases", [moved EXCEPT !.dir = FALSE], links, "deleteCurrent")
DeleteCurrent(p) ==
  Delete(p, "deleteCurrent", [moved EXCEPT !.current = 0], links, "deleteTree")
DeleteTree(p) == Delete(p, "deleteTree", NoTree, links, "deleteLauncher")
DeleteLauncher(p) ==
  Delete(p, "deleteLauncher", moved, links \ {"launcherBackup"}, "deleteManager")

DeleteManager(p) ==
  /\ At(p, "deleteManager")
  /\ \/ links' = links \ {"managerBackup"} /\ Fail(p, "release", "removed")
     \/ Fail(p, "judge", "failed") /\ UNCHANGED links
  /\ UNCHANGED <<own, other, root, moved>>

(* quarantineIsIntact.                                                     *)
Intact_AnyTree(p) ==                                                \* fault
  moved.there /\ Backups \subseteq links /\ moved.current # 0
Intact(p) ==
  /\ moved.there /\ Backups \subseteq links /\ moved.current # 0
  /\ moved.release = prior[p].root.release

Judge(p) ==
  /\ At(p, "judge")
  /\ IF Intact(p) THEN Goto(p, "backManager") ELSE Fail(p, "release", "stopped")
  /\ UNCHANGED <<own, other, diskVars>>

--------------------------------------------------------------------------------
Command(p) ==
  \/ \E r \in Releases : BeginInstall(p, r)
  \/ BeginUninstall(p) \/ Acquire(p) \/ LockRefused(p) \/ Release(p) \/ Die(p)

Install(p) ==
  \/ MakeRoot(p) \/ MakeReleases(p) \/ Validate(p) \/ MakeStage(p) \/ Publish(p)
  \/ PrepareLinks(p) \/ SwitchLink(p) \/ RestoreLink(p) \/ CleanLinks(p)
  \/ DropStage(p) \/ DropRelease(p) \/ DropPart(p) \/ DropReleases(p) \/ DropRoot(p)

Uninstall(p) ==
  \/ Confirm(p) \/ MoveTree(p) \/ MoveLauncher(p) \/ MoveManager(p)
  \/ BackManager(p) \/ BackLauncher(p) \/ BackTree(p)
  \/ DeleteRelease(p) \/ DeletePart(p) \/ DeleteReleases(p) \/ DeleteCurrent(p)
  \/ DeleteTree(p) \/ DeleteLauncher(p) \/ DeleteManager(p) \/ Judge(p)

Next == \E p \in Procs : Command(p) \/ Install(p) \/ Uninstall(p)

Spec == Init /\ [][Next]_vars

--------------------------------------------------------------------------------
(* Every variable has its type.                                            *)
TypeOK ==
  /\ pc \in [Procs -> Places]
  /\ want \in [Procs -> 0..NReleases]
  /\ prior \in [Procs -> [root : Trees, moved : Trees, links : SUBSET (Launchers \cup Backups)]]
  /\ created \in [Procs -> SUBSET {"root", "releases", "release"}]
  /\ activated \in [Procs -> 0..3]
  /\ outcome \in [Procs -> Outcomes]
  /\ holders \subseteq Procs
  /\ root \in Trees /\ moved \in Trees
  /\ links \subseteq Launchers \cup Backups
  /\ runs \in 0..MaxRuns

--------------------------------------------------------------------------------
(* Correctness.                                                            *)

(* "current" points to a complete release, at every moment and whatever    *)
(* dies or fails: a release is complete before it is linked, and a release *)
(* that could not be deactivated is not deleted.                           *)
CurrentIsWhole ==
  root.current # 0 => root.there /\ root.dir /\ root.release[root.current] = "whole"

(* The command 220 can be run.                                             *)
Runnable == root.current # 0 /\ "launcher" \in links

(* Once there is a command to run, only an uninstall takes it away, even   *)
(* for a moment: upgrades, their failures, rollbacks and deaths leave one  *)
(* in place.  A first install may still be rolled back.                    *)
OnlyUninstallStops ==
  [][Runnable /\ ~Runnable' =>
       \E p \in holders : pc[p] = "moveTree" \/ (pc[p] = "restore" /\ prior[p].root.current = 0)]_vars

(* A command that ends with the error it met, and not with an error of the *)
(* undoing, has undone everything but empty directories: links, releases   *)
(* and trees are what they were, also when an uninstall says "restored".   *)
FailedChangesNothing ==
  \A p \in Procs : pc[p] = "release" /\ outcome[p] = "failed" =>
    /\ links = prior[p].links /\ moved = prior[p].moved
    /\ [root EXCEPT !.there = FALSE, !.dir = FALSE] =
       [prior[p].root EXCEPT !.there = FALSE, !.dir = FALSE]

(* A successful install is healthy, and of no older version than before; a *)
(* successful uninstall leaves nothing.                                    *)
SuccessIsComplete ==
  \A p \in Procs : pc[p] = "release" =>
    /\ outcome[p] = "installed" =>
         Healthy /\ root.current = want[p] /\ prior[p].root.current <= want[p]
    /\ outcome[p] = "removed" => root = NoTree /\ moved = NoTree /\ links = {}

(* While a tree is moved aside no other is installed: the way back to the  *)
(* former installation stays open, even when the uninstall died.           *)
NoInstallBesideResidue == moved.there => root.current = 0

(* README.md: the installer "activates a release atomically".  Once nobody *)
(* works on them, the three links are all in place or none of them is.     *)
ActivatesAtomically ==
  holders = {} /\ ~Residues => (root.current # 0 <=> "launcher" \in links /\ "manager" \in links)

--------------------------------------------------------------------------------
(* The inductive invariant: the lock, the trees whoever holds it, and for  *)
(* the holder what each place knows of the disk and of what it found.      *)

LockOK ==
  /\ \A p \in Procs : p \in holders <=> pc[p] \notin {"idle", "acquire"}
  /\ \A p, q \in holders : p = q

TreesOK ==
  /\ ~root.there => root = NoTree
  /\ ~moved.there => moved = NoTree

(* A command has no outcome, and an install has made nothing, while it     *)
(* waits for the lock.                                                     *)
WaitingOK(p) ==
  pc[p] = "acquire" => /\ outcome[p] = "none"
                       /\ want[p] # 0 => created[p] = {} /\ activated[p] = 0

Early   == {"makeReleases", "validate"}
Staging == {"makeStage", "publish", "dropStage"}
Linking == {"prepare", "switch", "restore", "clean", "dropRelease"}
Ending  == {"dropReleases", "dropRoot"}
InstallPlaces == {"makeRoot", "dropPart"} \cup Early \cup Staging \cup Linking \cup Ending

(* The same but for empty directories.                                     *)
Alike(t, u) ==
  t.release = u.release /\ t.stage = u.stage /\ t.current = u.current /\ t.litter = u.litter
Untouched(p) ==
  links = prior[p].links /\ moved = prior[p].moved /\ Alike(root, prior[p].root)

PriorOK(p) ==
  LET t == prior[p].root
  IN /\ ~t.there => t = NoTree
     /\ t.current # 0 => t.there /\ t.dir /\ t.release[t.current] = "whole"
     /\ ~prior[p].moved.there => prior[p].moved = NoTree

(* What an install was allowed to build upon.                              *)
Accepted(p) ==
  LET t == prior[p].root
  IN /\ ~prior[p].moved.there /\ prior[p].links \cap Backups = {}
     /\ ~t.stage /\ t.litter = {} /\ AllWhole(t)
     /\ t.current # 0 => Launchers \subseteq prior[p].links /\ t.current <= want[p]

(* The links that activateLinks has renamed so far.                        *)
Activated(p) ==
  /\ root.current = IF activated[p] = 0 THEN prior[p].root.current ELSE want[p]
  /\ links = prior[p].links \cup IF activated[p] = 2 THEN {"launcher"} ELSE {}

Deactivated(p) == root.current = prior[p].root.current /\ links = prior[p].links

MakingOK(p) ==
  /\ pc[p] \in InstallPlaces => /\ want[p] \in Releases
                                /\ "root" \in created[p] => prior[p].root = NoTree
  /\ pc[p] = "makeRoot" => Disk = prior[p] /\ created[p] = {} /\ activated[p] = 0
  /\ pc[p] \in InstallPlaces \ {"makeRoot"} => root.there
  /\ pc[p] \in Early => Untouched(p) /\ "release" \notin created[p] /\ activated[p] = 0
  /\ pc[p] \in {"validate"} \cup Staging \cup Linking => root.dir
  /\ pc[p] \in Ending /\ outcome[p] = "failed" => Untouched(p)

StagingOK(p) ==
  pc[p] \in Staging =>
    /\ Accepted(p) /\ moved = prior[p].moved /\ Deactivated(p)
    /\ root.release = prior[p].root.release /\ root.release[want[p]] = "none"
    /\ root.litter = {} /\ (pc[p] = "makeStage" => ~root.stage)
    /\ "release" \notin created[p] /\ activated[p] = 0

(* The release is there, and it is known who put it there.                 *)
Published(p) ==
  /\ Accepted(p) /\ moved = prior[p].moved /\ ~root.stage
  /\ root.release = [prior[p].root.release EXCEPT ![want[p]] =
                       IF pc[p] = "dropPart" THEN "part" ELSE "whole"]
  /\ "release" \in created[p] <=> prior[p].root.release[want[p]] = "none"

LinkingOK(p) ==
  /\ pc[p] \in Linking \cup {"dropPart"} => Published(p)
  /\ pc[p] = "prepare" => Deactivated(p) /\ root.litter = {} /\ activated[p] = 0
  /\ pc[p] = "switch" =>
       /\ activated[p] <= 2 /\ Activated(p)
       /\ root.litter = IF activated[p] = 0 THEN {"activate"} ELSE {}
  /\ pc[p] = "restore" =>
       /\ activated[p] <= 2
       /\ outcome[p] = "failed" => Activated(p) /\ root.litter \subseteq {"activate"}
  /\ pc[p] = "clean" /\ outcome[p] = "failed" => Deactivated(p) /\ root.litter \subseteq {"activate"}
  /\ pc[p] \in {"dropRelease", "dropPart"} /\ outcome[p] = "failed" =>
       Deactivated(p) /\ root.litter = {}
  /\ pc[p] = "dropPart" => "release" \in created[p] /\ root.current # want[p]

(* An uninstall found a healthy installation and has moved it aside.       *)
Aside(p) ==
  LET t == prior[p].root
  IN /\ t.there /\ t.dir /\ t.current # 0 /\ t.release[t.current] = "whole"
     /\ prior[p].moved = NoTree /\ prior[p].links = Launchers
     /\ root = NoTree

(* The same but for releases.                                              *)
Resemble(t, u) ==
  /\ t.there = u.there /\ t.dir = u.dir
  /\ t.stage = u.stage /\ t.current = u.current /\ t.litter = u.litter
Deleting(p) == Aside(p) /\ Resemble(moved, prior[p].root)

MovingOK(p) ==
  /\ pc[p] = "confirm" => Disk = prior[p]
  /\ pc[p] = "moveTree" =>
       /\ Disk = prior[p] /\ ~Residues
       /\ root.there => root.dir /\ root.current # 0 /\ root.release[root.current] = "whole"
                        /\ links = Launchers
  /\ pc[p] = "moveLauncher" => Aside(p) /\ moved = prior[p].root /\ links = Launchers
  /\ pc[p] = "moveManager" =>
       Aside(p) /\ moved = prior[p].root /\ links = {"manager", "launcherBackup"}
  /\ pc[p] \in {"backManager", "backLauncher", "backTree"} =>
       \/ Disk = prior[p] /\ ~Residues
       \/ /\ Aside(p) /\ moved = prior[p].root
          /\ outcome[p] = "failed" =>
               \/ links = Launchers
               \/ links = {"manager", "launcherBackup"} /\ pc[p] # "backTree"
               \/ links = Backups /\ pc[p] = "backManager"

DeletingOK(p) ==
  /\ pc[p] \in {"delete", "deletePart", "deleteReleases"} => Deleting(p) /\ links = Backups
  /\ pc[p] = "deleteReleases" => Empty(moved)
  /\ pc[p] = "deleteCurrent" => Aside(p) /\ moved.there /\ Empty(moved) /\ links = Backups
  /\ pc[p] = "deleteTree" => Aside(p) /\ moved.there /\ moved.current = 0 /\ links = Backups
  /\ pc[p] = "deleteLauncher" => Aside(p) /\ moved = NoTree /\ links = Backups
  /\ pc[p] = "deleteManager" => Aside(p) /\ moved = NoTree /\ links = {"managerBackup"}
  /\ pc[p] = "judge" =>
       /\ Aside(p) /\ outcome[p] = "failed" /\ links \subseteq Backups
       /\ moved.there /\ moved.current # 0 /\ ~Empty(moved) => Deleting(p)

(* Success is the last thing that happens.                                 *)
ReleaseOK(p) ==
  /\ outcome[p] \in {"installed", "removed"} => pc[p] = "release"
  /\ pc[p] = "release" =>
       /\ outcome[p] = "failed" => Untouched(p)
       /\ outcome[p] = "installed" =>
            Healthy /\ root.current = want[p] /\ prior[p].root.current <= want[p]
       /\ outcome[p] = "removed" => root = NoTree /\ moved = NoTree /\ links = {}

HolderOK(p) ==
  /\ PriorOK(p) /\ MakingOK(p) /\ StagingOK(p) /\ LinkingOK(p)
  /\ MovingOK(p) /\ DeletingOK(p) /\ ReleaseOK(p)

DiskOK == TreesOK /\ CurrentIsWhole /\ NoInstallBesideResidue

IInv ==
  /\ TypeOK /\ LockOK /\ DiskOK
  /\ \A p \in Procs : WaitingOK(p)
  /\ \A p \in holders : HolderOK(p)
================================================================================
