----------------------------- MODULE InstallerProofs -----------------------------
(***************************************************************************)
(* Proofs about the installer.                                             *)
(*                                                                         *)
(* InstallTransaction, for every number of processes, releases and         *)
(* commands: whatever dies or fails, "current" leads to a whole release,   *)
(* a failed command has changed nothing, a successful one is complete, and *)
(* only an uninstall takes the application away.                           *)
(*                                                                         *)
(* InstallLock, for every set of processes: it implements the exclusive    *)
(* lock that the transactions rely on.                                     *)
(***************************************************************************)
EXTENDS InstallTransaction, InstallLock, TLAPS

--------------------------------------------------------------------------------
(* The installation transactions.                                          *)


USE NReleasesAssumption, MaxRunsAssumption
USE DEF At, Goto, Fail, own, other, procVars, diskVars, Releases, Launchers, Backups,
        Early, Staging, Linking, Ending, InstallPlaces

--------------------------------------------------------------------------------
(* Trees: what a change of one field leaves alone.                         *)

LEMMA EmptyTree ==
  /\ NoTree \in Trees
  /\ ~NoTree.there /\ ~NoTree.dir /\ ~NoTree.stage /\ NoTree.current = 0 /\ NoTree.litter = {}
  /\ \A r \in Releases : NoTree.release[r] = "none"
BY DEF NoTree, Trees

LEMMA SetThere ==
  ASSUME NEW t \in Trees, NEW u, u = [t EXCEPT !.there = TRUE]
  PROVE  /\ u \in Trees
         /\ u.there /\ u.dir = t.dir /\ u.release = t.release
         /\ u.stage = t.stage /\ u.current = t.current /\ u.litter = t.litter
BY DEF Trees

LEMMA SetDir ==
  ASSUME NEW t \in Trees, NEW b \in BOOLEAN, NEW u, u = [t EXCEPT !.dir = b]
  PROVE  /\ u \in Trees
         /\ u.there = t.there /\ u.dir = b /\ u.release = t.release
         /\ u.stage = t.stage /\ u.current = t.current /\ u.litter = t.litter
BY DEF Trees

LEMMA SetStage ==
  ASSUME NEW t \in Trees, NEW b \in BOOLEAN, NEW u, u = [t EXCEPT !.stage = b]
  PROVE  /\ u \in Trees
         /\ u.there = t.there /\ u.dir = t.dir /\ u.release = t.release
         /\ u.stage = b /\ u.current = t.current /\ u.litter = t.litter
BY DEF Trees

LEMMA SetReleases ==
  ASSUME NEW t \in Trees, NEW f \in [Releases -> {"none", "part", "whole"}],
         NEW u, u = [t EXCEPT !.release = f]
  PROVE  /\ u \in Trees
         /\ u.there = t.there /\ u.dir = t.dir /\ u.release = f
         /\ u.stage = t.stage /\ u.current = t.current /\ u.litter = t.litter
BY DEF Trees

LEMMA SameTree ==
  ASSUME NEW t \in Trees, NEW u \in Trees, Resemble(t, u), t.release = u.release
  PROVE  t = u
BY DEF Trees, Resemble

--------------------------------------------------------------------------------
(* The holder acts alone: nobody else knows anything of the disk.          *)

LEMMA HolderActs ==
  ASSUME IInv, NEW p \in Procs, pc[p] \notin {"idle", "acquire"}
  PROVE  holders = {p} /\ HolderOK(p) /\ TypeOK /\ DiskOK
BY DEF IInv, LockOK

LEMMA HolderStep ==
  ASSUME IInv, NEW p \in Procs, pc[p] \notin {"idle", "acquire"},
         NEW there, there \notin {"idle", "acquire"}, pc' = [pc EXCEPT ![p] = there],
         holders' = holders, want' = want,
         \A q \in Procs \ {p} : /\ created'[q] = created[q] /\ activated'[q] = activated[q]
                               /\ outcome'[q] = outcome[q],
         TypeOK', DiskOK', HolderOK(p)'
  PROVE  IInv'
<1>1. holders = {p} /\ pc'[p] = there
  BY DEF IInv, LockOK, TypeOK
<1>2. LockOK'
  BY DEF IInv, LockOK
<1>3. \A q \in Procs : WaitingOK(q)'
  BY DEF IInv, WaitingOK
<1>4. \A q \in holders' : HolderOK(q)'
  BY <1>1
<1> QED BY <1>2, <1>3, <1>4 DEF IInv

--------------------------------------------------------------------------------
(* The actions of install_application and of undoing it.                    *)

LEMMA MakeRootInv == ASSUME IInv, NEW p \in Procs, MakeRoot(p) PROVE IInv'
<1>1. PICK there \in {"makeReleases", "release"} :
        pc[p] = "makeRoot" /\ pc' = [pc EXCEPT ![p] = there]
  BY DEF MakeRoot
<1>2. holders = {p} /\ HolderOK(p) /\ TypeOK /\ DiskOK /\ pc'[p] = there
  BY <1>1, HolderActs DEF TypeOK
<1>3. root' \in Trees /\ root'.dir = root.dir /\ Alike(root', root)
  BY <1>2, SetThere DEF MakeRoot, TypeOK, Alike
<1>4. /\ want' = want /\ prior' = prior /\ moved' = moved /\ links' = links
      /\ activated' = activated
      /\ \/ /\ there = "makeReleases" /\ root'.there
            /\ \/ root.there /\ created'[p] = created[p]
               \/ ~root.there /\ created'[p] = created[p] \cup {"root"}
         \/ /\ there = "release" /\ outcome'[p] = "failed" /\ created' = created
            /\ root' = root \/ root'.there
  BY <1>2, SetThere DEF MakeRoot, TypeOK
<1>5. pc' \in [Procs -> Places] /\ outcome' \in [Procs -> Outcomes]
  BY <1>2 DEF MakeRoot, TypeOK, Places, Outcomes
<1>6. /\ created' \in [Procs -> SUBSET {"root", "releases", "release"}]
      /\ activated' \in [Procs -> 0..3] /\ UNCHANGED <<want, prior, holders, runs>>
  BY <1>2 DEF MakeRoot, TypeOK
<1>7. root' \in Trees /\ moved' \in Trees /\ links' \subseteq Launchers \cup Backups
  BY <1>2, <1>3, <1>4 DEF TypeOK
<1>8. outcome'[p] \in {"installed", "removed"} => outcome' = outcome \/ there = "release"
  BY <1>1, <1>2 DEF MakeRoot
<1>9. TypeOK'
  BY <1>5, <1>6, <1>7, <1>2 DEF TypeOK
<1>10. TreesOK'
  BY <1>2, <1>4 DEF DiskOK, TreesOK
<1>11. CurrentIsWhole'
  BY <1>2, <1>3, <1>4 DEF DiskOK, CurrentIsWhole, Alike
<1>12. NoInstallBesideResidue'
  BY <1>2, <1>3, <1>4 DEF DiskOK, NoInstallBesideResidue, Alike
<1>13. DiskOK'
  BY <1>10, <1>11, <1>12 DEF DiskOK
<1>14. PriorOK(p)' /\ StagingOK(p)' /\ LinkingOK(p)' /\ MovingOK(p)' /\ DeletingOK(p)'
  BY <1>2, <1>4 DEF HolderOK, PriorOK, StagingOK, LinkingOK, MovingOK, DeletingOK
<1>15. MakingOK(p)'
  BY <1>1, <1>2, <1>3, <1>4 DEF HolderOK, MakingOK, Untouched, Alike, Disk, ReleaseOK, DiskOK,
       TreesOK
<1>16. ReleaseOK(p)'
  BY <1>1, <1>2, <1>3, <1>4, <1>8 DEF HolderOK, MakingOK, Untouched, Disk, ReleaseOK
<1> QED
  BY <1>2, <1>9, <1>13, <1>14, <1>15, <1>16, HolderStep DEF MakeRoot, HolderOK, TypeOK

LEMMA MakeReleasesInv == ASSUME IInv, NEW p \in Procs, MakeReleases(p) PROVE IInv'
<1>1. PICK there \in {"validate", "dropRoot"} :
        pc[p] = "makeReleases" /\ pc' = [pc EXCEPT ![p] = there]
  BY DEF MakeReleases
<1>2. holders = {p} /\ HolderOK(p) /\ TypeOK /\ DiskOK /\ pc'[p] = there
  BY <1>1, HolderActs DEF TypeOK
<1>3. root' \in Trees /\ root'.there = root.there /\ Alike(root', root)
  BY <1>1, <1>2, SetDir DEF MakeReleases, TypeOK, Alike
<1>4. /\ want' = want /\ prior' = prior /\ moved' = moved /\ links' = links
      /\ activated' = activated /\ (root.dir => root'.dir)
      /\ \/ /\ there = "validate" /\ root'.dir
            /\ created'[p] = created[p] \/ created'[p] = created[p] \cup {"releases"}
         \/ there = "dropRoot" /\ outcome'[p] = "failed" /\ created' = created
  BY <1>1, <1>2, <1>3, SetDir DEF MakeReleases, TypeOK
<1>5. pc' \in [Procs -> Places] /\ outcome' \in [Procs -> Outcomes]
  BY <1>2 DEF MakeReleases, TypeOK, Places, Outcomes
<1>6. /\ created' \in [Procs -> SUBSET {"root", "releases", "release"}]
      /\ activated' \in [Procs -> 0..3] /\ UNCHANGED <<want, prior, holders, runs>>
  BY <1>2 DEF MakeReleases, TypeOK
<1>7. root' \in Trees /\ moved' \in Trees /\ links' \subseteq Launchers \cup Backups
  BY <1>2, <1>3, <1>4 DEF TypeOK
<1>8. outcome'[p] \in {"installed", "removed"} => outcome' = outcome \/ there = "release"
  BY <1>2 DEF MakeReleases, TypeOK
<1>9. TypeOK'
  BY <1>5, <1>6, <1>7, <1>2 DEF TypeOK
<1>10. root.there
  BY <1>1, <1>2 DEF HolderOK, MakingOK
<1>11. TreesOK'
  BY <1>2, <1>3, <1>4, <1>10 DEF DiskOK, TreesOK
<1>12. CurrentIsWhole'
  BY <1>2, <1>3, <1>4 DEF DiskOK, CurrentIsWhole, Alike
<1>13. NoInstallBesideResidue'
  BY <1>2, <1>3, <1>4 DEF DiskOK, NoInstallBesideResidue, Alike
<1>14. DiskOK'
  BY <1>11, <1>12, <1>13 DEF DiskOK
<1>15. PriorOK(p)' /\ StagingOK(p)' /\ LinkingOK(p)' /\ MovingOK(p)' /\ DeletingOK(p)' /\ ReleaseOK(p)'
  BY <1>1, <1>2, <1>4, <1>8 DEF HolderOK, PriorOK, StagingOK, LinkingOK, MovingOK, DeletingOK,
       ReleaseOK
<1>16. MakingOK(p)'
  BY <1>1, <1>2, <1>3, <1>4 DEF HolderOK, MakingOK, Untouched, Alike
<1> QED
  BY <1>2, <1>9, <1>14, <1>15, <1>16, HolderStep DEF MakeReleases, HolderOK, TypeOK

LEMMA ValidateInv == ASSUME IInv, NEW p \in Procs, Validate(p) PROVE IInv'
<1>1. PICK there \in {"dropReleases", "makeStage", "prepare"} :
        pc[p] = "validate" /\ pc' = [pc EXCEPT ![p] = there]
  BY DEF Validate
<1>2. holders = {p} /\ HolderOK(p) /\ TypeOK /\ DiskOK /\ pc'[p] = there
  BY <1>1, HolderActs DEF TypeOK
<1>3. want[p] \in Releases
  BY <1>1, <1>2 DEF HolderOK, MakingOK
<1>4. /\ UNCHANGED <<want, prior, created, activated, root, moved, links>>
      /\ \/ there = "dropReleases" /\ outcome'[p] = "failed"
         \/ there = "makeStage" /\ root.release[want[p]] = "none"
         \/ there = "prepare" /\ root.release[want[p]] = "whole"
  BY <1>2 DEF Validate, TypeOK
<1>5. root.release[want[p]] = "whole" =>
        root.release = [root.release EXCEPT ![want[p]] = "whole"]
  BY <1>2 DEF TypeOK, Trees
<1>6. there # "dropReleases" => Accepted(p) /\ root.litter = {} /\ ~root.stage
  BY <1>1, <1>2 DEF Validate, Acceptable, Healthy, Residues, AllWhole, Empty, HolderOK, MakingOK,
       Untouched, Alike, Accepted
<1>7. pc' \in [Procs -> Places] /\ outcome' \in [Procs -> Outcomes]
  BY <1>1, <1>2 DEF Validate, TypeOK, Places, Outcomes
<1>8. /\ created' \in [Procs -> SUBSET {"root", "releases", "release"}]
      /\ activated' \in [Procs -> 0..3] /\ UNCHANGED <<want, prior, holders, runs>>
  BY <1>2 DEF Validate, TypeOK
<1>9. root' \in Trees /\ moved' \in Trees /\ links' \subseteq Launchers \cup Backups
  BY <1>2, <1>4 DEF TypeOK
<1>10. outcome'[p] \in {"installed", "removed"} => outcome' = outcome \/ there = "release"
  BY <1>2 DEF Validate, TypeOK
<1>11. TypeOK'
  BY <1>7, <1>8, <1>9, <1>2 DEF TypeOK
<1>12. DiskOK'
  BY <1>2, <1>4 DEF DiskOK, TreesOK, CurrentIsWhole, NoInstallBesideResidue
<1>13. PriorOK(p)' /\ MovingOK(p)' /\ DeletingOK(p)' /\ ReleaseOK(p)'
  BY <1>1, <1>2, <1>4, <1>10 DEF HolderOK, PriorOK, MovingOK, DeletingOK, ReleaseOK
<1>14. MakingOK(p)'
  BY <1>1, <1>2, <1>4 DEF HolderOK, MakingOK, Untouched
<1>15. StagingOK(p)'
  BY <1>1, <1>2, <1>4, <1>6 DEF HolderOK, MakingOK, Untouched, Alike, StagingOK, Accepted,
       Deactivated
<1>16. LinkingOK(p)'
  BY <1>1, <1>2, <1>4, <1>5, <1>6 DEF HolderOK, MakingOK, Untouched, Alike, LinkingOK, Published,
       Accepted, Deactivated
<1> QED
  BY <1>2, <1>11, <1>12, <1>13, <1>14, <1>15, <1>16, HolderStep DEF Validate, Acceptable, Healthy,
       Residues, HolderOK, TypeOK

LEMMA MakeStageInv == ASSUME IInv, NEW p \in Procs, MakeStage(p) PROVE IInv'
<1>1. PICK there \in {"publish", "dropReleases"} :
        pc[p] = "makeStage" /\ pc' = [pc EXCEPT ![p] = there]
  BY DEF MakeStage
<1>2. holders = {p} /\ HolderOK(p) /\ TypeOK /\ DiskOK /\ pc'[p] = there
  BY <1>1, HolderActs DEF TypeOK
<1>3. /\ UNCHANGED <<want, prior, created, activated, moved, links>>
      /\ root' \in Trees /\ root'.there = root.there /\ root'.dir = root.dir
      /\ root'.release = root.release /\ root'.current = root.current
      /\ root'.litter = root.litter
      /\ \/ there = "publish"
         \/ there = "dropReleases" /\ outcome'[p] = "failed" /\ UNCHANGED root
  BY <1>1, <1>2, SetStage DEF MakeStage, TypeOK
<1>4. pc' \in [Procs -> Places] /\ outcome' \in [Procs -> Outcomes]
  BY <1>1, <1>2 DEF MakeStage, TypeOK, Places, Outcomes
<1>5. /\ created' \in [Procs -> SUBSET {"root", "releases", "release"}]
      /\ activated' \in [Procs -> 0..3] /\ UNCHANGED <<want, prior, holders, runs>>
  BY <1>2 DEF MakeStage, TypeOK
<1>6. root' \in Trees /\ moved' \in Trees /\ links' \subseteq Launchers \cup Backups
  BY <1>2, <1>3 DEF TypeOK
<1>7. outcome'[p] \in {"installed", "removed"} => outcome' = outcome \/ there = "release"
  BY <1>2 DEF MakeStage, TypeOK
<1>8. TypeOK'
  BY <1>4, <1>5, <1>6, <1>2 DEF TypeOK
<1>9. root.there /\ ~moved.there
  BY <1>1, <1>2 DEF HolderOK, MakingOK, StagingOK, Accepted
<1>10. TreesOK'
  BY <1>2, <1>3, <1>9 DEF DiskOK, TreesOK
<1>11. CurrentIsWhole'
  BY <1>2, <1>3 DEF DiskOK, CurrentIsWhole
<1>12. NoInstallBesideResidue'
  BY <1>3, <1>9 DEF NoInstallBesideResidue
<1>13. DiskOK'
  BY <1>10, <1>11, <1>12 DEF DiskOK
<1>14. PriorOK(p)' /\ LinkingOK(p)' /\ MovingOK(p)' /\ DeletingOK(p)' /\ ReleaseOK(p)'
  BY <1>1, <1>2, <1>3, <1>7 DEF HolderOK, PriorOK, LinkingOK, MovingOK, DeletingOK, ReleaseOK
<1>15. MakingOK(p)'
  BY <1>1, <1>2, <1>3, <1>7, <1>9 DEF TypeOK, HolderOK, MakingOK, Untouched, Alike, Disk,
       StagingOK, Accepted, Deactivated, ReleaseOK, Trees
<1>16. StagingOK(p)'
  BY <1>1, <1>2, <1>3 DEF HolderOK, StagingOK, Accepted, Deactivated
<1> QED
  BY <1>2, <1>8, <1>13, <1>14, <1>15, <1>16, HolderStep DEF MakeStage, HolderOK, TypeOK

LEMMA PublishInv == ASSUME IInv, NEW p \in Procs, Publish(p) PROVE IInv'
<1>1. PICK there \in {"prepare", "dropStage"} :
        pc[p] = "publish" /\ pc' = [pc EXCEPT ![p] = there]
  BY DEF Publish
<1>2. holders = {p} /\ HolderOK(p) /\ TypeOK /\ DiskOK /\ pc'[p] = there
  BY <1>1, HolderActs DEF TypeOK
<1>3. want[p] \in Releases
  BY <1>1, <1>2 DEF HolderOK, MakingOK
<1>4. /\ root \in Trees /\ root.current \in 0..NReleases /\ root.stage \in BOOLEAN
      /\ root.release \in [Releases -> {"none", "part", "whole"}]
      /\ root.litter \subseteq {"activate", "restore"}
  BY <1>2 DEF TypeOK, Trees
<1>5. PICK tree : tree = [root EXCEPT !.stage = FALSE, !.release[want[p]] = "whole"]
  OBVIOUS
<1>6. /\ tree \in Trees
      /\ tree.there = root.there /\ tree.dir = root.dir
      /\ tree.release = [root.release EXCEPT ![want[p]] = "whole"]
      /\ tree.stage = FALSE /\ tree.current = root.current
      /\ tree.litter = root.litter
  BY <1>5, <1>4, <1>3 DEF Trees
<1>7. /\ UNCHANGED <<want, prior, activated, moved, links>>
      /\ \/ there = "prepare" /\ created'[p] = created[p] \cup {"release"} /\ root' = tree
         \/ there = "dropStage" /\ UNCHANGED <<root, created>>
  BY <1>2, <1>5 DEF Publish, TypeOK
<1>8. pc' \in [Procs -> Places] /\ outcome' \in [Procs -> Outcomes]
  BY <1>2 DEF Publish, TypeOK, Places, Outcomes
<1>9. /\ created' \in [Procs -> SUBSET {"root", "releases", "release"}]
      /\ activated' \in [Procs -> 0..3] /\ UNCHANGED <<want, prior, holders, runs>>
  BY <1>2 DEF Publish, TypeOK
<1>10. root' \in Trees /\ moved' \in Trees /\ links' \subseteq Launchers \cup Backups
  BY <1>2, <1>6, <1>7 DEF TypeOK
<1>11. outcome'[p] \in {"installed", "removed"} => outcome' = outcome \/ there = "release"
  BY <1>2 DEF Publish, TypeOK
<1>12. TypeOK'
  BY <1>8, <1>9, <1>10, <1>2 DEF TypeOK
<1>13. /\ prior[p].root.release \in [Releases -> {"none", "part", "whole"}]
       /\ prior[p].root.stage \in BOOLEAN /\ prior[p].root.current \in 0..NReleases
  BY <1>2 DEF TypeOK, Trees
<1>14. root.there /\ root.dir /\ ~moved.there /\ root.release[want[p]] = "none"
  BY <1>1, <1>2 DEF HolderOK, MakingOK, StagingOK, Accepted
<1>15. root.current # 0 => root.current \in Releases /\ root.current # want[p]
  BY <1>2, <1>4, <1>14 DEF DiskOK, CurrentIsWhole
<1>16. TreesOK'
  BY <1>1, <1>2, <1>3, <1>4, <1>6, <1>7, <1>11, <1>13, <1>14, <1>15 DEF DiskOK, TreesOK
<1>17. CurrentIsWhole'
  BY <1>2, <1>4, <1>6, <1>7 DEF DiskOK, CurrentIsWhole
<1>18. NoInstallBesideResidue'
  BY <1>7, <1>14 DEF NoInstallBesideResidue
<1>19. DiskOK'
  BY <1>16, <1>17, <1>18 DEF DiskOK
<1>20. PriorOK(p)' /\ MovingOK(p)' /\ DeletingOK(p)' /\ ReleaseOK(p)'
  BY <1>1, <1>2, <1>7, <1>11 DEF HolderOK, PriorOK, MovingOK, DeletingOK, ReleaseOK
<1>21. MakingOK(p)'
  BY <1>1, <1>2, <1>6, <1>7, <1>15 DEF TypeOK, HolderOK, MakingOK, Untouched, Alike, Disk,
       StagingOK, Accepted, Deactivated, ReleaseOK, Trees
<1>22. StagingOK(p)'
  BY <1>1, <1>2, <1>7 DEF HolderOK, StagingOK, Accepted, Deactivated
<1>23. LinkingOK(p)'
  BY <1>1, <1>2, <1>6, <1>7, <1>13, <1>14, <1>15 DEF HolderOK, MakingOK, Untouched, Alike, Disk,
       StagingOK, Accepted, Deactivated, ReleaseOK, LinkingOK, Published, Activated, Trees
<1> QED
  BY <1>2, <1>12, <1>19, <1>20, <1>21, <1>22, <1>23, HolderStep DEF Publish, HolderOK, TypeOK

LEMMA PrepareLinksInv == ASSUME IInv, NEW p \in Procs, PrepareLinks(p) PROVE IInv'
<1>1. PICK there \in {"switch", "clean", "dropRelease"} :
        pc[p] = "prepare" /\ pc' = [pc EXCEPT ![p] = there]
  BY DEF PrepareLinks
<1>2. holders = {p} /\ HolderOK(p) /\ TypeOK /\ DiskOK /\ pc'[p] = there
  BY <1>1, HolderActs DEF TypeOK
<1>3. /\ root \in Trees /\ root.current \in 0..NReleases /\ root.stage \in BOOLEAN
      /\ root.release \in [Releases -> {"none", "part", "whole"}]
      /\ root.litter \subseteq {"activate", "restore"}
  BY <1>2 DEF TypeOK, Trees
<1>4. PICK tree : tree = [root EXCEPT !.litter = @ \cup {"activate"}]
  OBVIOUS
<1>5. /\ tree \in Trees
      /\ tree.there = root.there /\ tree.dir = root.dir
      /\ tree.release = root.release
      /\ tree.stage = root.stage /\ tree.current = root.current
      /\ tree.litter = root.litter \cup {"activate"}
  BY <1>4, <1>3 DEF Trees
<1>6. /\ UNCHANGED <<want, prior, created, activated, moved, links>>
      /\ \/ there = "switch" /\ outcome' = outcome /\ root' = tree
         \/ there = "clean" /\ root' = tree
         \/ there = "dropRelease" /\ UNCHANGED root
  BY <1>1, <1>2, <1>4 DEF PrepareLinks
<1>7. pc' \in [Procs -> Places] /\ outcome' \in [Procs -> Outcomes]
  BY <1>1, <1>2 DEF PrepareLinks, TypeOK, Places, Outcomes
<1>8. /\ created' \in [Procs -> SUBSET {"root", "releases", "release"}]
      /\ activated' \in [Procs -> 0..3] /\ UNCHANGED <<want, prior, holders, runs>>
  BY <1>2 DEF PrepareLinks, TypeOK
<1>9. root' \in Trees /\ moved' \in Trees /\ links' \subseteq Launchers \cup Backups
  BY <1>2, <1>5, <1>6 DEF TypeOK
<1>10. outcome'[p] \in {"installed", "removed"} => outcome' = outcome \/ there = "release"
  BY <1>2 DEF PrepareLinks, TypeOK
<1>11. TypeOK'
  BY <1>7, <1>8, <1>9, <1>2 DEF TypeOK
<1>12. /\ prior[p].root.release \in [Releases -> {"none", "part", "whole"}]
       /\ prior[p].root.stage \in BOOLEAN /\ prior[p].root.current \in 0..NReleases
  BY <1>2 DEF TypeOK, Trees
<1>13. root.there /\ root.dir /\ ~moved.there /\ root.release[want[p]] = "whole"
  BY <1>1, <1>2, <1>3 DEF HolderOK, MakingOK, LinkingOK, Published, Accepted
<1>14. TreesOK'
  BY <1>1, <1>2, <1>3, <1>5, <1>6, <1>10, <1>12, <1>13 DEF DiskOK, TreesOK
<1>15. CurrentIsWhole'
  BY <1>2, <1>5, <1>6 DEF DiskOK, CurrentIsWhole
<1>16. NoInstallBesideResidue'
  BY <1>6, <1>13 DEF NoInstallBesideResidue
<1>17. DiskOK'
  BY <1>14, <1>15, <1>16 DEF DiskOK
<1>18. /\ prior[p].links \cup {} = prior[p].links
       /\ {} \cup {"activate"} = {"activate"}
  OBVIOUS
<1>19. PriorOK(p)' /\ StagingOK(p)' /\ MovingOK(p)' /\ DeletingOK(p)' /\ ReleaseOK(p)'
  BY <1>1, <1>2, <1>6, <1>10 DEF HolderOK, PriorOK, StagingOK, MovingOK, DeletingOK, ReleaseOK
<1>20. MakingOK(p)'
  BY <1>1, <1>2, <1>5, <1>6, <1>18 DEF TypeOK, HolderOK, MakingOK, Untouched, Alike, Disk,
       LinkingOK, Published, Accepted, Activated, Deactivated, ReleaseOK
<1>21. LinkingOK(p)'
  <2>1. Published(p)'
    BY <1>1, <1>2, <1>5, <1>6 DEF HolderOK, LinkingOK, Published, Accepted
  <2>2. Deactivated(p)' /\ root.litter = {} /\ activated'[p] = 0
    BY <1>1, <1>2, <1>5, <1>6 DEF HolderOK, LinkingOK, Deactivated
  <2>3. there = "switch" => Activated(p)' /\ root'.litter = {"activate"}
    BY <1>5, <1>6, <2>2 DEF Deactivated, Activated
  <2>4. there = "clean" => root'.litter = {"activate"}
    BY <1>5, <1>6, <2>2
  <2>5. there = "dropRelease" => root'.litter = {}
    BY <1>6, <2>2
  <2> QED BY <1>2, <2>1, <2>2, <2>3, <2>4, <2>5 DEF LinkingOK
<1> QED
  BY <1>2, <1>11, <1>17, <1>19, <1>20, <1>21, HolderStep DEF PrepareLinks, HolderOK, TypeOK

LEMMA SwitchLinkInv == ASSUME IInv, NEW p \in Procs, SwitchLink(p) PROVE IInv'
<1>1. PICK there \in {"release", "switch", "restore"} :
        pc[p] = "switch" /\ pc' = [pc EXCEPT ![p] = there]
  BY DEF SwitchLink
<1>2. holders = {p} /\ HolderOK(p) /\ TypeOK /\ DiskOK /\ pc'[p] = there
  BY <1>1, HolderActs DEF TypeOK
<1>3. want[p] \in Releases
  BY <1>1, <1>2 DEF HolderOK, MakingOK
<1>4. /\ root \in Trees /\ root.current \in 0..NReleases /\ root.stage \in BOOLEAN
      /\ root.release \in [Releases -> {"none", "part", "whole"}]
      /\ root.litter \subseteq {"activate", "restore"}
  BY <1>2 DEF TypeOK, Trees
<1>5. want[p] \in 0..NReleases /\ root.litter \ {"activate"} \in SUBSET {"activate", "restore"}
  BY <1>3, <1>4
<1>6. PICK tree : tree = [root EXCEPT !.current = want[p], !.litter = @ \ {"activate"}]
  OBVIOUS
<1>7. /\ tree \in Trees
      /\ tree.there = root.there /\ tree.dir = root.dir
      /\ tree.release = root.release
      /\ tree.stage = root.stage /\ tree.current = want[p]
      /\ tree.litter = root.litter \ {"activate"}
  BY <1>6, <1>4, <1>5, <1>3 DEF Trees
<1>8. /\ UNCHANGED <<want, prior, created, moved>>
      /\ \/ /\ activated[p] = 0 /\ activated'[p] = 1 /\ there = "switch"
            /\ root' = tree /\ links' = links
         \/ /\ activated[p] = 1 /\ activated'[p] = 2 /\ there = "switch"
            /\ links' = links \cup {"launcher"} /\ root' = root
         \/ /\ activated[p] = 2 /\ there = "release" /\ outcome'[p] = "installed"
            /\ links' = links \cup {"manager"} /\ root' = root
         \/ /\ there = "restore" /\ outcome'[p] = "failed"
            /\ UNCHANGED <<activated, root, links>>
  BY <1>2, <1>6 DEF SwitchLink, TypeOK
<1>9. pc' \in [Procs -> Places] /\ outcome' \in [Procs -> Outcomes]
  BY <1>1, <1>2 DEF SwitchLink, TypeOK, Places, Outcomes
<1>10. /\ created' \in [Procs -> SUBSET {"root", "releases", "release"}]
       /\ activated' \in [Procs -> 0..3] /\ UNCHANGED <<want, prior, holders, runs>>
  BY <1>2 DEF SwitchLink, TypeOK
<1>11. root' \in Trees /\ moved' \in Trees /\ links' \subseteq Launchers \cup Backups
  BY <1>1, <1>2, <1>4, <1>5, <1>7, <1>8 DEF TypeOK
<1>12. outcome'[p] \in {"installed", "removed"} => outcome' = outcome \/ there = "release"
  BY <1>2 DEF SwitchLink, TypeOK
<1>13. TypeOK'
  BY <1>9, <1>10, <1>11, <1>2 DEF TypeOK
<1>14. /\ prior[p].root.release \in [Releases -> {"none", "part", "whole"}]
       /\ prior[p].root.stage \in BOOLEAN /\ prior[p].root.current \in 0..NReleases
  BY <1>2 DEF TypeOK, Trees
<1>15. root.there /\ root.dir /\ ~moved.there /\ root.release[want[p]] = "whole"
  BY <1>1, <1>2, <1>4 DEF HolderOK, MakingOK, LinkingOK, Published, Accepted
<1>16. TreesOK'
  BY <1>1, <1>2, <1>3, <1>4, <1>5, <1>7, <1>8, <1>12, <1>14, <1>15 DEF DiskOK, TreesOK
<1>17. CurrentIsWhole'
  BY <1>1, <1>2, <1>3, <1>4, <1>5, <1>7, <1>8, <1>12, <1>14, <1>15 DEF DiskOK, CurrentIsWhole
<1>18. NoInstallBesideResidue'
  BY <1>8, <1>15 DEF NoInstallBesideResidue
<1>19. DiskOK'
  BY <1>16, <1>17, <1>18 DEF DiskOK
<1>20. AllWhole(root)
  BY <1>1, <1>2, <1>4 DEF HolderOK, LinkingOK, Published, Accepted, AllWhole
<1>21. PriorOK(p)' /\ StagingOK(p)' /\ MovingOK(p)' /\ DeletingOK(p)'
  BY <1>2, <1>8 DEF HolderOK, PriorOK, StagingOK, MovingOK, DeletingOK
<1>22. MakingOK(p)'
  BY <1>1, <1>2, <1>7, <1>8, <1>20 DEF TypeOK, HolderOK, MakingOK, Untouched, Alike, Disk,
       LinkingOK, Published, Accepted, Activated, Deactivated, ReleaseOK
<1>23. LinkingOK(p)'
  <2>1. Published(p)'
    BY <1>1, <1>2, <1>7, <1>8 DEF HolderOK, LinkingOK, Published, Accepted
  <2>2. activated[p] \in 0..2 /\ Activated(p) /\ root.litter = IF activated[p] = 0 THEN {"activate"} ELSE {}
    BY <1>1, <1>2 DEF HolderOK, LinkingOK, TypeOK
  <2>3. there = "switch" => /\ activated'[p] <= 2 /\ Activated(p)'
                            /\ root'.litter = IF activated'[p] = 0 THEN {"activate"} ELSE {}
    BY <1>7, <1>8, <2>2 DEF Activated
  <2>4. there = "restore" => activated'[p] <= 2 /\ Activated(p)' /\ root'.litter \subseteq {"activate"}
    BY <1>8, <2>2 DEF Activated
  <2> QED BY <1>2, <2>1, <2>3, <2>4 DEF LinkingOK
<1>24. ReleaseOK(p)'
  <2>1. Published(p) /\ Accepted(p) /\ activated[p] \in 0..2 /\ Activated(p) /\ root.litter = IF activated[p] = 0 THEN {"activate"} ELSE {}
    BY <1>1, <1>2 DEF HolderOK, LinkingOK, Published, TypeOK
  <2>2. there = "release" => root' = root /\ links' = prior[p].links \cup {"launcher", "manager"}
                             /\ root.current = want[p] /\ root.litter = {} /\ outcome'[p] = "installed"
    BY <1>8, <2>1 DEF Activated
  <2>3. ~moved.there /\ prior[p].links \cap Backups = {} /\ ~root.stage /\ prior[p].root.current <= want[p]
    BY <2>1, <1>3 DEF Published, Accepted
  <2>4. there = "release" => Healthy' /\ root'.current = want'[p] /\ prior'[p].root.current <= want'[p]
    <3> HAVE there = "release"
    <3>1. (links' \cap Backups = {}) /\ Launchers \subseteq links'
      BY <2>2, <2>3
    <3>2. AllWhole(root')
      BY <2>2, <1>20
    <3> QED BY <1>3, <1>8, <1>15, <2>2, <2>3, <3>2 DEF Healthy, Residues
  <2>5. outcome[p] \notin {"installed", "removed"}
    BY <1>1, <1>2 DEF HolderOK, ReleaseOK
  <2> QED BY <1>2, <1>12, <2>2, <2>4, <2>5 DEF ReleaseOK
<1> QED
  BY <1>2, <1>13, <1>19, <1>21, <1>22, <1>23, <1>24, HolderStep DEF SwitchLink, HolderOK, TypeOK

LEMMA RestoreLinkInv == ASSUME IInv, NEW p \in Procs, RestoreLink(p) PROVE IInv'
<1>1. PICK there \in {"clean", "restore"} :
        pc[p] = "restore" /\ pc' = [pc EXCEPT ![p] = there]
  BY DEF RestoreLink
<1>2. holders = {p} /\ HolderOK(p) /\ TypeOK /\ DiskOK /\ pc'[p] = there
  BY <1>1, HolderActs DEF TypeOK
<1>3. want[p] \in Releases
  BY <1>1, <1>2 DEF HolderOK, MakingOK
<1>4. /\ root \in Trees /\ root.current \in 0..NReleases /\ root.stage \in BOOLEAN
      /\ root.release \in [Releases -> {"none", "part", "whole"}]
      /\ root.litter \subseteq {"activate", "restore"}
  BY <1>2 DEF TypeOK, Trees
<1>5. prior[p].root.current \in 0..NReleases
  BY <1>2 DEF TypeOK, Trees
<1>6. PICK tree : tree = [root EXCEPT !.current = prior[p].root.current]
  OBVIOUS
<1>7. /\ tree \in Trees
      /\ tree.there = root.there /\ tree.dir = root.dir
      /\ tree.release = root.release
      /\ tree.stage = root.stage /\ tree.current = prior[p].root.current
      /\ tree.litter = root.litter
  BY <1>6, <1>4, <1>5 DEF Trees
<1>8. PICK littered : littered = [root EXCEPT !.litter = @ \cup {"restore"}]
  OBVIOUS
<1>9. /\ littered \in Trees
      /\ littered.there = root.there /\ littered.dir = root.dir
      /\ littered.release = root.release
      /\ littered.stage = root.stage /\ littered.current = root.current
      /\ littered.litter = root.litter \cup {"restore"}
  BY <1>8, <1>4 DEF Trees
<1>10. /\ UNCHANGED <<want, prior, created, moved>>
       /\ \/ /\ activated[p] = 0 /\ there = "clean" /\ UNCHANGED <<outcome, activated, root, links>>
          \/ /\ activated[p] = 1 /\ activated'[p] = 0 /\ there = "restore" /\ outcome' = outcome
             /\ root' = tree /\ links' = links
          \/ /\ activated[p] = 2 /\ activated'[p] = 1 /\ there = "restore" /\ outcome' = outcome
             /\ links' = (links \ {"launcher"}) \cup (prior[p].links \cap {"launcher"})
             /\ root' = root
          \/ /\ there = "restore" /\ outcome'[p] = "unrestored" /\ links' = links
             /\ activated'[p] = activated[p] - 1 /\ root' \in {root, littered}
  BY <1>2, <1>6, <1>8 DEF RestoreLink, Restored, TypeOK
<1>11. pc' \in [Procs -> Places] /\ outcome' \in [Procs -> Outcomes]
  BY <1>2 DEF RestoreLink, TypeOK, Places, Outcomes
<1>12. /\ created' \in [Procs -> SUBSET {"root", "releases", "release"}]
       /\ activated' \in [Procs -> 0..3] /\ UNCHANGED <<want, prior, holders, runs>>
  BY <1>2 DEF RestoreLink, TypeOK
<1>13. root' \in Trees /\ moved' \in Trees /\ links' \subseteq Launchers \cup Backups
  BY <1>1, <1>2, <1>3, <1>4, <1>5, <1>7, <1>9, <1>10 DEF TypeOK
<1>14. outcome'[p] \in {"installed", "removed"} => outcome' = outcome \/ there = "release"
  BY <1>2 DEF RestoreLink, TypeOK
<1>15. TypeOK'
  BY <1>11, <1>12, <1>13, <1>2 DEF TypeOK
<1>16. /\ prior[p].root.release \in [Releases -> {"none", "part", "whole"}]
       /\ prior[p].root.stage \in BOOLEAN /\ prior[p].root.current \in 0..NReleases
  BY <1>2 DEF TypeOK, Trees
<1>17. root.there /\ root.dir /\ ~moved.there /\ root.release[want[p]] = "whole"
  BY <1>1, <1>2, <1>4 DEF HolderOK, MakingOK, LinkingOK, Published, Accepted
<1>18. prior[p].root.current # 0 => root.release[prior[p].root.current] = "whole"
  BY <1>1, <1>2, <1>4, <1>5, <1>17 DEF HolderOK, PriorOK, LinkingOK, Published
<1>19. TreesOK'
  BY <1>1, <1>2, <1>3, <1>4, <1>5, <1>7, <1>9, <1>10, <1>14, <1>16, <1>17, <1>18 DEF DiskOK,
       TreesOK
<1>20. CurrentIsWhole'
  BY <1>1, <1>2, <1>3, <1>4, <1>5, <1>7, <1>9, <1>10, <1>14, <1>16, <1>17, <1>18 DEF DiskOK,
       CurrentIsWhole
<1>21. NoInstallBesideResidue'
  BY <1>10, <1>17 DEF NoInstallBesideResidue
<1>22. DiskOK'
  BY <1>19, <1>20, <1>21 DEF DiskOK
<1>23. PriorOK(p)' /\ StagingOK(p)' /\ MovingOK(p)' /\ DeletingOK(p)' /\ ReleaseOK(p)'
  BY <1>1, <1>2, <1>10 DEF HolderOK, PriorOK, StagingOK, MovingOK, DeletingOK, ReleaseOK
<1>24. MakingOK(p)'
  BY <1>1, <1>2, <1>7, <1>9, <1>10, <1>18 DEF TypeOK, HolderOK, MakingOK, Untouched, Alike, Disk,
       LinkingOK, Published, Accepted, Activated, Deactivated, ReleaseOK
<1>25. LinkingOK(p)'
  <2>1. Published(p)'
    BY <1>1, <1>2, <1>7, <1>9, <1>10 DEF HolderOK, LinkingOK, Published, Accepted
  <2>2. activated[p] \in 0..2 /\ (outcome[p] = "failed" => Activated(p) /\ root.litter \subseteq {"activate"})
    BY <1>1, <1>2 DEF HolderOK, LinkingOK, TypeOK
  <2>3. there = "restore" =>
          activated'[p] <= 2 /\ (outcome'[p] = "failed" => Activated(p)' /\ root'.litter \subseteq {"activate"})
    BY <1>7, <1>10, <2>2 DEF Activated
  <2>4. there = "clean" /\ outcome'[p] = "failed" => Deactivated(p)' /\ root'.litter \subseteq {"activate"}
    <3> HAVE there = "clean" /\ outcome'[p] = "failed"
    <3>1. activated[p] = 0 /\ root' = root /\ links' = links /\ prior' = prior /\ outcome[p] = "failed"
      BY <1>10
    <3>2. prior[p].links \cup {} = prior[p].links
      OBVIOUS
    <3> QED BY <2>2, <3>1 DEF Activated, Deactivated
  <2> QED BY <1>2, <2>1, <2>3, <2>4 DEF LinkingOK
<1> QED
  BY <1>2, <1>15, <1>22, <1>23, <1>24, <1>25, HolderStep DEF RestoreLink, Restored, HolderOK,
       TypeOK

LEMMA CleanLinksInv == ASSUME IInv, NEW p \in Procs, CleanLinks(p) PROVE IInv'
<1>1. PICK there \in {"dropRelease"} :
        pc[p] = "clean" /\ pc' = [pc EXCEPT ![p] = there]
  BY DEF CleanLinks
<1>2. holders = {p} /\ HolderOK(p) /\ TypeOK /\ DiskOK /\ pc'[p] = there
  BY <1>1, HolderActs DEF TypeOK
<1>3. /\ root \in Trees /\ root.current \in 0..NReleases /\ root.stage \in BOOLEAN
      /\ root.release \in [Releases -> {"none", "part", "whole"}]
      /\ root.litter \subseteq {"activate", "restore"}
  BY <1>2 DEF TypeOK, Trees
<1>4. PICK tree : tree = [root EXCEPT !.litter = @ \ {"activate"}]
  OBVIOUS
<1>5. /\ tree \in Trees
      /\ tree.there = root.there /\ tree.dir = root.dir
      /\ tree.release = root.release
      /\ tree.stage = root.stage /\ tree.current = root.current
      /\ tree.litter = root.litter \ {"activate"}
  BY <1>4, <1>3 DEF Trees
<1>6. /\ UNCHANGED <<want, prior, created, activated, moved, links>>
      /\ \/ outcome' = outcome /\ root' = tree
         \/ outcome'[p] = "error" /\ root' \in {root, tree}
  BY <1>2, <1>4 DEF CleanLinks, TypeOK
<1>7. pc' \in [Procs -> Places] /\ outcome' \in [Procs -> Outcomes]
  BY <1>1, <1>2 DEF CleanLinks, TypeOK, Places, Outcomes
<1>8. /\ created' \in [Procs -> SUBSET {"root", "releases", "release"}]
      /\ activated' \in [Procs -> 0..3] /\ UNCHANGED <<want, prior, holders, runs>>
  BY <1>2 DEF CleanLinks, TypeOK
<1>9. root' \in Trees /\ moved' \in Trees /\ links' \subseteq Launchers \cup Backups
  BY <1>2, <1>5, <1>6 DEF TypeOK
<1>10. outcome'[p] \in {"installed", "removed"} => outcome' = outcome \/ there = "release"
  BY <1>2 DEF CleanLinks, TypeOK
<1>11. TypeOK'
  BY <1>7, <1>8, <1>9, <1>2 DEF TypeOK
<1>12. /\ prior[p].root.release \in [Releases -> {"none", "part", "whole"}]
       /\ prior[p].root.stage \in BOOLEAN /\ prior[p].root.current \in 0..NReleases
  BY <1>2 DEF TypeOK, Trees
<1>13. root.there /\ root.dir /\ ~moved.there /\ root.release[want[p]] = "whole"
  BY <1>1, <1>2, <1>3 DEF HolderOK, MakingOK, LinkingOK, Published, Accepted
<1>14. TreesOK'
  BY <1>1, <1>2, <1>3, <1>5, <1>6, <1>10, <1>12, <1>13 DEF DiskOK, TreesOK
<1>15. CurrentIsWhole'
  BY <1>2, <1>5, <1>6 DEF DiskOK, CurrentIsWhole
<1>16. NoInstallBesideResidue'
  BY <1>6, <1>13 DEF NoInstallBesideResidue
<1>17. DiskOK'
  BY <1>14, <1>15, <1>16 DEF DiskOK
<1>18. PriorOK(p)' /\ StagingOK(p)' /\ MovingOK(p)' /\ DeletingOK(p)' /\ ReleaseOK(p)'
  BY <1>1, <1>2, <1>6 DEF HolderOK, PriorOK, StagingOK, MovingOK, DeletingOK, ReleaseOK
<1>19. MakingOK(p)'
  BY <1>1, <1>2, <1>5, <1>6 DEF TypeOK, HolderOK, MakingOK, Untouched, Alike, Disk, LinkingOK,
       Published, Accepted, Activated, Deactivated, ReleaseOK
<1>20. LinkingOK(p)'
  <2>1. Published(p)'
    BY <1>1, <1>2, <1>5, <1>6 DEF HolderOK, LinkingOK, Published, Accepted
  <2>2. outcome[p] = "failed" => Deactivated(p) /\ root.litter \subseteq {"activate"}
    BY <1>1, <1>2 DEF HolderOK, LinkingOK
  <2>3. outcome'[p] = "failed" => Deactivated(p)' /\ root'.litter = {}
    BY <1>5, <1>6, <2>2 DEF Deactivated
  <2> QED BY <1>1, <2>1, <2>3 DEF LinkingOK
<1> QED
  BY <1>2, <1>11, <1>17, <1>18, <1>19, <1>20, HolderStep DEF CleanLinks, HolderOK, TypeOK

LEMMA DropStageInv == ASSUME IInv, NEW p \in Procs, DropStage(p) PROVE IInv'
<1>1. PICK there \in {"dropReleases"} :
        pc[p] = "dropStage" /\ pc' = [pc EXCEPT ![p] = there]
  BY DEF DropStage
<1>2. holders = {p} /\ HolderOK(p) /\ TypeOK /\ DiskOK /\ pc'[p] = there
  BY <1>1, HolderActs DEF TypeOK
<1>3. /\ root \in Trees /\ root.current \in 0..NReleases /\ root.stage \in BOOLEAN
      /\ root.release \in [Releases -> {"none", "part", "whole"}]
      /\ root.litter \subseteq {"activate", "restore"}
  BY <1>2 DEF TypeOK, Trees
<1>4. PICK tree : tree = [root EXCEPT !.stage = FALSE]
  OBVIOUS
<1>5. /\ tree \in Trees
      /\ tree.there = root.there /\ tree.dir = root.dir
      /\ tree.release = root.release
      /\ tree.stage = FALSE /\ tree.current = root.current
      /\ tree.litter = root.litter
  BY <1>4, <1>3 DEF Trees
<1>6. /\ UNCHANGED <<want, prior, created, activated, moved, links>>
      /\ \/ outcome' = outcome /\ root' = tree
         \/ outcome'[p] = "error" /\ root' = root
  BY <1>2, <1>4 DEF DropStage, TypeOK
<1>7. pc' \in [Procs -> Places] /\ outcome' \in [Procs -> Outcomes]
  BY <1>1, <1>2 DEF DropStage, TypeOK, Places, Outcomes
<1>8. /\ created' \in [Procs -> SUBSET {"root", "releases", "release"}]
      /\ activated' \in [Procs -> 0..3] /\ UNCHANGED <<want, prior, holders, runs>>
  BY <1>2 DEF DropStage, TypeOK
<1>9. root' \in Trees /\ moved' \in Trees /\ links' \subseteq Launchers \cup Backups
  BY <1>2, <1>5, <1>6 DEF TypeOK
<1>10. outcome'[p] \in {"installed", "removed"} => outcome' = outcome \/ there = "release"
  BY <1>2 DEF DropStage, TypeOK
<1>11. TypeOK'
  BY <1>7, <1>8, <1>9, <1>2 DEF TypeOK
<1>12. /\ prior[p].root.release \in [Releases -> {"none", "part", "whole"}]
       /\ prior[p].root.stage \in BOOLEAN /\ prior[p].root.current \in 0..NReleases
  BY <1>2 DEF TypeOK, Trees
<1>13. root.there /\ root.dir /\ ~moved.there /\ root.release[want[p]] = "none"
  BY <1>1, <1>2 DEF HolderOK, MakingOK, StagingOK, Accepted
<1>14. TreesOK'
  BY <1>1, <1>2, <1>3, <1>5, <1>6, <1>10, <1>12, <1>13 DEF DiskOK, TreesOK
<1>15. CurrentIsWhole'
  BY <1>2, <1>5, <1>6 DEF DiskOK, CurrentIsWhole
<1>16. NoInstallBesideResidue'
  BY <1>6, <1>13 DEF NoInstallBesideResidue
<1>17. DiskOK'
  BY <1>14, <1>15, <1>16 DEF DiskOK
<1>18. PriorOK(p)' /\ StagingOK(p)' /\ LinkingOK(p)' /\ MovingOK(p)' /\ DeletingOK(p)' /\ ReleaseOK(p)'
  BY <1>1, <1>2, <1>6 DEF HolderOK, PriorOK, StagingOK, LinkingOK, MovingOK, DeletingOK, ReleaseOK
<1>19. MakingOK(p)'
  <2>1. /\ root.release = prior[p].root.release /\ root.current = prior[p].root.current
        /\ root.litter = prior[p].root.litter /\ prior[p].root.stage = FALSE
        /\ links = prior[p].links /\ moved = prior[p].moved /\ "release" \notin created[p]
    BY <1>1, <1>2, <1>12 DEF HolderOK, StagingOK, Accepted, Deactivated
  <2>2. outcome'[p] = "failed" => Untouched(p)'
    BY <1>5, <1>6, <2>1 DEF Untouched, Alike
  <2> QED BY <1>1, <1>2, <1>5, <1>6, <2>2 DEF HolderOK, MakingOK
<1> QED
  BY <1>2, <1>11, <1>17, <1>18, <1>19, HolderStep DEF DropStage, HolderOK, TypeOK

LEMMA DropReleaseInv == ASSUME IInv, NEW p \in Procs, DropRelease(p) PROVE IInv'
<1>1. PICK there \in {"dropReleases", "dropPart"} :
        pc[p] = "dropRelease" /\ pc' = [pc EXCEPT ![p] = there]
  BY DEF DropRelease
<1>2. holders = {p} /\ HolderOK(p) /\ TypeOK /\ DiskOK /\ pc'[p] = there
  BY <1>1, HolderActs DEF TypeOK
<1>3. want[p] \in Releases
  BY <1>1, <1>2 DEF HolderOK, MakingOK
<1>4. /\ root \in Trees /\ root.current \in 0..NReleases /\ root.stage \in BOOLEAN
      /\ root.release \in [Releases -> {"none", "part", "whole"}]
      /\ root.litter \subseteq {"activate", "restore"}
  BY <1>2 DEF TypeOK, Trees
<1>5. PICK tree : tree = [root EXCEPT !.release[want[p]] = "part"]
  OBVIOUS
<1>6. /\ tree \in Trees
      /\ tree.there = root.there /\ tree.dir = root.dir
      /\ tree.release = [root.release EXCEPT ![want[p]] = "part"]
      /\ tree.stage = root.stage /\ tree.current = root.current
      /\ tree.litter = root.litter
  BY <1>5, <1>4, <1>3 DEF Trees
<1>7. /\ UNCHANGED <<want, prior, created, activated, moved, links>>
      /\ \/ /\ there = "dropReleases" /\ outcome' = outcome /\ root' = root
            /\ "release" \in created[p] => root.current = want[p]
         \/ /\ there = "dropPart" /\ outcome' = outcome /\ root' = tree
            /\ "release" \in created[p] /\ root.current # want[p]
         \/ there = "dropReleases" /\ outcome'[p] = "error" /\ root' = root
  BY <1>2, <1>5 DEF DropRelease, Removable, TypeOK
<1>8. pc' \in [Procs -> Places] /\ outcome' \in [Procs -> Outcomes]
  BY <1>1, <1>2 DEF DropRelease, TypeOK, Places, Outcomes
<1>9. /\ created' \in [Procs -> SUBSET {"root", "releases", "release"}]
      /\ activated' \in [Procs -> 0..3] /\ UNCHANGED <<want, prior, holders, runs>>
  BY <1>2 DEF DropRelease, TypeOK
<1>10. root' \in Trees /\ moved' \in Trees /\ links' \subseteq Launchers \cup Backups
  BY <1>2, <1>6, <1>7 DEF TypeOK
<1>11. outcome'[p] \in {"installed", "removed"} => outcome' = outcome \/ there = "release"
  BY <1>2 DEF DropRelease, TypeOK
<1>12. TypeOK'
  BY <1>8, <1>9, <1>10, <1>2 DEF TypeOK
<1>13. /\ prior[p].root.release \in [Releases -> {"none", "part", "whole"}]
       /\ prior[p].root.stage \in BOOLEAN /\ prior[p].root.current \in 0..NReleases
  BY <1>2 DEF TypeOK, Trees
<1>14. root.there /\ root.dir /\ ~moved.there /\ root.release[want[p]] = "whole"
  BY <1>1, <1>2, <1>4 DEF HolderOK, MakingOK, LinkingOK, Published, Accepted
<1>15. root.current # 0 => root.current \in Releases
  BY <1>4
<1>16. TreesOK'
  BY <1>1, <1>2, <1>3, <1>4, <1>6, <1>7, <1>11, <1>13, <1>14, <1>15 DEF DiskOK, TreesOK
<1>17. CurrentIsWhole'
  <2>1. CASE there = "dropPart"
    BY <1>2, <1>4, <1>6, <1>7 DEF DiskOK, CurrentIsWhole
  <2>2. CASE root' = root
    BY <2>2, <1>2 DEF DiskOK, CurrentIsWhole
  <2> QED BY <1>7, <2>1, <2>2
<1>18. NoInstallBesideResidue'
  BY <1>7, <1>14 DEF NoInstallBesideResidue
<1>19. DiskOK'
  BY <1>16, <1>17, <1>18 DEF DiskOK
<1>20. /\ "release" \notin created[p] => root.release = prior[p].root.release
       /\ "release" \in created[p] /\ root.current = want[p] => ~Deactivated(p)
       /\ root.stage = prior[p].root.stage
  BY <1>1, <1>2, <1>4, <1>13, <1>14, <1>15 DEF HolderOK, LinkingOK, Published, Accepted, AllWhole,
       PriorOK, Deactivated
<1>21. there = "dropPart" => root'.release = [prior[p].root.release EXCEPT ![want[p]] = "part"]
  BY <1>1, <1>2, <1>6, <1>7, <1>11, <1>14, <1>15, <1>20 DEF HolderOK, LinkingOK, Published
<1>22. PriorOK(p)' /\ StagingOK(p)' /\ MovingOK(p)' /\ DeletingOK(p)' /\ ReleaseOK(p)'
  BY <1>1, <1>2, <1>7 DEF HolderOK, PriorOK, StagingOK, MovingOK, DeletingOK, ReleaseOK
<1>23. MakingOK(p)'
  <2>1. there = "dropReleases" /\ outcome'[p] = "failed" => Untouched(p)'
    <3>1. SUFFICES ASSUME there = "dropReleases", outcome'[p] = "failed" PROVE Untouched(p)'
      OBVIOUS
    <3>2. root' = root /\ ("release" \in created[p] => root.current = want[p]) /\ outcome[p] = "failed"
      BY <3>1, <1>7
    <3>3. Deactivated(p) /\ Published(p) /\ Accepted(p) /\ root.litter = {}
      BY <3>2, <1>1, <1>2 DEF HolderOK, LinkingOK, Published
    <3>4. root.release = prior[p].root.release
      BY <3>2, <3>3, <1>20
    <3> QED BY <3>2, <3>3, <1>7, <1>20 DEF Untouched, Alike, Deactivated, Published, Accepted
  <2> QED BY <1>1, <1>2, <1>6, <1>7, <2>1 DEF HolderOK, MakingOK
<1>24. LinkingOK(p)'
  <2>1. there = "dropPart" => Published(p)'
    BY <1>1, <1>2, <1>6, <1>7 DEF HolderOK, LinkingOK, Published, Accepted
  <2>2. there = "dropPart" /\ outcome'[p] = "failed" => Deactivated(p)' /\ root'.litter = {}
    BY <1>1, <1>2, <1>6, <1>7 DEF HolderOK, LinkingOK, Deactivated
  <2>3. there = "dropPart" => "release" \in created'[p] /\ root'.current # want'[p]
    BY <1>6, <1>7
  <2> QED BY <1>2, <2>1, <2>2, <2>3 DEF LinkingOK
<1> QED
  BY <1>2, <1>12, <1>19, <1>22, <1>23, <1>24, HolderStep DEF DropRelease, Removable, HolderOK,
       TypeOK

LEMMA DropPartInv == ASSUME IInv, NEW p \in Procs, DropPart(p) PROVE IInv'
<1>1. PICK there \in {"dropReleases"} :
        pc[p] = "dropPart" /\ pc' = [pc EXCEPT ![p] = there]
  BY DEF DropPart
<1>2. holders = {p} /\ HolderOK(p) /\ TypeOK /\ DiskOK /\ pc'[p] = there
  BY <1>1, HolderActs DEF TypeOK
<1>3. want[p] \in Releases
  BY <1>1, <1>2 DEF HolderOK, MakingOK
<1>4. /\ root \in Trees /\ root.current \in 0..NReleases /\ root.stage \in BOOLEAN
      /\ root.release \in [Releases -> {"none", "part", "whole"}]
      /\ root.litter \subseteq {"activate", "restore"}
  BY <1>2 DEF TypeOK, Trees
<1>5. PICK tree : tree = [root EXCEPT !.release[want[p]] = "none"]
  OBVIOUS
<1>6. /\ tree \in Trees
      /\ tree.there = root.there /\ tree.dir = root.dir
      /\ tree.release = [root.release EXCEPT ![want[p]] = "none"]
      /\ tree.stage = root.stage /\ tree.current = root.current
      /\ tree.litter = root.litter
  BY <1>5, <1>4, <1>3 DEF Trees
<1>7. /\ UNCHANGED <<want, prior, created, activated, moved, links>>
      /\ \/ outcome' = outcome /\ root' = tree
         \/ outcome'[p] = "error" /\ root' = root
  BY <1>2, <1>5 DEF DropPart, TypeOK
<1>8. pc' \in [Procs -> Places] /\ outcome' \in [Procs -> Outcomes]
  BY <1>1, <1>2 DEF DropPart, TypeOK, Places, Outcomes
<1>9. /\ created' \in [Procs -> SUBSET {"root", "releases", "release"}]
      /\ activated' \in [Procs -> 0..3] /\ UNCHANGED <<want, prior, holders, runs>>
  BY <1>2 DEF DropPart, TypeOK
<1>10. root' \in Trees /\ moved' \in Trees /\ links' \subseteq Launchers \cup Backups
  BY <1>2, <1>6, <1>7 DEF TypeOK
<1>11. outcome'[p] \in {"installed", "removed"} => outcome' = outcome \/ there = "release"
  BY <1>2 DEF DropPart, TypeOK
<1>12. TypeOK'
  BY <1>8, <1>9, <1>10, <1>2 DEF TypeOK
<1>13. /\ prior[p].root.release \in [Releases -> {"none", "part", "whole"}]
       /\ prior[p].root.stage \in BOOLEAN /\ prior[p].root.current \in 0..NReleases
  BY <1>2 DEF TypeOK, Trees
<1>14. root.there /\ ~moved.there /\ root.release[want[p]] = "part"
  <2>1. Published(p) /\ Accepted(p) /\ root.there
    BY <1>1, <1>2 DEF HolderOK, MakingOK, LinkingOK, Published
  <2>2. root.release = [prior[p].root.release EXCEPT ![want[p]] = "part"]
    BY <1>1, <2>1 DEF Published
  <2> QED BY <1>3, <1>13, <2>1, <2>2 DEF Published, Accepted
<1>15. root.current # want[p] /\ (root.current # 0 => root.current \in Releases)
  BY <1>1, <1>2, <1>4 DEF HolderOK, LinkingOK
<1>16. TreesOK'
  BY <1>1, <1>2, <1>3, <1>4, <1>6, <1>7, <1>11, <1>13, <1>14, <1>15 DEF DiskOK, TreesOK
<1>17. CurrentIsWhole'
  BY <1>2, <1>4, <1>6, <1>7, <1>15 DEF DiskOK, CurrentIsWhole
<1>18. NoInstallBesideResidue'
  BY <1>7, <1>14 DEF NoInstallBesideResidue
<1>19. DiskOK'
  BY <1>16, <1>17, <1>18 DEF DiskOK
<1>20. /\ [root.release EXCEPT ![want[p]] = "none"] = prior[p].root.release
       /\ root.stage = prior[p].root.stage
  <2>1. Published(p) /\ Accepted(p) /\ prior[p].root.release[want[p]] = "none"
    BY <1>1, <1>2 DEF HolderOK, LinkingOK, Published
  <2>2. root.release = [prior[p].root.release EXCEPT ![want[p]] = "part"]
    BY <1>1, <2>1 DEF Published
  <2> QED BY <1>4, <2>2
<1>21. PriorOK(p)' /\ StagingOK(p)' /\ LinkingOK(p)' /\ MovingOK(p)' /\ DeletingOK(p)' /\ ReleaseOK(p)'
  BY <1>1, <1>2, <1>7 DEF HolderOK, PriorOK, StagingOK, LinkingOK, MovingOK, DeletingOK, ReleaseOK
<1>22. MakingOK(p)'
  <2>1. outcome'[p] = "failed" => Untouched(p)'
    <3>1. SUFFICES ASSUME outcome'[p] = "failed" PROVE Untouched(p)'
      OBVIOUS
    <3>2. root' = tree /\ outcome[p] = "failed"
      BY <3>1, <1>7
    <3>3. Deactivated(p) /\ Published(p) /\ Accepted(p) /\ root.litter = {}
      BY <3>2, <1>1, <1>2 DEF HolderOK, LinkingOK, Published
    <3> QED BY <3>2, <3>3, <1>6, <1>7, <1>20 DEF Untouched, Alike, Deactivated, Published,
         Accepted
  <2> QED BY <1>1, <1>2, <1>6, <1>7, <2>1 DEF HolderOK, MakingOK
<1> QED
  BY <1>2, <1>12, <1>19, <1>21, <1>22, HolderStep DEF DropPart, HolderOK, TypeOK

LEMMA DropReleasesInv == ASSUME IInv, NEW p \in Procs, DropReleases(p) PROVE IInv'
<1>1. PICK there \in {"dropRoot"} :
        pc[p] = "dropReleases" /\ pc' = [pc EXCEPT ![p] = there]
  BY DEF DropReleases
<1>2. holders = {p} /\ HolderOK(p) /\ TypeOK /\ DiskOK /\ pc'[p] = there
  BY <1>1, HolderActs DEF TypeOK
<1>3. /\ root \in Trees /\ root.current \in 0..NReleases /\ root.stage \in BOOLEAN
      /\ root.release \in [Releases -> {"none", "part", "whole"}]
      /\ root.litter \subseteq {"activate", "restore"}
  BY <1>2 DEF TypeOK, Trees
<1>4. PICK tree : tree = [root EXCEPT !.dir = FALSE]
  OBVIOUS
<1>5. /\ tree \in Trees
      /\ tree.there = root.there /\ tree.dir = FALSE
      /\ tree.release = root.release
      /\ tree.stage = root.stage /\ tree.current = root.current
      /\ tree.litter = root.litter
  BY <1>4, <1>3 DEF Trees
<1>6. /\ UNCHANGED <<want, prior, created, activated, outcome, moved, links>>
      /\ \/ Empty(root) /\ root' = tree
         \/ root' = root
  BY <1>4 DEF DropReleases
<1>7. pc' \in [Procs -> Places] /\ outcome' \in [Procs -> Outcomes]
  BY <1>2 DEF DropReleases, TypeOK, Places
<1>8. /\ created' \in [Procs -> SUBSET {"root", "releases", "release"}]
      /\ activated' \in [Procs -> 0..3] /\ UNCHANGED <<want, prior, holders, runs>>
  BY <1>2 DEF DropReleases, TypeOK
<1>9. root' \in Trees /\ moved' \in Trees /\ links' \subseteq Launchers \cup Backups
  BY <1>2, <1>5, <1>6 DEF TypeOK
<1>10. outcome'[p] \in {"installed", "removed"} => outcome' = outcome \/ there = "release"
  BY DEF DropReleases
<1>11. TypeOK'
  BY <1>7, <1>8, <1>9, <1>2 DEF TypeOK
<1>12. root.there
  BY <1>1, <1>2 DEF HolderOK, MakingOK
<1>13. TreesOK'
  BY <1>1, <1>2, <1>3, <1>5, <1>6, <1>10, <1>12 DEF DiskOK, TreesOK
<1>14. CurrentIsWhole'
  BY <1>2, <1>3, <1>5, <1>6 DEF DiskOK, CurrentIsWhole, Empty
<1>15. NoInstallBesideResidue'
  BY <1>2, <1>5, <1>6 DEF DiskOK, NoInstallBesideResidue
<1>16. DiskOK'
  BY <1>13, <1>14, <1>15 DEF DiskOK
<1>17. PriorOK(p)' /\ StagingOK(p)' /\ LinkingOK(p)' /\ MovingOK(p)' /\ DeletingOK(p)' /\ ReleaseOK(p)'
  BY <1>1, <1>2, <1>6 DEF HolderOK, PriorOK, StagingOK, LinkingOK, MovingOK, DeletingOK, ReleaseOK
<1>18. MakingOK(p)'
  BY <1>1, <1>2, <1>5, <1>6 DEF TypeOK, HolderOK, MakingOK, Untouched, Alike, Disk, ReleaseOK
<1> QED
  BY <1>1, <1>2, <1>11, <1>16, <1>17, <1>18, HolderStep DEF DropReleases, HolderOK, TypeOK

LEMMA DropRootInv == ASSUME IInv, NEW p \in Procs, DropRoot(p) PROVE IInv'
<1>1. PICK there \in {"release"} :
        pc[p] = "dropRoot" /\ pc' = [pc EXCEPT ![p] = there]
  BY DEF DropRoot
<1>2. holders = {p} /\ HolderOK(p) /\ TypeOK /\ DiskOK /\ pc'[p] = there
  BY <1>1, HolderActs DEF TypeOK
<1>3. /\ UNCHANGED <<want, prior, created, activated, outcome, moved, links>>
      /\ \/ /\ root.current = 0 /\ root.litter = {} /\ root' = NoTree
            /\ "root" \in created[p]
         \/ root' = root
  BY DEF DropRoot
<1>4. /\ NoTree \in Trees /\ ~NoTree.there /\ NoTree.current = 0
      /\ prior[p].root = NoTree => Alike(NoTree, prior[p].root)
  BY EmptyTree DEF Alike
<1>5. pc' \in [Procs -> Places] /\ outcome' \in [Procs -> Outcomes]
  BY <1>2 DEF DropRoot, TypeOK, Places
<1>6. /\ created' \in [Procs -> SUBSET {"root", "releases", "release"}]
      /\ activated' \in [Procs -> 0..3] /\ UNCHANGED <<want, prior, holders, runs>>
  BY <1>2 DEF DropRoot, TypeOK
<1>7. root' \in Trees /\ moved' \in Trees /\ links' \subseteq Launchers \cup Backups
  BY <1>2, <1>3, <1>4 DEF TypeOK
<1>8. outcome'[p] \in {"installed", "removed"} => outcome' = outcome \/ there = "release"
  OBVIOUS
<1>9. TypeOK'
  BY <1>5, <1>6, <1>7, <1>2 DEF TypeOK
<1>10. TRUE
  OBVIOUS
<1>11. TreesOK'
  BY <1>2, <1>3 DEF DiskOK, TreesOK
<1>12. CurrentIsWhole'
  BY <1>2, <1>3, <1>4 DEF DiskOK, CurrentIsWhole
<1>13. NoInstallBesideResidue'
  BY <1>2, <1>3, <1>4 DEF DiskOK, NoInstallBesideResidue
<1>14. DiskOK'
  BY <1>11, <1>12, <1>13 DEF DiskOK
<1>15. PriorOK(p)' /\ MakingOK(p)' /\ StagingOK(p)' /\ LinkingOK(p)' /\ MovingOK(p)' /\ DeletingOK(p)'
  BY <1>2, <1>3 DEF HolderOK, PriorOK, MakingOK, StagingOK, LinkingOK, MovingOK, DeletingOK
<1>16. ReleaseOK(p)'
  BY <1>1, <1>2, <1>3, <1>4 DEF HolderOK, MakingOK, Untouched, ReleaseOK
<1> QED
  BY <1>1, <1>2, <1>9, <1>14, <1>15, <1>16, HolderStep DEF DropRoot, HolderOK, TypeOK

--------------------------------------------------------------------------------
(* The actions of uninstall_application and of undoing it.                  *)

LEMMA ConfirmInv == ASSUME IInv, NEW p \in Procs, Confirm(p) PROVE IInv'
<1>1. PICK there \in {"release", "moveTree"} :
        pc[p] = "confirm" /\ pc' = [pc EXCEPT ![p] = there]
  BY DEF Confirm
<1>2. holders = {p} /\ HolderOK(p) /\ TypeOK /\ DiskOK /\ pc'[p] = there
  BY <1>1, HolderActs DEF TypeOK
<1>3. /\ UNCHANGED <<want, prior, created, activated, root, moved, links>>
      /\ \/ /\ there = "moveTree" /\ ~moved.there /\ links \cap Backups = {}
            /\ \/ /\ root.there /\ root.dir /\ root.current # 0
                  /\ root.release[root.current] = "whole" /\ Launchers \subseteq links
               \/ ~root.there
         \/ there = "release" /\ outcome'[p] = "failed"
  BY <1>2 DEF Confirm, Healthy, Residues, TypeOK
<1>4. pc' \in [Procs -> Places] /\ outcome' \in [Procs -> Outcomes]
  BY <1>1, <1>2 DEF Confirm, TypeOK, Places, Outcomes
<1>5. /\ created' \in [Procs -> SUBSET {"root", "releases", "release"}]
      /\ activated' \in [Procs -> 0..3] /\ UNCHANGED <<want, prior, holders, runs>>
  BY <1>2 DEF Confirm, TypeOK
<1>6. root' \in Trees /\ moved' \in Trees /\ links' \subseteq Launchers \cup Backups
  BY <1>2, <1>3 DEF TypeOK
<1>7. outcome'[p] \in {"installed", "removed"} => outcome' = outcome \/ there = "release"
  BY <1>1, <1>2 DEF Confirm
<1>8. TypeOK'
  BY <1>4, <1>5, <1>6, <1>2 DEF TypeOK
<1>9. DiskOK'
  BY <1>2, <1>3 DEF DiskOK, TreesOK, CurrentIsWhole, NoInstallBesideResidue
<1>10. PriorOK(p)' /\ MakingOK(p)' /\ StagingOK(p)' /\ LinkingOK(p)' /\ DeletingOK(p)'
  BY <1>2, <1>3 DEF HolderOK, PriorOK, MakingOK, StagingOK, LinkingOK, DeletingOK
<1>11. MovingOK(p)'
  BY <1>1, <1>2, <1>3 DEF TypeOK, HolderOK, MovingOK, Residues, Disk
<1>12. ReleaseOK(p)'
  BY <1>1, <1>2, <1>3, <1>7 DEF HolderOK, MovingOK, Disk, ReleaseOK, Untouched, Alike
<1> QED
  BY <1>2, <1>8, <1>9, <1>10, <1>11, <1>12, HolderStep DEF Confirm, Healthy, Residues, HolderOK,
       TypeOK

LEMMA MoveTreeInv == ASSUME IInv, NEW p \in Procs, MoveTree(p) PROVE IInv'
<1>1. PICK there \in {"moveLauncher", "backManager"} :
        pc[p] = "moveTree" /\ pc' = [pc EXCEPT ![p] = there]
  BY DEF MoveTree
<1>2. holders = {p} /\ HolderOK(p) /\ TypeOK /\ DiskOK /\ pc'[p] = there
  BY <1>1, HolderActs DEF TypeOK
<1>3. /\ UNCHANGED <<want, prior, created, activated, links>>
      /\ \/ there = "moveLauncher" /\ root.there /\ moved' = root /\ root' = NoTree
         \/ there = "backManager" /\ outcome'[p] = "failed" /\ UNCHANGED <<root, moved>>
  BY <1>2 DEF MoveTree, TypeOK
<1>4. NoTree \in Trees /\ ~NoTree.there /\ NoTree.current = 0
  BY EmptyTree
<1>5. pc' \in [Procs -> Places] /\ outcome' \in [Procs -> Outcomes]
  BY <1>1, <1>2 DEF MoveTree, TypeOK, Places, Outcomes
<1>6. /\ created' \in [Procs -> SUBSET {"root", "releases", "release"}]
      /\ activated' \in [Procs -> 0..3] /\ UNCHANGED <<want, prior, holders, runs>>
  BY <1>2 DEF MoveTree, TypeOK
<1>7. root' \in Trees /\ moved' \in Trees /\ links' \subseteq Launchers \cup Backups
  BY <1>2, <1>3, <1>4 DEF TypeOK
<1>8. outcome'[p] \in {"installed", "removed"} => outcome' = outcome \/ there = "release"
  BY <1>2 DEF MoveTree, TypeOK
<1>9. TypeOK'
  BY <1>5, <1>6, <1>7, <1>2 DEF TypeOK
<1>10. ~moved.there
  BY <1>1, <1>2 DEF HolderOK, MovingOK, Residues
<1>11. TreesOK'
  BY <1>2, <1>3 DEF DiskOK, TreesOK
<1>12. CurrentIsWhole'
  BY <1>2, <1>3, <1>4 DEF DiskOK, CurrentIsWhole
<1>13. NoInstallBesideResidue'
  BY <1>3, <1>4, <1>10 DEF NoInstallBesideResidue
<1>14. DiskOK'
  BY <1>11, <1>12, <1>13 DEF DiskOK
<1>15. PriorOK(p)' /\ MakingOK(p)' /\ StagingOK(p)' /\ LinkingOK(p)' /\ DeletingOK(p)' /\ ReleaseOK(p)'
  BY <1>1, <1>2, <1>3, <1>8 DEF HolderOK, PriorOK, MakingOK, StagingOK, LinkingOK, DeletingOK,
       ReleaseOK
<1>16. MovingOK(p)'
  BY <1>1, <1>2, <1>3 DEF HolderOK, MovingOK, Aside, Residues, Disk, DiskOK, TreesOK
<1> QED
  BY <1>2, <1>9, <1>14, <1>15, <1>16, HolderStep DEF MoveTree, HolderOK, TypeOK

LEMMA MoveLauncherInv == ASSUME IInv, NEW p \in Procs, MoveLauncher(p) PROVE IInv'
<1>1. PICK there \in {"moveManager", "backManager"} :
        pc[p] = "moveLauncher" /\ pc' = [pc EXCEPT ![p] = there]
  BY DEF MoveLauncher, MoveLink
<1>2. holders = {p} /\ HolderOK(p) /\ TypeOK /\ DiskOK /\ pc'[p] = there
  BY <1>1, HolderActs DEF TypeOK
<1>3. /\ UNCHANGED <<want, prior, created, activated, root, moved>>
      /\ \/ there = "moveManager" /\ links' = (links \ {"launcher"}) \cup {"launcherBackup"}
         \/ there = "backManager" /\ outcome'[p] = "failed" /\ UNCHANGED links
  BY <1>2 DEF MoveLauncher, MoveLink, TypeOK
<1>4. pc' \in [Procs -> Places] /\ outcome' \in [Procs -> Outcomes]
  BY <1>1, <1>2 DEF MoveLauncher, MoveLink, TypeOK, Places, Outcomes
<1>5. /\ created' \in [Procs -> SUBSET {"root", "releases", "release"}]
      /\ activated' \in [Procs -> 0..3] /\ UNCHANGED <<want, prior, holders, runs>>
  BY <1>2 DEF MoveLauncher, MoveLink, TypeOK
<1>6. root' \in Trees /\ moved' \in Trees /\ links' \subseteq Launchers \cup Backups
  BY <1>1, <1>2, <1>3 DEF TypeOK
<1>7. outcome'[p] \in {"installed", "removed"} => outcome' = outcome \/ there = "release"
  BY <1>2 DEF MoveLauncher, MoveLink, TypeOK
<1>8. TypeOK'
  BY <1>4, <1>5, <1>6, <1>2 DEF TypeOK
<1>9. DiskOK'
  BY <1>2, <1>3 DEF DiskOK, TreesOK, CurrentIsWhole, NoInstallBesideResidue
<1>10. PriorOK(p)' /\ MakingOK(p)' /\ StagingOK(p)' /\ LinkingOK(p)' /\ DeletingOK(p)' /\ ReleaseOK(p)'
  BY <1>1, <1>2, <1>3, <1>7 DEF HolderOK, PriorOK, MakingOK, StagingOK, LinkingOK, DeletingOK,
       ReleaseOK
<1>11. MovingOK(p)'
  BY <1>1, <1>2, <1>3 DEF HolderOK, MovingOK, Aside
<1> QED
  BY <1>2, <1>8, <1>9, <1>10, <1>11, HolderStep DEF MoveLauncher, MoveLink, HolderOK, TypeOK

LEMMA MoveManagerInv == ASSUME IInv, NEW p \in Procs, MoveManager(p) PROVE IInv'
<1>1. PICK there \in {"delete", "backManager"} :
        pc[p] = "moveManager" /\ pc' = [pc EXCEPT ![p] = there]
  BY DEF MoveManager, MoveLink
<1>2. holders = {p} /\ HolderOK(p) /\ TypeOK /\ DiskOK /\ pc'[p] = there
  BY <1>1, HolderActs DEF TypeOK
<1>3. /\ UNCHANGED <<want, prior, created, activated, root, moved>>
      /\ \/ there = "delete" /\ links' = (links \ {"manager"}) \cup {"managerBackup"}
         \/ there = "backManager" /\ outcome'[p] = "failed" /\ UNCHANGED links
  BY <1>2 DEF MoveManager, MoveLink, TypeOK
<1>4. pc' \in [Procs -> Places] /\ outcome' \in [Procs -> Outcomes]
  BY <1>1, <1>2 DEF MoveManager, MoveLink, TypeOK, Places, Outcomes
<1>5. /\ created' \in [Procs -> SUBSET {"root", "releases", "release"}]
      /\ activated' \in [Procs -> 0..3] /\ UNCHANGED <<want, prior, holders, runs>>
  BY <1>2 DEF MoveManager, MoveLink, TypeOK
<1>6. root' \in Trees /\ moved' \in Trees /\ links' \subseteq Launchers \cup Backups
  BY <1>1, <1>2, <1>3 DEF TypeOK
<1>7. outcome'[p] \in {"installed", "removed"} => outcome' = outcome \/ there = "release"
  BY <1>2 DEF MoveManager, MoveLink, TypeOK
<1>8. TypeOK'
  BY <1>4, <1>5, <1>6, <1>2 DEF TypeOK
<1>9. DiskOK'
  BY <1>2, <1>3 DEF DiskOK, TreesOK, CurrentIsWhole, NoInstallBesideResidue
<1>10. PriorOK(p)' /\ MakingOK(p)' /\ StagingOK(p)' /\ LinkingOK(p)' /\ ReleaseOK(p)'
  BY <1>1, <1>2, <1>3, <1>7 DEF HolderOK, PriorOK, MakingOK, StagingOK, LinkingOK, ReleaseOK
<1>11. MovingOK(p)'
  BY <1>1, <1>2, <1>3 DEF HolderOK, MovingOK, Aside
<1>12. DeletingOK(p)'
  BY <1>1, <1>2, <1>3 DEF HolderOK, MovingOK, Aside, DeletingOK, Deleting, Resemble
<1> QED
  BY <1>2, <1>8, <1>9, <1>10, <1>11, <1>12, HolderStep DEF MoveManager, MoveLink, HolderOK, TypeOK

LEMMA BackManagerInv == ASSUME IInv, NEW p \in Procs, BackManager(p) PROVE IInv'
<1>1. PICK there \in {"backLauncher"} :
        pc[p] = "backManager" /\ pc' = [pc EXCEPT ![p] = there]
  BY DEF BackManager, BackLink
<1>2. holders = {p} /\ HolderOK(p) /\ TypeOK /\ DiskOK /\ pc'[p] = there
  BY <1>1, HolderActs DEF TypeOK
<1>3. /\ UNCHANGED <<want, prior, created, activated, root, moved>>
      /\ \/ "managerBackup" \notin links /\ UNCHANGED <<links, outcome>>
         \/ /\ "managerBackup" \in links /\ outcome' = outcome
            /\ links' = (links \ {"managerBackup"}) \cup {"manager"}
         \/ "managerBackup" \in links /\ outcome'[p] = "unrestored" /\ UNCHANGED links
  BY <1>2 DEF BackManager, BackLink, TypeOK
<1>4. pc' \in [Procs -> Places] /\ outcome' \in [Procs -> Outcomes]
  BY <1>2 DEF BackManager, BackLink, TypeOK, Places, Outcomes
<1>5. /\ created' \in [Procs -> SUBSET {"root", "releases", "release"}]
      /\ activated' \in [Procs -> 0..3] /\ UNCHANGED <<want, prior, holders, runs>>
  BY <1>2 DEF BackManager, BackLink, TypeOK
<1>6. root' \in Trees /\ moved' \in Trees /\ links' \subseteq Launchers \cup Backups
  BY <1>1, <1>2, <1>3 DEF TypeOK
<1>7. outcome'[p] \in {"installed", "removed"} => outcome' = outcome \/ there = "release"
  BY <1>2 DEF BackManager, BackLink, TypeOK
<1>8. TypeOK'
  BY <1>4, <1>5, <1>6, <1>2 DEF TypeOK
<1>9. DiskOK'
  BY <1>2, <1>3 DEF DiskOK, TreesOK, CurrentIsWhole, NoInstallBesideResidue
<1>10. PriorOK(p)' /\ MakingOK(p)' /\ StagingOK(p)' /\ LinkingOK(p)' /\ DeletingOK(p)' /\ ReleaseOK(p)'
  BY <1>1, <1>2, <1>3 DEF HolderOK, PriorOK, MakingOK, StagingOK, LinkingOK, DeletingOK, ReleaseOK
<1>11. MovingOK(p)'
  BY <1>1, <1>2, <1>3 DEF HolderOK, MovingOK, Aside, Residues, Disk
<1> QED
  BY <1>2, <1>8, <1>9, <1>10, <1>11, HolderStep DEF BackManager, BackLink, HolderOK, TypeOK

LEMMA BackLauncherInv == ASSUME IInv, NEW p \in Procs, BackLauncher(p) PROVE IInv'
<1>1. PICK there \in {"backTree"} :
        pc[p] = "backLauncher" /\ pc' = [pc EXCEPT ![p] = there]
  BY DEF BackLauncher, BackLink
<1>2. holders = {p} /\ HolderOK(p) /\ TypeOK /\ DiskOK /\ pc'[p] = there
  BY <1>1, HolderActs DEF TypeOK
<1>3. /\ UNCHANGED <<want, prior, created, activated, root, moved>>
      /\ \/ "launcherBackup" \notin links /\ UNCHANGED <<links, outcome>>
         \/ /\ "launcherBackup" \in links /\ outcome' = outcome
            /\ links' = (links \ {"launcherBackup"}) \cup {"launcher"}
         \/ "launcherBackup" \in links /\ outcome'[p] = "unrestored" /\ UNCHANGED links
  BY <1>2 DEF BackLauncher, BackLink, TypeOK
<1>4. pc' \in [Procs -> Places] /\ outcome' \in [Procs -> Outcomes]
  BY <1>2 DEF BackLauncher, BackLink, TypeOK, Places, Outcomes
<1>5. /\ created' \in [Procs -> SUBSET {"root", "releases", "release"}]
      /\ activated' \in [Procs -> 0..3] /\ UNCHANGED <<want, prior, holders, runs>>
  BY <1>2 DEF BackLauncher, BackLink, TypeOK
<1>6. root' \in Trees /\ moved' \in Trees /\ links' \subseteq Launchers \cup Backups
  BY <1>1, <1>2, <1>3 DEF TypeOK
<1>7. outcome'[p] \in {"installed", "removed"} => outcome' = outcome \/ there = "release"
  BY <1>2 DEF BackLauncher, BackLink, TypeOK
<1>8. TypeOK'
  BY <1>4, <1>5, <1>6, <1>2 DEF TypeOK
<1>9. DiskOK'
  BY <1>2, <1>3 DEF DiskOK, TreesOK, CurrentIsWhole, NoInstallBesideResidue
<1>10. PriorOK(p)' /\ MakingOK(p)' /\ StagingOK(p)' /\ LinkingOK(p)' /\ DeletingOK(p)' /\ ReleaseOK(p)'
  BY <1>1, <1>2, <1>3 DEF HolderOK, PriorOK, MakingOK, StagingOK, LinkingOK, DeletingOK, ReleaseOK
<1>11. MovingOK(p)'
  BY <1>1, <1>2, <1>3 DEF HolderOK, MovingOK, Aside, Residues, Disk
<1> QED
  BY <1>2, <1>8, <1>9, <1>10, <1>11, HolderStep DEF BackLauncher, BackLink, HolderOK, TypeOK

LEMMA BackTreeInv == ASSUME IInv, NEW p \in Procs, BackTree(p) PROVE IInv'
<1>1. PICK there \in {"release"} :
        pc[p] = "backTree" /\ pc' = [pc EXCEPT ![p] = there]
  BY DEF BackTree
<1>2. holders = {p} /\ HolderOK(p) /\ TypeOK /\ DiskOK /\ pc'[p] = there
  BY <1>1, HolderActs DEF TypeOK
<1>3. /\ UNCHANGED <<want, prior, created, activated, links>>
      /\ \/ (~moved.there \/ root.there) /\ UNCHANGED <<root, moved, outcome>>
         \/ moved.there /\ ~root.there /\ root' = moved /\ moved' = NoTree /\ outcome' = outcome
         \/ outcome'[p] = "unrestored" /\ UNCHANGED <<root, moved>>
  BY <1>2 DEF BackTree, TypeOK
<1>4. NoTree \in Trees /\ ~NoTree.there /\ NoTree.current = 0
  BY EmptyTree
<1>5. pc' \in [Procs -> Places] /\ outcome' \in [Procs -> Outcomes]
  BY <1>2 DEF BackTree, TypeOK, Places, Outcomes
<1>6. /\ created' \in [Procs -> SUBSET {"root", "releases", "release"}]
      /\ activated' \in [Procs -> 0..3] /\ UNCHANGED <<want, prior, holders, runs>>
  BY <1>2 DEF BackTree, TypeOK
<1>7. root' \in Trees /\ moved' \in Trees /\ links' \subseteq Launchers \cup Backups
  BY <1>2, <1>3, <1>4 DEF TypeOK
<1>8. outcome'[p] \in {"installed", "removed"} => outcome' = outcome \/ there = "release"
  OBVIOUS
<1>9. TypeOK'
  BY <1>5, <1>6, <1>7, <1>2 DEF TypeOK
<1>10. root.there => ~moved.there
  BY <1>1, <1>2, <1>4 DEF HolderOK, MovingOK, Residues, Aside
<1>11. TreesOK'
  BY <1>2, <1>3 DEF DiskOK, TreesOK
<1>12. CurrentIsWhole'
  <2>1. CASE UNCHANGED root
    BY <2>1, <1>2 DEF DiskOK, CurrentIsWhole
  <2>2. CASE moved.there /\ root' = moved
    <3>1. Aside(p) /\ moved = prior[p].root
      BY <2>2, <1>1, <1>2 DEF HolderOK, MovingOK, Residues
    <3> QED BY <2>2, <3>1 DEF Aside, CurrentIsWhole
  <2> QED BY <1>3, <2>1, <2>2
<1>13. NoInstallBesideResidue'
  BY <1>2, <1>3, <1>4 DEF DiskOK, NoInstallBesideResidue
<1>14. DiskOK'
  BY <1>11, <1>12, <1>13 DEF DiskOK
<1>15. PriorOK(p)' /\ MakingOK(p)' /\ StagingOK(p)' /\ LinkingOK(p)' /\ MovingOK(p)' /\ DeletingOK(p)'
  BY <1>2, <1>3 DEF HolderOK, PriorOK, MakingOK, StagingOK, LinkingOK, MovingOK, DeletingOK
<1>16. ReleaseOK(p)'
  <2>1. outcome[p] \notin {"installed", "removed"}
    BY <1>1, <1>2 DEF HolderOK, ReleaseOK
  <2>2. ASSUME outcome'[p] = "failed" PROVE Untouched(p)'
    <3>1. outcome[p] = "failed"
      BY <2>2, <1>3
    <3>2. CASE Disk = prior[p] /\ ~Residues
      <4>1. root = prior[p].root /\ moved = prior[p].moved /\ links = prior[p].links
        BY <3>2 DEF Disk
      <4>2. root' = root /\ moved' = moved /\ links' = links /\ prior' = prior
        BY <3>2, <1>3 DEF Residues
      <4> QED BY <4>1, <4>2 DEF Untouched, Alike
    <3>3. CASE Aside(p) /\ moved = prior[p].root /\ links = Launchers
      <4>1. root' = prior[p].root /\ moved' = NoTree /\ links' = Launchers /\ prior' = prior
        BY <3>3, <2>2, <1>3, <1>4 DEF Aside
      <4> QED BY <3>3, <4>1 DEF Aside, Untouched, Alike
    <3> QED BY <3>1, <3>2, <3>3, <1>1, <1>2 DEF HolderOK, MovingOK
  <2> QED BY <1>3, <2>1, <2>2 DEF ReleaseOK
<1> QED
  BY <1>2, <1>9, <1>14, <1>15, <1>16, HolderStep DEF BackTree, HolderOK, TypeOK

LEMMA DeleteReleaseInv == ASSUME IInv, NEW p \in Procs, DeleteRelease(p) PROVE IInv'
<1>1. PICK there \in {"deleteReleases", "deletePart", "judge"} :
        pc[p] = "delete" /\ pc' = [pc EXCEPT ![p] = there]
  BY DEF DeleteRelease
<1>2. holders = {p} /\ HolderOK(p) /\ TypeOK /\ DiskOK /\ pc'[p] = there
  BY <1>1, HolderActs DEF TypeOK
<1>3. /\ moved \in Trees /\ moved.release \in [Releases -> {"none", "part", "whole"}]
  BY <1>2 DEF TypeOK, Trees
<1>4. /\ UNCHANGED <<want, prior, created, activated, root, links>>
      /\ \/ there = "deleteReleases" /\ Empty(moved) /\ moved' = moved
         \/ there = "deletePart" /\ \E r \in Releases : moved' = [moved EXCEPT !.release[r] = "part"]
         \/ there = "judge" /\ outcome'[p] = "failed" /\ moved' = moved
  BY <1>2 DEF DeleteRelease, TypeOK
<1>5. moved' \in Trees /\ Resemble(moved', moved)
  <2>1. ASSUME NEW r \in Releases, moved' = [moved EXCEPT !.release[r] = "part"]
        PROVE  moved' \in Trees /\ Resemble(moved', moved)
    <3>1. [moved.release EXCEPT ![r] = "part"] \in [Releases -> {"none", "part", "whole"}]
      BY <1>3
    <3> QED BY <2>1, <3>1, <1>3 DEF Trees, Resemble
  <2>2. Resemble(moved, moved)
    BY DEF Resemble
  <2> QED BY <1>3, <1>4, <2>1, <2>2
<1>6. NoTree \in Trees /\ ~NoTree.there /\ NoTree.current = 0
  BY EmptyTree
<1>7. pc' \in [Procs -> Places] /\ outcome' \in [Procs -> Outcomes]
  BY <1>2 DEF DeleteRelease, TypeOK, Places, Outcomes
<1>8. /\ created' \in [Procs -> SUBSET {"root", "releases", "release"}]
      /\ activated' \in [Procs -> 0..3] /\ UNCHANGED <<want, prior, holders, runs>>
  BY <1>2 DEF DeleteRelease, TypeOK
<1>9. root' \in Trees /\ moved' \in Trees /\ links' \subseteq Launchers \cup Backups
  BY <1>2, <1>4, <1>5 DEF TypeOK
<1>10. outcome'[p] \in {"installed", "removed"} => outcome' = outcome \/ there = "release"
  BY <1>2 DEF DeleteRelease, TypeOK
<1>11. TypeOK'
  BY <1>7, <1>8, <1>9, <1>2 DEF TypeOK
<1>12. root = NoTree
  BY <1>1, <1>2 DEF HolderOK, DeletingOK, Deleting, Aside
<1>13. moved.there
  BY <1>1, <1>2 DEF HolderOK, DeletingOK, Deleting, Aside, Resemble
<1>14. TreesOK'
  BY <1>2, <1>4, <1>5, <1>13 DEF DiskOK, TreesOK, Resemble
<1>15. CurrentIsWhole'
  BY <1>4, <1>6, <1>12 DEF CurrentIsWhole
<1>16. NoInstallBesideResidue'
  BY <1>4, <1>6, <1>12 DEF NoInstallBesideResidue
<1>17. DiskOK'
  BY <1>14, <1>15, <1>16 DEF DiskOK
<1>18. PriorOK(p)' /\ MakingOK(p)' /\ StagingOK(p)' /\ LinkingOK(p)' /\ MovingOK(p)' /\ ReleaseOK(p)'
  BY <1>1, <1>2, <1>4, <1>10 DEF HolderOK, PriorOK, MakingOK, StagingOK, LinkingOK, MovingOK,
       ReleaseOK
<1>19. DeletingOK(p)'
  <2>1. Deleting(p) /\ links = Backups
    BY <1>1, <1>2 DEF HolderOK, DeletingOK
  <2>2. Deleting(p)' /\ links' = Backups
    BY <1>4, <1>5, <2>1 DEF Deleting, Aside, Resemble
  <2>3. Aside(p)' /\ (there = "deleteReleases" => Empty(moved'))
    BY <1>4, <2>2 DEF Deleting
  <2>4. there = "judge" => outcome'[p] = "failed"
    BY <1>4
  <2> QED BY <1>1, <2>2, <2>3, <2>4 DEF DeletingOK
<1> QED
  BY <1>2, <1>11, <1>17, <1>18, <1>19, HolderStep DEF DeleteRelease, HolderOK, TypeOK

LEMMA DeletePartInv == ASSUME IInv, NEW p \in Procs, DeletePart(p) PROVE IInv'
<1>1. PICK there \in {"delete", "judge"} :
        pc[p] = "deletePart" /\ pc' = [pc EXCEPT ![p] = there]
  BY DEF DeletePart
<1>2. holders = {p} /\ HolderOK(p) /\ TypeOK /\ DiskOK /\ pc'[p] = there
  BY <1>1, HolderActs DEF TypeOK
<1>3. /\ moved \in Trees /\ moved.release \in [Releases -> {"none", "part", "whole"}]
  BY <1>2 DEF TypeOK, Trees
<1>4. PICK pruned : pruned = [r \in Releases |->
        IF moved.release[r] = "part" THEN "none" ELSE moved.release[r]]
  OBVIOUS
<1>5. pruned \in [Releases -> {"none", "part", "whole"}]
  BY <1>3, <1>4
<1>6. /\ UNCHANGED <<want, prior, created, activated, root, links>>
      /\ \/ there = "delete" /\ moved' = [moved EXCEPT !.release = pruned]
         \/ there = "judge" /\ outcome'[p] = "failed" /\ moved' = moved
  BY <1>2, <1>4 DEF DeletePart, TypeOK
<1>7. moved' \in Trees /\ Resemble(moved', moved)
  BY <1>3, <1>5, <1>6, SetReleases DEF Resemble
<1>8. NoTree \in Trees /\ ~NoTree.there /\ NoTree.current = 0
  BY EmptyTree
<1>9. pc' \in [Procs -> Places] /\ outcome' \in [Procs -> Outcomes]
  BY <1>1, <1>2 DEF DeletePart, TypeOK, Places, Outcomes
<1>10. /\ created' \in [Procs -> SUBSET {"root", "releases", "release"}]
       /\ activated' \in [Procs -> 0..3] /\ UNCHANGED <<want, prior, holders, runs>>
  BY <1>2 DEF DeletePart, TypeOK
<1>11. root' \in Trees /\ moved' \in Trees /\ links' \subseteq Launchers \cup Backups
  BY <1>2, <1>6, <1>7 DEF TypeOK
<1>12. outcome'[p] \in {"installed", "removed"} => outcome' = outcome \/ there = "release"
  BY <1>2 DEF DeletePart, TypeOK
<1>13. TypeOK'
  BY <1>9, <1>10, <1>11, <1>2 DEF TypeOK
<1>14. root = NoTree
  BY <1>1, <1>2 DEF HolderOK, DeletingOK, Deleting, Aside
<1>15. moved.there
  BY <1>1, <1>2 DEF HolderOK, DeletingOK, Deleting, Aside, Resemble
<1>16. TreesOK'
  BY <1>2, <1>6, <1>7, <1>15 DEF DiskOK, TreesOK, Resemble
<1>17. CurrentIsWhole'
  BY <1>6, <1>8, <1>14 DEF CurrentIsWhole
<1>18. NoInstallBesideResidue'
  BY <1>6, <1>8, <1>14 DEF NoInstallBesideResidue
<1>19. DiskOK'
  BY <1>16, <1>17, <1>18 DEF DiskOK
<1>20. PriorOK(p)' /\ MakingOK(p)' /\ StagingOK(p)' /\ LinkingOK(p)' /\ MovingOK(p)' /\ ReleaseOK(p)'
  BY <1>1, <1>2, <1>6, <1>12 DEF HolderOK, PriorOK, MakingOK, StagingOK, LinkingOK, MovingOK,
       ReleaseOK
<1>21. DeletingOK(p)'
  <2>1. Deleting(p) /\ links = Backups
    BY <1>1, <1>2 DEF HolderOK, DeletingOK
  <2>2. Deleting(p)' /\ links' = Backups
    BY <1>6, <1>7, <2>1 DEF Deleting, Aside, Resemble
  <2>3. Aside(p)' /\ (there = "judge" => outcome'[p] = "failed")
    BY <1>6, <2>2 DEF Deleting
  <2> QED BY <1>1, <2>2, <2>3 DEF DeletingOK
<1> QED
  BY <1>1, <1>2, <1>13, <1>19, <1>20, <1>21, HolderStep DEF DeletePart, HolderOK, TypeOK

LEMMA DeleteReleasesInv == ASSUME IInv, NEW p \in Procs, DeleteReleases(p) PROVE IInv'
<1>1. PICK there \in {"deleteCurrent", "judge"} :
        pc[p] = "deleteReleases" /\ pc' = [pc EXCEPT ![p] = there]
  BY DEF DeleteReleases, Delete
<1>2. holders = {p} /\ HolderOK(p) /\ TypeOK /\ DiskOK /\ pc'[p] = there
  BY <1>1, HolderActs DEF TypeOK
<1>3. /\ moved \in Trees /\ moved.release \in [Releases -> {"none", "part", "whole"}]
  BY <1>2 DEF TypeOK, Trees
<1>4. PICK tree : tree = [moved EXCEPT !.dir = FALSE]
  OBVIOUS
<1>5. /\ tree \in Trees
      /\ tree.there = moved.there /\ tree.dir = FALSE
      /\ tree.release = moved.release
      /\ tree.stage = moved.stage /\ tree.current = moved.current
      /\ tree.litter = moved.litter
  BY <1>4, <1>3 DEF Trees
<1>6. /\ UNCHANGED <<want, prior, created, activated, root, links>>
      /\ \/ there = "deleteCurrent" /\ moved' = tree
         \/ there = "judge" /\ outcome'[p] = "failed" /\ moved' = moved
  BY <1>2, <1>4 DEF DeleteReleases, Delete, TypeOK
<1>7. NoTree \in Trees /\ ~NoTree.there /\ NoTree.current = 0
  BY EmptyTree
<1>8. pc' \in [Procs -> Places] /\ outcome' \in [Procs -> Outcomes]
  BY <1>1, <1>2 DEF DeleteReleases, Delete, TypeOK, Places, Outcomes
<1>9. /\ created' \in [Procs -> SUBSET {"root", "releases", "release"}]
      /\ activated' \in [Procs -> 0..3] /\ UNCHANGED <<want, prior, holders, runs>>
  BY <1>2 DEF DeleteReleases, Delete, TypeOK
<1>10. root' \in Trees /\ moved' \in Trees /\ links' \subseteq Launchers \cup Backups
  BY <1>2, <1>5, <1>6 DEF TypeOK
<1>11. outcome'[p] \in {"installed", "removed"} => outcome' = outcome \/ there = "release"
  BY <1>2 DEF DeleteReleases, Delete, TypeOK
<1>12. TypeOK'
  BY <1>8, <1>9, <1>10, <1>2 DEF TypeOK
<1>13. root = NoTree
  BY <1>1, <1>2 DEF HolderOK, DeletingOK, Deleting, Aside
<1>14. moved.there
  BY <1>1, <1>2 DEF HolderOK, DeletingOK, Deleting, Aside, Resemble
<1>15. TreesOK'
  BY <1>1, <1>2, <1>3, <1>5, <1>6, <1>7, <1>11, <1>13, <1>14 DEF DiskOK, TreesOK
<1>16. CurrentIsWhole'
  BY <1>6, <1>7, <1>13 DEF CurrentIsWhole
<1>17. NoInstallBesideResidue'
  BY <1>6, <1>7, <1>13 DEF NoInstallBesideResidue
<1>18. DiskOK'
  BY <1>15, <1>16, <1>17 DEF DiskOK
<1>19. PriorOK(p)' /\ MakingOK(p)' /\ StagingOK(p)' /\ LinkingOK(p)' /\ MovingOK(p)' /\ ReleaseOK(p)'
  BY <1>1, <1>2, <1>6, <1>11 DEF HolderOK, PriorOK, MakingOK, StagingOK, LinkingOK, MovingOK,
       ReleaseOK
<1>20. DeletingOK(p)'
  <2>1. Aside(p) /\ links = Backups /\ Empty(moved)
    BY <1>1, <1>2 DEF HolderOK, DeletingOK, Deleting
  <2>2. Aside(p)' /\ links' = Backups /\ Empty(moved)'
    BY <1>5, <1>6, <2>1 DEF Aside, Empty
  <2>3. there = "deleteCurrent" => moved'.there
    BY <1>5, <1>6, <1>14
  <2>4. there = "judge" => outcome'[p] = "failed"
    BY <1>6
  <2> QED BY <1>2, <2>2, <2>3, <2>4 DEF DeletingOK
<1> QED
  BY <1>2, <1>12, <1>18, <1>19, <1>20, HolderStep DEF DeleteReleases, Delete, HolderOK, TypeOK

LEMMA DeleteCurrentInv == ASSUME IInv, NEW p \in Procs, DeleteCurrent(p) PROVE IInv'
<1>1. PICK there \in {"deleteTree", "judge"} :
        pc[p] = "deleteCurrent" /\ pc' = [pc EXCEPT ![p] = there]
  BY DEF DeleteCurrent, Delete
<1>2. holders = {p} /\ HolderOK(p) /\ TypeOK /\ DiskOK /\ pc'[p] = there
  BY <1>1, HolderActs DEF TypeOK
<1>3. /\ moved \in Trees /\ moved.release \in [Releases -> {"none", "part", "whole"}]
  BY <1>2 DEF TypeOK, Trees
<1>4. PICK tree : tree = [moved EXCEPT !.current = 0]
  OBVIOUS
<1>5. /\ tree \in Trees
      /\ tree.there = moved.there /\ tree.dir = moved.dir
      /\ tree.release = moved.release
      /\ tree.stage = moved.stage /\ tree.current = 0
      /\ tree.litter = moved.litter
  BY <1>4, <1>3 DEF Trees
<1>6. /\ UNCHANGED <<want, prior, created, activated, root, links>>
      /\ \/ there = "deleteTree" /\ moved' = tree
         \/ there = "judge" /\ outcome'[p] = "failed" /\ moved' = moved
  BY <1>2, <1>4 DEF DeleteCurrent, Delete, TypeOK
<1>7. NoTree \in Trees /\ ~NoTree.there /\ NoTree.current = 0
  BY EmptyTree
<1>8. pc' \in [Procs -> Places] /\ outcome' \in [Procs -> Outcomes]
  BY <1>1, <1>2 DEF DeleteCurrent, Delete, TypeOK, Places, Outcomes
<1>9. /\ created' \in [Procs -> SUBSET {"root", "releases", "release"}]
      /\ activated' \in [Procs -> 0..3] /\ UNCHANGED <<want, prior, holders, runs>>
  BY <1>2 DEF DeleteCurrent, Delete, TypeOK
<1>10. root' \in Trees /\ moved' \in Trees /\ links' \subseteq Launchers \cup Backups
  BY <1>2, <1>5, <1>6 DEF TypeOK
<1>11. outcome'[p] \in {"installed", "removed"} => outcome' = outcome \/ there = "release"
  BY <1>2 DEF DeleteCurrent, Delete, TypeOK
<1>12. TypeOK'
  BY <1>8, <1>9, <1>10, <1>2 DEF TypeOK
<1>13. root = NoTree
  BY <1>1, <1>2 DEF HolderOK, DeletingOK, Aside
<1>14. moved.there
  BY <1>1, <1>2 DEF HolderOK, DeletingOK
<1>15. TreesOK'
  BY <1>1, <1>2, <1>3, <1>5, <1>6, <1>7, <1>11, <1>13, <1>14 DEF DiskOK, TreesOK
<1>16. CurrentIsWhole'
  BY <1>6, <1>7, <1>13 DEF CurrentIsWhole
<1>17. NoInstallBesideResidue'
  BY <1>6, <1>7, <1>13 DEF NoInstallBesideResidue
<1>18. DiskOK'
  BY <1>15, <1>16, <1>17 DEF DiskOK
<1>19. PriorOK(p)' /\ MakingOK(p)' /\ StagingOK(p)' /\ LinkingOK(p)' /\ MovingOK(p)' /\ ReleaseOK(p)'
  BY <1>1, <1>2, <1>6, <1>11 DEF HolderOK, PriorOK, MakingOK, StagingOK, LinkingOK, MovingOK,
       ReleaseOK
<1>20. DeletingOK(p)'
  <2>1. Aside(p) /\ links = Backups /\ Empty(moved)
    BY <1>1, <1>2 DEF HolderOK, DeletingOK
  <2>2. Aside(p)' /\ links' = Backups /\ Empty(moved)'
    BY <1>5, <1>6, <2>1 DEF Aside, Empty
  <2>3. there = "deleteTree" => moved'.there /\ moved'.current = 0
    BY <1>5, <1>6, <1>14
  <2>4. there = "judge" => outcome'[p] = "failed"
    BY <1>6
  <2> QED BY <1>2, <2>2, <2>3, <2>4 DEF DeletingOK
<1> QED
  BY <1>2, <1>12, <1>18, <1>19, <1>20, HolderStep DEF DeleteCurrent, Delete, HolderOK, TypeOK

LEMMA DeleteTreeInv == ASSUME IInv, NEW p \in Procs, DeleteTree(p) PROVE IInv'
<1>1. PICK there \in {"deleteLauncher", "judge"} :
        pc[p] = "deleteTree" /\ pc' = [pc EXCEPT ![p] = there]
  BY DEF DeleteTree, Delete
<1>2. holders = {p} /\ HolderOK(p) /\ TypeOK /\ DiskOK /\ pc'[p] = there
  BY <1>1, HolderActs DEF TypeOK
<1>3. /\ UNCHANGED <<want, prior, created, activated, root, links>>
      /\ \/ there = "deleteLauncher" /\ moved' = NoTree
         \/ there = "judge" /\ outcome'[p] = "failed" /\ UNCHANGED moved
  BY <1>2 DEF DeleteTree, Delete, TypeOK
<1>4. NoTree \in Trees /\ ~NoTree.there /\ NoTree.current = 0
  BY EmptyTree
<1>5. pc' \in [Procs -> Places] /\ outcome' \in [Procs -> Outcomes]
  BY <1>2 DEF DeleteTree, Delete, TypeOK, Places, Outcomes
<1>6. /\ created' \in [Procs -> SUBSET {"root", "releases", "release"}]
      /\ activated' \in [Procs -> 0..3] /\ UNCHANGED <<want, prior, holders, runs>>
  BY <1>2 DEF DeleteTree, Delete, TypeOK
<1>7. root' \in Trees /\ moved' \in Trees /\ links' \subseteq Launchers \cup Backups
  BY <1>2, <1>3, <1>4 DEF TypeOK
<1>8. outcome'[p] \in {"installed", "removed"} => outcome' = outcome \/ there = "release"
  BY <1>2 DEF DeleteTree, Delete, TypeOK
<1>9. TypeOK'
  BY <1>5, <1>6, <1>7, <1>2 DEF TypeOK
<1>10. root = NoTree
  BY <1>1, <1>2 DEF HolderOK, DeletingOK, Aside
<1>11. TreesOK'
  BY <1>2, <1>3 DEF DiskOK, TreesOK
<1>12. CurrentIsWhole'
  BY <1>3, <1>4, <1>10 DEF CurrentIsWhole
<1>13. NoInstallBesideResidue'
  BY <1>3, <1>4, <1>10 DEF NoInstallBesideResidue
<1>14. DiskOK'
  BY <1>11, <1>12, <1>13 DEF DiskOK
<1>15. PriorOK(p)' /\ MakingOK(p)' /\ StagingOK(p)' /\ LinkingOK(p)' /\ MovingOK(p)' /\ ReleaseOK(p)'
  BY <1>1, <1>2, <1>3, <1>8 DEF HolderOK, PriorOK, MakingOK, StagingOK, LinkingOK, MovingOK,
       ReleaseOK
<1>16. DeletingOK(p)'
  BY <1>1, <1>2, <1>3 DEF HolderOK, DeletingOK, Aside
<1> QED
  BY <1>2, <1>9, <1>14, <1>15, <1>16, HolderStep DEF DeleteTree, Delete, HolderOK, TypeOK

LEMMA DeleteLauncherInv == ASSUME IInv, NEW p \in Procs, DeleteLauncher(p) PROVE IInv'
<1>1. PICK there \in {"deleteManager", "judge"} :
        pc[p] = "deleteLauncher" /\ pc' = [pc EXCEPT ![p] = there]
  BY DEF DeleteLauncher, Delete
<1>2. holders = {p} /\ HolderOK(p) /\ TypeOK /\ DiskOK /\ pc'[p] = there
  BY <1>1, HolderActs DEF TypeOK
<1>3. /\ UNCHANGED <<want, prior, created, activated, root, moved>>
      /\ \/ there = "deleteManager" /\ links' = links \ {"launcherBackup"}
         \/ there = "judge" /\ outcome'[p] = "failed" /\ UNCHANGED links
  BY <1>2 DEF DeleteLauncher, Delete, TypeOK
<1>4. NoTree \in Trees /\ ~NoTree.there /\ NoTree.current = 0
  BY EmptyTree
<1>5. pc' \in [Procs -> Places] /\ outcome' \in [Procs -> Outcomes]
  BY <1>1, <1>2 DEF DeleteLauncher, Delete, TypeOK, Places, Outcomes
<1>6. /\ created' \in [Procs -> SUBSET {"root", "releases", "release"}]
      /\ activated' \in [Procs -> 0..3] /\ UNCHANGED <<want, prior, holders, runs>>
  BY <1>2 DEF DeleteLauncher, Delete, TypeOK
<1>7. root' \in Trees /\ moved' \in Trees /\ links' \subseteq Launchers \cup Backups
  BY <1>1, <1>2, <1>3, <1>4 DEF TypeOK
<1>8. outcome'[p] \in {"installed", "removed"} => outcome' = outcome \/ there = "release"
  BY <1>2 DEF DeleteLauncher, Delete, TypeOK
<1>9. TypeOK'
  BY <1>5, <1>6, <1>7, <1>2 DEF TypeOK
<1>10. DiskOK'
  BY <1>2, <1>3 DEF DiskOK, TreesOK, CurrentIsWhole, NoInstallBesideResidue
<1>11. PriorOK(p)' /\ MakingOK(p)' /\ StagingOK(p)' /\ LinkingOK(p)' /\ MovingOK(p)' /\ ReleaseOK(p)'
  BY <1>1, <1>2, <1>3, <1>8 DEF HolderOK, PriorOK, MakingOK, StagingOK, LinkingOK, MovingOK,
       ReleaseOK
<1>12. DeletingOK(p)'
  BY <1>1, <1>2, <1>3, <1>4 DEF HolderOK, DeletingOK, Aside
<1> QED
  BY <1>2, <1>9, <1>10, <1>11, <1>12, HolderStep DEF DeleteLauncher, Delete, HolderOK, TypeOK

LEMMA DeleteManagerInv == ASSUME IInv, NEW p \in Procs, DeleteManager(p) PROVE IInv'
<1>1. PICK there \in {"release", "judge"} :
        pc[p] = "deleteManager" /\ pc' = [pc EXCEPT ![p] = there]
  BY DEF DeleteManager
<1>2. holders = {p} /\ HolderOK(p) /\ TypeOK /\ DiskOK /\ pc'[p] = there
  BY <1>1, HolderActs DEF TypeOK
<1>3. /\ UNCHANGED <<want, prior, created, activated, root, moved>>
      /\ \/ there = "release" /\ outcome'[p] = "removed" /\ links' = links \ {"managerBackup"}
         \/ there = "judge" /\ outcome'[p] = "failed" /\ UNCHANGED links
  BY <1>2 DEF DeleteManager, TypeOK
<1>4. NoTree \in Trees /\ ~NoTree.there /\ NoTree.current = 0
  BY EmptyTree
<1>5. pc' \in [Procs -> Places] /\ outcome' \in [Procs -> Outcomes]
  BY <1>2 DEF DeleteManager, TypeOK, Places, Outcomes
<1>6. /\ created' \in [Procs -> SUBSET {"root", "releases", "release"}]
      /\ activated' \in [Procs -> 0..3] /\ UNCHANGED <<want, prior, holders, runs>>
  BY <1>2 DEF DeleteManager, TypeOK
<1>7. root' \in Trees /\ moved' \in Trees /\ links' \subseteq Launchers \cup Backups
  BY <1>1, <1>2, <1>3, <1>4 DEF TypeOK
<1>8. outcome'[p] \in {"installed", "removed"} => outcome' = outcome \/ there = "release"
  BY <1>2 DEF DeleteManager, TypeOK
<1>9. TypeOK'
  BY <1>5, <1>6, <1>7, <1>2 DEF TypeOK
<1>10. DiskOK'
  BY <1>2, <1>3 DEF DiskOK, TreesOK, CurrentIsWhole, NoInstallBesideResidue
<1>11. PriorOK(p)' /\ MakingOK(p)' /\ StagingOK(p)' /\ LinkingOK(p)' /\ MovingOK(p)'
  BY <1>2, <1>3 DEF HolderOK, PriorOK, MakingOK, StagingOK, LinkingOK, MovingOK
<1>12. DeletingOK(p)'
  BY <1>1, <1>2, <1>3, <1>4 DEF HolderOK, DeletingOK, Aside
<1>13. ReleaseOK(p)'
  BY <1>1, <1>2, <1>3 DEF HolderOK, DeletingOK, Aside, ReleaseOK
<1> QED
  BY <1>2, <1>9, <1>10, <1>11, <1>12, <1>13, HolderStep DEF DeleteManager, HolderOK, TypeOK

LEMMA JudgeInv == ASSUME IInv, NEW p \in Procs, Judge(p) PROVE IInv'
<1>1. PICK there \in {"backManager", "release"} :
        pc[p] = "judge" /\ pc' = [pc EXCEPT ![p] = there]
  BY DEF Judge
<1>2. holders = {p} /\ HolderOK(p) /\ TypeOK /\ DiskOK /\ pc'[p] = there
  BY <1>1, HolderActs DEF TypeOK
<1>3. /\ UNCHANGED <<want, prior, created, activated, root, moved, links>>
      /\ \/ /\ there = "backManager" /\ outcome' = outcome /\ moved.there /\ Backups \subseteq links
            /\ moved.current # 0 /\ moved.release = prior[p].root.release
         \/ there = "release" /\ outcome'[p] = "stopped"
  BY <1>2 DEF Judge, Intact, TypeOK
<1>4. pc' \in [Procs -> Places] /\ outcome' \in [Procs -> Outcomes]
  BY <1>1, <1>2 DEF Judge, TypeOK, Places, Outcomes
<1>5. /\ created' \in [Procs -> SUBSET {"root", "releases", "release"}]
      /\ activated' \in [Procs -> 0..3] /\ UNCHANGED <<want, prior, holders, runs>>
  BY <1>2 DEF Judge, TypeOK
<1>6. root' \in Trees /\ moved' \in Trees /\ links' \subseteq Launchers \cup Backups
  BY <1>2, <1>3 DEF TypeOK
<1>7. outcome'[p] \in {"installed", "removed"} => outcome' = outcome \/ there = "release"
  BY <1>1, <1>2 DEF Judge
<1>8. TypeOK'
  BY <1>4, <1>5, <1>6, <1>2 DEF TypeOK
<1>9. DiskOK'
  BY <1>2, <1>3 DEF DiskOK, TreesOK, CurrentIsWhole, NoInstallBesideResidue
<1>10. PriorOK(p)' /\ MakingOK(p)' /\ StagingOK(p)' /\ LinkingOK(p)' /\ DeletingOK(p)'
  BY <1>2, <1>3 DEF HolderOK, PriorOK, MakingOK, StagingOK, LinkingOK, DeletingOK
<1>11. MovingOK(p)'
  <2>1. SUFFICES ASSUME there = "backManager" PROVE MovingOK(p)'
    BY <1>1 DEF MovingOK
  <2>2. Aside(p) /\ links = Backups /\ outcome[p] = "failed"
    BY <2>1, <1>1, <1>2, <1>3 DEF HolderOK, DeletingOK
  <2>3. moved.release = prior[p].root.release /\ moved.there /\ moved.current # 0
    BY <2>1, <1>3
  <2>4. prior[p].root \in Trees /\ moved \in Trees
    BY <1>2 DEF TypeOK
  <2>5. prior[p].root.current \in Releases
    BY <2>2, <2>4 DEF Aside, Trees
  <2>6. ~Empty(moved)
    BY <2>2, <2>3, <2>5 DEF Aside, Empty
  <2>7. Resemble(moved, prior[p].root)
    BY <1>1, <1>2, <2>3, <2>6 DEF HolderOK, DeletingOK, Deleting
  <2>8. moved = prior[p].root
    BY <2>3, <2>4, <2>7, SameTree
  <2>9. Aside(p)' /\ moved' = prior'[p].root /\ links' = Backups /\ outcome'[p] = "failed"
    BY <1>3, <2>1, <2>2, <2>8 DEF Aside
  <2> QED BY <1>1, <2>9 DEF MovingOK
<1>12. ReleaseOK(p)'
  BY <1>1, <1>2, <1>3 DEF HolderOK, ReleaseOK
<1> QED
  BY <1>2, <1>8, <1>9, <1>10, <1>11, <1>12, HolderStep DEF Judge, Intact, HolderOK, TypeOK

--------------------------------------------------------------------------------
(* Beginning and ending a command.  Whoever holds the lock is not disturbed *)
(* by a process that waits for it, gives up or dies.                        *)

LEMMA HolderKeeps ==
  ASSUME NEW q \in Procs, HolderOK(q), UNCHANGED <<root, moved, links>>,
         pc'[q] = pc[q], want'[q] = want[q], prior'[q] = prior[q],
         created'[q] = created[q], activated'[q] = activated[q], outcome'[q] = outcome[q]
  PROVE  HolderOK(q)'
<1>1. PriorOK(q)' /\ MakingOK(q)'
  BY DEF HolderOK, PriorOK, MakingOK, Disk, Untouched
<1>2. StagingOK(q)'
  BY DEF HolderOK, StagingOK, Accepted, Deactivated
<1>3. LinkingOK(q)'
  BY DEF HolderOK, LinkingOK, Published, Accepted, Activated, Deactivated
<1>4. MovingOK(q)'
  BY DEF HolderOK, MovingOK, Disk, Residues, Aside
<1>5. DeletingOK(q)'
  BY DEF HolderOK, DeletingOK, Deleting, Aside
<1>6. ReleaseOK(q)'
  BY DEF HolderOK, ReleaseOK, Untouched, Healthy, Residues
<1> QED BY <1>1, <1>2, <1>3, <1>4, <1>5, <1>6 DEF HolderOK

LEMMA DiskKeeps == DiskOK /\ UNCHANGED <<root, moved, links>> => DiskOK'
BY DEF DiskOK, TreesOK, CurrentIsWhole, NoInstallBesideResidue

(* A process that is no holder, and does not become one, acts.             *)
LEMMA OtherStep ==
  ASSUME IInv, NEW p \in Procs, p \notin holders', holders' \subseteq holders,
         UNCHANGED <<root, moved, links>>,
         \A q \in Procs \ {p} :
           /\ q \in holders' <=> q \in holders
           /\ pc'[q] = pc[q] /\ want'[q] = want[q] /\ prior'[q] = prior[q]
           /\ created'[q] = created[q] /\ activated'[q] = activated[q]
           /\ outcome'[q] = outcome[q],
         pc'[p] \in {"idle", "acquire"}, WaitingOK(p)', TypeOK'
  PROVE  IInv'
<1>1. LockOK'
  BY DEF IInv, LockOK
<1>2. DiskOK'
  BY DiskKeeps DEF IInv
<1>3. ASSUME NEW q \in Procs PROVE WaitingOK(q)'
  BY DEF IInv, WaitingOK
<1>4. ASSUME NEW q \in holders' PROVE HolderOK(q)'
  <2>1. q \in Procs \ {p} /\ HolderOK(q)
    BY DEF IInv, TypeOK
  <2> QED BY <2>1, HolderKeeps
<1> QED BY <1>1, <1>2, <1>3, <1>4 DEF IInv

LEMMA BeginInstallInv ==
  ASSUME IInv, NEW p \in Procs, NEW r \in Releases, BeginInstall(p, r) PROVE IInv'
<1>1. p \notin holders
  BY DEF BeginInstall, IInv, LockOK
<1>2. TypeOK'
  <2>1. pc' \in [Procs -> Places] /\ outcome' \in [Procs -> Outcomes]
    BY DEF BeginInstall, IInv, TypeOK, Places, Outcomes
  <2>2. /\ want' \in [Procs -> 0..NReleases] /\ activated' \in [Procs -> 0..3]
        /\ created' \in [Procs -> SUBSET {"root", "releases", "release"}]
    BY DEF BeginInstall, IInv, TypeOK
  <2>3. runs' \in 0..MaxRuns
    BY DEF BeginInstall, IInv, TypeOK
  <2> QED BY <2>1 DEF BeginInstall, IInv, TypeOK
<1>3. WaitingOK(p)' /\ pc'[p] \in {"idle", "acquire"}
  BY DEF BeginInstall, IInv, TypeOK, WaitingOK
<1> QED BY <1>1, <1>2, <1>3, OtherStep DEF BeginInstall, TypeOK

LEMMA BeginUninstallInv ==
  ASSUME IInv, NEW p \in Procs, BeginUninstall(p) PROVE IInv'
<1>1. p \notin holders
  BY DEF BeginUninstall, IInv, LockOK
<1>2. TypeOK'
  <2>1. pc' \in [Procs -> Places] /\ outcome' \in [Procs -> Outcomes]
    BY DEF BeginUninstall, IInv, TypeOK, Places, Outcomes
  <2>2. want' \in [Procs -> 0..NReleases] /\ runs' \in 0..MaxRuns
    BY DEF BeginUninstall, IInv, TypeOK
  <2> QED BY <2>1 DEF BeginUninstall, IInv, TypeOK
<1>3. WaitingOK(p)' /\ pc'[p] \in {"idle", "acquire"}
  BY DEF BeginUninstall, IInv, TypeOK, WaitingOK
<1> QED BY <1>1, <1>2, <1>3, OtherStep DEF BeginUninstall

LEMMA LockRefusedInv ==
  ASSUME IInv, NEW p \in Procs, LockRefused(p) PROVE IInv'
<1>1. p \notin holders
  BY DEF LockRefused, IInv, LockOK
<1>2. TypeOK'
  BY DEF LockRefused, IInv, TypeOK, Places, Outcomes
<1>3. WaitingOK(p)' /\ pc'[p] \in {"idle", "acquire"}
  BY DEF LockRefused, IInv, TypeOK, WaitingOK
<1> QED BY <1>1, <1>2, <1>3, OtherStep DEF LockRefused

LEMMA ReleaseInv ==
  ASSUME IInv, NEW p \in Procs, Release(p) PROVE IInv'
<1>1. TypeOK'
  BY DEF Release, IInv, TypeOK, Places, Lock!Leave
<1>2. WaitingOK(p)' /\ pc'[p] \in {"idle", "acquire"}
  BY DEF Release, IInv, TypeOK, WaitingOK
<1> QED BY <1>1, <1>2, OtherStep DEF Release, Lock!Leave

LEMMA DieInv ==
  ASSUME IInv, NEW p \in Procs, Die(p) PROVE IInv'
<1>1. TypeOK'
  BY DEF Die, IInv, TypeOK, Places, Outcomes
<1>2. WaitingOK(p)' /\ pc'[p] \in {"idle", "acquire"}
  BY DEF Die, IInv, TypeOK, WaitingOK
<1> QED BY <1>1, <1>2, OtherStep DEF Die

(* What a holder finds is what the last one left.                          *)
LEMMA AcquireInv ==
  ASSUME IInv, NEW p \in Procs, Acquire(p) PROVE IInv'
<1>1. PICK there \in {"confirm", "makeRoot"} :
        /\ pc[p] = "acquire" /\ pc' = [pc EXCEPT ![p] = there]
        /\ there = IF want[p] = 0 THEN "confirm" ELSE "makeRoot"
  BY DEF Acquire
<1>2. /\ holders = {} /\ holders' = {p} /\ prior' = [prior EXCEPT ![p] = Disk]
      /\ UNCHANGED <<want, created, activated, outcome, root, moved, links, runs>>
  BY DEF Acquire, Lock!Take
<1>3. TypeOK /\ DiskOK /\ WaitingOK(p)
  BY DEF IInv
<1>4. pc'[p] = there /\ prior'[p] = Disk
  BY <1>1, <1>2, <1>3 DEF TypeOK
<1>5. prior'[p].root = root /\ prior'[p].moved = moved /\ prior'[p].links = links
  BY <1>4 DEF Disk
<1>6. TypeOK'
  <2>1. Disk \in [root : Trees, moved : Trees, links : SUBSET (Launchers \cup Backups)]
    BY <1>3 DEF TypeOK, Disk
  <2>2. pc' \in [Procs -> Places]
    BY <1>1, <1>3 DEF TypeOK, Places
  <2> QED BY <1>2, <1>3, <2>1, <2>2 DEF TypeOK
<1>7. DiskOK'
  BY <1>2, <1>3, DiskKeeps
<1>8. LockOK'
  BY <1>1, <1>2 DEF IInv, LockOK, TypeOK
<1>9. \A q \in Procs : WaitingOK(q)'
  BY <1>1, <1>2 DEF IInv, WaitingOK
<1>10. HolderOK(p)'
  <2>1. PriorOK(p)'
    BY <1>3, <1>5 DEF PriorOK, DiskOK, TreesOK, CurrentIsWhole
  <2>2. (created[p] = {} /\ activated[p] = 0) \/ there = "confirm"
    BY <1>1, <1>3 DEF WaitingOK
  <2>3. want[p] \in Releases \/ there = "confirm"
    BY <1>1, <1>3 DEF TypeOK
  <2>4. MakingOK(p)'
    BY <1>2, <1>4, <2>2, <2>3 DEF MakingOK, Disk
  <2>5. StagingOK(p)' /\ LinkingOK(p)' /\ DeletingOK(p)'
    BY <1>4 DEF StagingOK, LinkingOK, DeletingOK
  <2>6. MovingOK(p)'
    BY <1>2, <1>4 DEF MovingOK, Disk
  <2>7. ReleaseOK(p)'
    BY <1>1, <1>2, <1>3 DEF ReleaseOK, WaitingOK
  <2> QED BY <2>1, <2>4, <2>5, <2>6, <2>7 DEF HolderOK
<1> QED BY <1>2, <1>6, <1>7, <1>8, <1>9, <1>10 DEF IInv

--------------------------------------------------------------------------------
(* Together.                                                               *)

LEMMA InitInv == Init => IInv
<1> SUFFICES ASSUME Init PROVE IInv
  OBVIOUS
<1>1. TypeOK
  <2>1. [root |-> NoTree, moved |-> NoTree, links |-> {}] \in
          [root : Trees, moved : Trees, links : SUBSET (Launchers \cup Backups)]
    BY EmptyTree
  <2>2. prior \in [Procs -> [root : Trees, moved : Trees, links : SUBSET (Launchers \cup Backups)]]
    BY <2>1 DEF Init
  <2> QED BY EmptyTree DEF Init, TypeOK, Places, Outcomes
<1>2. LockOK /\ DiskOK
  BY EmptyTree DEF Init, LockOK, DiskOK, TreesOK, CurrentIsWhole, NoInstallBesideResidue
<1>3. \A p \in Procs : WaitingOK(p)
  BY DEF Init, WaitingOK
<1> QED BY <1>1, <1>2, <1>3 DEF Init, IInv

LEMMA NextInv == IInv /\ [Next]_vars => IInv'
<1> SUFFICES ASSUME IInv, [Next]_vars PROVE IInv'
  OBVIOUS
<1>1. CASE UNCHANGED vars
  <2>1. \A q \in holders : HolderOK(q)'
    <3> SUFFICES ASSUME NEW q \in holders PROVE HolderOK(q)'
      OBVIOUS
    <3>1. q \in Procs /\ HolderOK(q)
      BY DEF IInv, TypeOK
    <3> QED BY <1>1, <3>1, HolderKeeps DEF vars
  <2>2. DiskOK'
    BY <1>1, DiskKeeps DEF IInv, vars
  <2>3. TypeOK' /\ LockOK' /\ (\A p \in Procs : WaitingOK(p)')
    BY <1>1 DEF IInv, vars, TypeOK, LockOK, WaitingOK
  <2> QED BY <1>1, <2>1, <2>2, <2>3 DEF IInv, vars
<1>2. ASSUME NEW p \in Procs, Command(p) PROVE IInv'
  BY <1>2, BeginInstallInv, BeginUninstallInv, AcquireInv, LockRefusedInv, ReleaseInv, DieInv DEF
       Command
<1>3. ASSUME NEW p \in Procs, Install(p) PROVE IInv'
  BY <1>3, MakeRootInv, MakeReleasesInv, ValidateInv, MakeStageInv, PublishInv, PrepareLinksInv,
       SwitchLinkInv, RestoreLinkInv, CleanLinksInv, DropStageInv, DropReleaseInv, DropPartInv,
       DropReleasesInv, DropRootInv DEF Install
<1>4. ASSUME NEW p \in Procs, Uninstall(p) PROVE IInv'
  BY <1>4, ConfirmInv, MoveTreeInv, MoveLauncherInv, MoveManagerInv, BackManagerInv,
       BackLauncherInv, BackTreeInv, DeleteReleaseInv, DeletePartInv, DeleteReleasesInv,
       DeleteCurrentInv, DeleteTreeInv, DeleteLauncherInv, DeleteManagerInv, JudgeInv DEF
       Uninstall
<1> QED BY <1>1, <1>2, <1>3, <1>4 DEF Next

(* The disk, the lock and what each holder knows of them always agree.     *)
THEOREM TransactionInvariance == Spec => []IInv
BY InitInv, NextInv, PTL DEF Spec

(* Every variable has its type.                                            *)
THEOREM TransactionTypes == Spec => []TypeOK
<1>1. IInv => TypeOK
  BY DEF IInv
<1> QED BY <1>1, TransactionInvariance, PTL

(* "current" leads to a whole release at every moment, whatever fails.     *)
THEOREM CurrentStaysWhole == Spec => []CurrentIsWhole
<1>1. IInv => CurrentIsWhole
  BY DEF IInv, DiskOK
<1> QED BY <1>1, TransactionInvariance, PTL

(* No installation is made while another lies moved aside.                 *)
THEOREM ResidueStaysAlone == Spec => []NoInstallBesideResidue
<1>1. IInv => NoInstallBesideResidue
  BY DEF IInv, DiskOK
<1> QED BY <1>1, TransactionInvariance, PTL

(* A command that ends with the error it met has changed nothing but empty *)
(* directories.                                                            *)
THEOREM FailuresAreUndone == Spec => []FailedChangesNothing
<1>1. ASSUME IInv, NEW p \in Procs, pc[p] = "release", outcome[p] = "failed"
      PROVE  /\ links = prior[p].links /\ moved = prior[p].moved
             /\ [root EXCEPT !.there = FALSE, !.dir = FALSE] =
                [prior[p].root EXCEPT !.there = FALSE, !.dir = FALSE]
  <2>1. Untouched(p)
    BY <1>1, HolderActs DEF HolderOK, ReleaseOK
  <2>2. root \in Trees /\ prior[p].root \in Trees
    BY <1>1 DEF IInv, TypeOK
  <2>3. [root EXCEPT !.there = FALSE, !.dir = FALSE] =
        [prior[p].root EXCEPT !.there = FALSE, !.dir = FALSE]
    BY <2>1, <2>2 DEF Untouched, Alike, Trees
  <2> QED BY <2>1, <2>3 DEF Untouched
<1>2. IInv => FailedChangesNothing
  BY <1>1 DEF FailedChangesNothing
<1> QED BY <1>2, TransactionInvariance, PTL

(* Success is told of a healthy installation that is no older than the one *)
(* before, or of a removal that left nothing.                              *)
THEOREM SuccessesAreComplete == Spec => []SuccessIsComplete
<1>1. ASSUME IInv, NEW p \in Procs, pc[p] = "release" PROVE ReleaseOK(p)
  BY <1>1, HolderActs DEF HolderOK
<1>2. IInv => SuccessIsComplete
  BY <1>1 DEF SuccessIsComplete, ReleaseOK
<1> QED BY <1>2, TransactionInvariance, PTL

(* Which steps can take the command away.                                  *)
LEMMA RunStays == UNCHANGED <<root, links>> /\ Runnable => Runnable'
BY DEF Runnable

LEMMA CurrentStays ==
  root'.current = root.current /\ UNCHANGED links /\ Runnable => Runnable'
BY DEF Runnable

LEMMA InstallStops ==
  ASSUME IInv, NEW p \in Procs, Install(p), Runnable, ~Runnable'
  PROVE  pc[p] = "restore" /\ prior[p].root.current = 0
<1>1. TypeOK
  BY DEF IInv
<1>2. SUFFICES ASSUME pc[p] # "restore" \/ prior[p].root.current # 0 PROVE FALSE
  OBVIOUS
<1>3. ASSUME root' = NoTree, root.current = 0 PROVE FALSE
  BY <1>3 DEF Runnable
<1>4. CASE MakeRoot(p) \/ MakeReleases(p) \/ Validate(p) \/ MakeStage(p)
  BY <1>1, <1>4, CurrentStays DEF MakeRoot, MakeReleases, Validate, MakeStage, TypeOK, Trees
<1>5. CASE Publish(p)
  BY <1>1, <1>5, CurrentStays DEF Publish, TypeOK, Trees
<1>6. CASE PrepareLinks(p) \/ CleanLinks(p)
  BY <1>1, <1>6, CurrentStays DEF PrepareLinks, CleanLinks, TypeOK, Trees
<1>7. CASE SwitchLink(p)
  <2>1. pc[p] = "switch"
    BY <1>7 DEF SwitchLink
  <2>2. want[p] # 0
    BY <2>1, HolderActs DEF HolderOK, MakingOK
  <2>3. root'.current \in {root.current, want[p]}
    BY <1>1, <1>7 DEF SwitchLink, TypeOK, Trees
  <2>4. links \subseteq links'
    BY <1>7 DEF SwitchLink
  <2> QED BY <2>2, <2>3, <2>4 DEF Runnable
<1>8. CASE RestoreLink(p)
  <2>1. pc[p] = "restore" /\ prior[p].root.current # 0
    BY <1>2, <1>8 DEF RestoreLink
  <2>2. "launcher" \in prior[p].links
    BY <2>1, HolderActs DEF HolderOK, LinkingOK, Published, Accepted
  <2>3. root'.current \in {root.current, prior[p].root.current}
    BY <1>1, <1>8 DEF RestoreLink, Restored, TypeOK, Trees
  <2>4. "launcher" \in links => "launcher" \in links'
    BY <1>8, <2>2 DEF RestoreLink, Restored
  <2> QED BY <2>1, <2>3, <2>4 DEF Runnable
<1>9. CASE DropStage(p) \/ DropRelease(p) \/ DropPart(p)
  BY <1>1, <1>9, CurrentStays DEF DropStage, DropRelease, DropPart, TypeOK, Trees
<1>10. CASE DropReleases(p) \/ DropRoot(p)
  BY <1>1, <1>3, <1>10, CurrentStays DEF DropReleases, DropRoot, TypeOK, Trees
<1> QED BY <1>4, <1>5, <1>6, <1>7, <1>8, <1>9, <1>10 DEF Install

LEMMA UninstallStops ==
  ASSUME IInv, NEW p \in Procs, Uninstall(p), Runnable, ~Runnable'
  PROVE  pc[p] = "moveTree"
<1>1. SUFFICES ASSUME pc[p] # "moveTree" PROVE FALSE
  OBVIOUS
<1>2. pc[p] \in {"moveLauncher", "moveManager"} => root.current = 0
  BY HolderActs, EmptyTree DEF HolderOK, MovingOK, Aside
<1>3. CASE MoveTree(p) \/ MoveLauncher(p) \/ MoveManager(p)
  BY <1>1, <1>2, <1>3 DEF MoveTree, MoveLauncher, MoveManager, MoveLink, Runnable
<1>4. CASE Confirm(p) \/ Judge(p) \/ DeleteRelease(p) \/ DeletePart(p)
  BY <1>4, RunStays DEF Confirm, Judge, DeleteRelease, DeletePart
<1>5. CASE BackManager(p) \/ BackLauncher(p)
  BY <1>5 DEF BackManager, BackLauncher, BackLink, Runnable
<1>6. CASE BackTree(p)
  <2>1. ~root.there => root.current = 0
    BY EmptyTree DEF IInv, DiskOK, TreesOK
  <2> QED BY <1>6, <2>1 DEF BackTree, Runnable
<1>7. CASE DeleteReleases(p) \/ DeleteCurrent(p) \/ DeleteTree(p) \/ DeleteLauncher(p)
  BY <1>7 DEF DeleteReleases, DeleteCurrent, DeleteTree, DeleteLauncher, Delete, Runnable
<1>8. CASE DeleteManager(p)
  BY <1>8 DEF DeleteManager, Runnable
<1> QED BY <1>3, <1>4, <1>5, <1>6, <1>7, <1>8 DEF Uninstall

(* Once there is a command to run, only an uninstall, or the undoing of a  *)
(* first install, takes it away.                                           *)
THEOREM OnlyAnUninstallStops == Spec => OnlyUninstallStops
<1>1. ASSUME IInv, [Next]_vars, Runnable, ~Runnable'
      PROVE  \E p \in holders : pc[p] = "moveTree" \/ (pc[p] = "restore" /\ prior[p].root.current = 0)
  <2>1. PICK p \in Procs : Command(p) \/ Install(p) \/ Uninstall(p)
    BY <1>1, RunStays DEF Next, vars
  <2>2. ~Command(p)
    BY <1>1, RunStays DEF Command, BeginInstall, BeginUninstall, Acquire, LockRefused, Release,
         Die
  <2>3. pc[p] = "moveTree" \/ (pc[p] = "restore" /\ prior[p].root.current = 0)
    BY <1>1, <2>1, <2>2, InstallStops, UninstallStops
  <2>4. p \in holders
    BY <1>1, <2>3, HolderActs
  <2> QED BY <2>3, <2>4
<1> QED BY <1>1, TransactionInvariance, PTL DEF Spec, OnlyUninstallStops

--------------------------------------------------------------------------------
(* The installation lock.  Only the process that made the lock directory,  *)
(* while it runs, and the one process in recovery change the lock.  A      *)
(* recovery is about a lock whose owner is dead, so the two are never      *)
(* about the same directory, and the recovery directory keeps recoveries   *)
(* apart.                                                                  *)

HIDE DEF At, Goto, Fail, own, other, procVars, diskVars, Releases, Launchers, Backups,
         Early, Staging, Linking, Ending, InstallPlaces


(* The parts of the invariant and the helpers of the actions.              *)
USE RunsAssumption
USE DEF Marks, Contents, Calls, Acquiring, Holding, Releasing, Recovering,
        Owning, Endings, Calling, GoOn, Quit, Throw
USE DEF LockTypeOK, OwnerKnowsLock, OneOwner, RecoveredIsDead, RecoveredIsThere,
        OwnershipNeverChanges, QuarantineIsDead, RecoveryIsAttended,
        RecoveringIsMarked, FirstAttempt, ErrorEnds, Answerable

--------------------------------------------------------------------------------
(* One lemma per action of the program.                                    *)

LEMMA InitHolds == LockInit => LockInv
<1> SUFFICES ASSUME LockInit PROVE LockInv
  OBVIOUS
<1>1. LockTypeOK
  <2>1. call \in [Runs -> Calls] /\ attempt \in [Runs -> 0..1]
    BY DEF LockInit
  <2>2. observed \in [Runs -> Contents] /\ ending \in [Runs -> Endings]
    BY DEF LockInit
  <2>3. quarantine \in [Runs -> Contents]
    BY DEF LockInit
  <2> QED BY <2>1, <2>2, <2>3 DEF LockInit
<1>2. OwnerKnowsLock /\ OneOwner /\ RecoveredIsDead /\ RecoveredIsThere
  BY DEF LockInit
<1>3. OwnershipNeverChanges /\ QuarantineIsDead /\ RecoveryIsAttended
  BY DEF LockInit
<1>4. RecoveringIsMarked /\ FirstAttempt /\ ErrorEnds /\ Answerable
  BY DEF LockInit
<1> QED BY <1>1, <1>2, <1>3, <1>4 DEF LockInv

LEMMA CheckRecoveryStep ==
  ASSUME LockInv, NEW p \in Runs, CheckRecovery(p) PROVE LockInv'
  BY DEF LockInv, CheckRecovery

LEMMA CheckQuarantinesStep ==
  ASSUME LockInv, NEW p \in Runs, CheckQuarantines(p) PROVE LockInv'
  BY DEF LockInv, CheckQuarantines

LEMMA MakeLockStep ==
  ASSUME LockInv, NEW p \in Runs, MakeLock(p) PROVE LockInv'
  BY DEF LockInv, MakeLock

LEMMA CreateOwnerStep ==
  ASSUME LockInv, NEW p \in Runs, CreateOwner(p) PROVE LockInv'
  BY DEF LockInv, CreateOwner

LEMMA WriteOwnerStep ==
  ASSUME LockInv, NEW p \in Runs, WriteOwner(p) PROVE LockInv'
  BY DEF LockInv, WriteOwner

LEMMA AbandonOwnerStep ==
  ASSUME LockInv, NEW p \in Runs, AbandonOwner(p) PROVE LockInv'
  BY DEF LockInv, AbandonOwner

LEMMA AbandonLockStep ==
  ASSUME LockInv, NEW p \in Runs, AbandonLock(p) PROVE LockInv'
  BY DEF LockInv, AbandonLock

LEMMA LookStep ==
  ASSUME LockInv, NEW p \in Runs, Look(p) PROVE LockInv'
  BY DEF LockInv, Look

(* Going on to recover, the process has seen the owner dead.               *)
LEMMA JudgeStep ==
  ASSUME LockInv, NEW p \in Runs, JudgeLock(p) PROVE LockInv'
<1>1. \/ \E how \in {"manual", "active"} : Quit(p, how)
      \/ observed[p] \in Runs \ alive /\ attempt[p] = 0 /\ GoOn(p, "recover")
  <2>1. CASE observed[p] \in Marks
    BY <2>1 DEF JudgeLock
  <2>2. CASE observed[p] \in Runs
    <3>1. PICK active \in ProcessActive(observed[p]) :
            \/ active /\ Quit(p, "active")
            \/ ~active /\ attempt[p] = 0 /\ GoOn(p, "recover")
            \/ ~active /\ attempt[p] > 0 /\ Quit(p, "manual")
      BY <2>2 DEF JudgeLock
    <3>2. observed[p] \in alive => active
      BY ONLY <3>1 DEF ProcessActive
    <3> QED BY ONLY <2>2, <3>1, <3>2 DEF GoOn, Quit
  <2> QED BY <2>1, <2>2 DEF LockInv
<1>2. call[p] = "judge" /\ UNCHANGED <<attempt, observed, alive, lock, recovery, quarantine>>
  BY DEF JudgeLock
<1>3. CASE \E how \in {"manual", "active"} : Quit(p, how)
  BY <1>2, <1>3 DEF LockInv
<1>4. CASE observed[p] \in Runs \ alive /\ attempt[p] = 0 /\ GoOn(p, "recover")
  BY <1>2, <1>4 DEF LockInv
<1> QED BY <1>1, <1>3, <1>4

(* Nobody else recovers: the recovery directory was not there.             *)
LEMMA MakeRecoveryStep ==
  ASSUME LockInv, NEW p \in Runs, MakeRecovery(p) PROVE LockInv'
<1>1. CASE recovery
  BY <1>1 DEF LockInv, MakeRecovery
<1>2. CASE ~recovery
  <2>1. \A q \in Runs : call[q] \notin Recovering
    BY <1>2 DEF LockInv
  <2>2. recovery' = TRUE /\ call[p] = "recover" /\ GoOn(p, "relook")
    BY <1>2 DEF MakeRecovery
  <2> QED BY <2>1, <2>2 DEF LockInv, MakeRecovery
<1> QED BY <1>1, <1>2

LEMMA RelookStep ==
  ASSUME LockInv, NEW p \in Runs, Relook(p) PROVE LockInv'
  BY DEF LockInv, Relook

LEMMA RejudgeStep ==
  ASSUME LockInv, NEW p \in Runs, Rejudge(p) PROVE LockInv'
  BY DEF LockInv, Rejudge, ProcessActive

LEMMA RenameLockStep ==
  ASSUME LockInv, NEW p \in Runs, RenameLock(p) PROVE LockInv'
  BY DEF LockInv, RenameLock

LEMMA VerifyQuarantineStep ==
  ASSUME LockInv, NEW p \in Runs, VerifyQuarantine(p) PROVE LockInv'
  BY DEF LockInv, VerifyQuarantine, ProcessActive

LEMMA UnlinkOldOwnerStep ==
  ASSUME LockInv, NEW p \in Runs, UnlinkOldOwner(p) PROVE LockInv'
  BY DEF LockInv, UnlinkOldOwner

LEMMA RemoveQuarantineStep ==
  ASSUME LockInv, NEW p \in Runs, RemoveQuarantine(p) PROVE LockInv'
  BY DEF LockInv, RemoveQuarantine

(* The process was the only one in recovery.                               *)
LEMMA EndRecoveryStep ==
  ASSUME LockInv, NEW p \in Runs, EndRecovery(p) PROVE LockInv'
<1>1. /\ p \in alive /\ call[p] = "endRecovery" /\ recovery' \in {FALSE, recovery}
      /\ UNCHANGED <<attempt, observed, alive, lock, quarantine>>
  BY DEF EndRecovery, LockInv
<1>2. \A q \in Runs : call[q] \in Recovering => q = p
  BY <1>1 DEF LockInv
<1>3. CASE recovery' = FALSE /\ GoOn(p, "residues") /\ ending[p] # "error"
  <2>1. LockTypeOK'
    BY <1>1, <1>3 DEF LockInv
  <2>2. OwnerKnowsLock' /\ OneOwner' /\ OwnershipNeverChanges' /\ QuarantineIsDead'
    BY <1>1, <1>3 DEF LockInv
  <2>3. RecoveredIsDead' /\ RecoveredIsThere' /\ RecoveryIsAttended' /\ RecoveringIsMarked'
    BY <1>1, <1>2, <1>3 DEF LockInv
  <2>4. FirstAttempt' /\ ErrorEnds' /\ Answerable'
    BY <1>1, <1>3 DEF LockInv
  <2> QED BY <2>1, <2>2, <2>3, <2>4 DEF LockInv
<1>4. CASE recovery' = FALSE /\ Quit(p, "recovering") /\ ending[p] # "error"
  <2>1. LockTypeOK'
    BY <1>1, <1>4 DEF LockInv
  <2>2. OwnerKnowsLock' /\ OneOwner' /\ OwnershipNeverChanges' /\ QuarantineIsDead'
    BY <1>1, <1>4 DEF LockInv
  <2>3. RecoveredIsDead' /\ RecoveredIsThere' /\ RecoveryIsAttended' /\ RecoveringIsMarked'
    BY <1>1, <1>2, <1>4 DEF LockInv
  <2>4. FirstAttempt' /\ ErrorEnds' /\ Answerable'
    BY <1>1, <1>4 DEF LockInv
  <2> QED BY <2>1, <2>2, <2>3, <2>4 DEF LockInv
<1>5. CASE Quit(p, "error")
  <2>1. LockTypeOK'
    BY <1>1, <1>5 DEF LockInv
  <2>2. OwnerKnowsLock' /\ OneOwner' /\ OwnershipNeverChanges' /\ QuarantineIsDead'
    BY <1>1, <1>5 DEF LockInv
  <2>3. RecoveredIsDead' /\ RecoveredIsThere' /\ RecoveryIsAttended' /\ RecoveringIsMarked'
    BY <1>1, <1>2, <1>5 DEF LockInv
  <2>4. FirstAttempt' /\ ErrorEnds' /\ Answerable'
    BY <1>1, <1>5 DEF LockInv
  <2> QED BY <2>1, <2>2, <2>3, <2>4 DEF LockInv
<1> QED BY <1>3, <1>4, <1>5 DEF EndRecovery, Continue

LEMMA FinishWorkStep ==
  ASSUME LockInv, NEW p \in Runs, FinishWork(p) PROVE LockInv'
  BY DEF LockInv, FinishWork

LEMMA CheckOwnershipStep ==
  ASSUME LockInv, NEW p \in Runs, CheckOwnership(p) PROVE LockInv'
  BY DEF LockInv, CheckOwnership

LEMMA UnlinkOwnerStep ==
  ASSUME LockInv, NEW p \in Runs, UnlinkOwner(p) PROVE LockInv'
  BY DEF LockInv, UnlinkOwner

LEMMA RemoveLockStep ==
  ASSUME LockInv, NEW p \in Runs, RemoveLock(p) PROVE LockInv'
  BY DEF LockInv, RemoveLock

LEMMA CrashStep ==
  ASSUME LockInv, NEW p \in Runs, Crash(p) PROVE LockInv'
  BY DEF LockInv, Crash

LEMMA ExitStep ==
  ASSUME LockInv, NEW p \in Runs, Exit(p) PROVE LockInv'
  BY DEF LockInv, Exit

--------------------------------------------------------------------------------
LEMMA StutterStep == LockInv /\ UNCHANGED lockVars => LockInv'
  BY DEF LockInv, lockVars

LEMMA NextStep == LockInv /\ LockNext => LockInv'
<1> SUFFICES ASSUME LockInv, NEW p \in Runs,
                    AcquireLock(p) \/ RecoverStale(p) \/ ReleaseLock(p) \/ Crash(p) \/ Exit(p)
             PROVE LockInv'
  BY DEF LockNext
<1>1. CASE AcquireLock(p)
  BY <1>1, CheckRecoveryStep, CheckQuarantinesStep, MakeLockStep, CreateOwnerStep,
     WriteOwnerStep, AbandonOwnerStep, AbandonLockStep, LookStep, JudgeStep
     DEF AcquireLock
<1>2. CASE RecoverStale(p)
  BY <1>2, MakeRecoveryStep, RelookStep, RejudgeStep, RenameLockStep,
     VerifyQuarantineStep, UnlinkOldOwnerStep, RemoveQuarantineStep, EndRecoveryStep
     DEF RecoverStale
<1>3. CASE ReleaseLock(p)
  BY <1>3, FinishWorkStep, CheckOwnershipStep, UnlinkOwnerStep, RemoveLockStep
     DEF ReleaseLock
<1> QED BY <1>1, <1>2, <1>3, CrashStep, ExitStep

(* Every reachable state of the lock satisfies the inductive invariant.    *)
THEOREM LockInvariance == LockSpec => []LockInv
  BY InitHolds, NextStep, StutterStep, PTL DEF LockSpec

(* Every variable of the lock stays in its range.                          *)
THEOREM LockTypes == LockSpec => []LockTypeOK
<1>1. LockInv => LockTypeOK
  BY DEF LockInv
<1> QED BY <1>1, LockInvariance, PTL

(* acquireInstallLock gives the lock to one running process at a time, for *)
(* every number of processes, deaths and recoveries.                       *)
THEOREM LockExcludes == LockSpec => []MutualExclusion
<1>1. LockInv => MutualExclusion
  BY DEF LockInv, MutualExclusion, Holders
<1> QED BY <1>1, LockInvariance, PTL

(* release always finds the lock of its own process.                       *)
THEOREM LockIsKept == LockSpec => []OwnershipNeverChanges
<1>1. LockInv => OwnershipNeverChanges
  BY DEF LockInv
<1> QED BY <1>1, LockInvariance, PTL

(* recoverStale quarantines only what a dead process left.                 *)
THEOREM QuarantineHoldsTheDead == LockSpec => []QuarantineIsDead
<1>1. LockInv => QuarantineIsDead
  BY DEF LockInv
<1> QED BY <1>1, LockInvariance, PTL

(* The recovery directory is left over by nobody but a process that died   *)
(* or failed, and never shared.                                            *)
THEOREM RecoveriesAreAttended == LockSpec => []RecoveryIsAttended
<1>1. LockInv => RecoveryIsAttended
  BY DEF LockInv
<1> QED BY <1>1, LockInvariance, PTL

(* What stands in the way of the next install is the work of a death at    *)
(* that very place or of a file system error.                              *)
THEOREM LeavesNothingBehind == LockSpec => []NothingLeftBehind
<1>1. LockInv => NothingLeftBehind
  BY DEF LockInv, NothingLeftBehind
<1> QED BY <1>1, LockInvariance, PTL

--------------------------------------------------------------------------------
(* The refinement.                                                         *)

(* A step of one process makes or ends no other holder.                    *)
LEMMA OthersHold ==
  ASSUME LockInv, NEW p \in Runs,
         AcquireLock(p) \/ RecoverStale(p) \/ ReleaseLock(p) \/ Crash(p) \/ Exit(p)
  PROVE  Holders' \ {p} = Holders \ {p}
<1>1. CASE AcquireLock(p)
  <2>1. CASE CheckRecovery(p) \/ CheckQuarantines(p) \/ MakeLock(p) \/ CreateOwner(p)
    BY <2>1 DEF LockInv, Holders, CheckRecovery, CheckQuarantines, MakeLock, CreateOwner
  <2>2. CASE WriteOwner(p) \/ AbandonOwner(p) \/ AbandonLock(p) \/ Look(p)
    BY <2>2 DEF LockInv, Holders, WriteOwner, AbandonOwner, AbandonLock, Look
  <2>3. CASE JudgeLock(p)
    <3>1. /\ UNCHANGED alive
          /\ \E there \in Calls : call' = [call EXCEPT ![p] = there]
      BY <2>3 DEF JudgeLock
    <3> QED BY <3>1 DEF LockInv, Holders
  <2> QED BY <1>1, <2>1, <2>2, <2>3 DEF AcquireLock
<1>2. CASE RecoverStale(p)
  <2>1. /\ UNCHANGED alive
        /\ \E there \in Calls : call' = [call EXCEPT ![p] = there]
    <3>1. CASE MakeRecovery(p) \/ Relook(p) \/ Rejudge(p) \/ RenameLock(p)
      BY <3>1 DEF MakeRecovery, Relook, Rejudge, RenameLock
    <3>2. CASE VerifyQuarantine(p) \/ UnlinkOldOwner(p) \/ RemoveQuarantine(p)
      BY <3>2 DEF VerifyQuarantine, UnlinkOldOwner, RemoveQuarantine
    <3>3. CASE EndRecovery(p)
      BY <3>3 DEF EndRecovery, Continue
    <3> QED BY <1>2, <3>1, <3>2, <3>3 DEF RecoverStale
  <2> QED BY <2>1 DEF LockInv, Holders
<1>3. CASE ReleaseLock(p)
  BY <1>3 DEF LockInv, Holders, ReleaseLock, FinishWork, CheckOwnership, UnlinkOwner, RemoveLock
<1>4. CASE Crash(p) \/ Exit(p)
  BY <1>4 DEF LockInv, Holders, Crash, Exit
<1> QED BY <1>1, <1>2, <1>3, <1>4

LEMMA ExcludesLemma == LockInv => MutualExclusion
  BY DEF LockInv, MutualExclusion, Holders

(* Every step takes the lock, leaves it, or shows nothing.                 *)
LEMMA LockStep == LockInv /\ LockInv' /\ [LockNext]_lockVars => [Promise!Next]_Holders
<1> SUFFICES ASSUME LockInv, LockInv', [LockNext]_lockVars, Holders' # Holders
             PROVE  Promise!Next
  OBVIOUS
<1>1. PICK p \in Runs :
        AcquireLock(p) \/ RecoverStale(p) \/ ReleaseLock(p) \/ Crash(p) \/ Exit(p)
  BY DEF LockNext, lockVars, Holders
<1>2. Holders' \ {p} = Holders \ {p}
  BY <1>1, OthersHold
<1>3. MutualExclusion /\ MutualExclusion'
  BY ExcludesLemma, PTL
<1>4. \A q, r \in Holders : q = r
  BY <1>3 DEF MutualExclusion
<1>5. \A q, r \in Holders' : q = r
  BY <1>3 DEF MutualExclusion
<1>6. Holders \ {p} = {}
  <2> SUFFICES ASSUME NEW q \in Holders \ {p} PROVE Holders' = Holders
    OBVIOUS
  <2>1. q \in Holders' /\ q # p
    BY <1>2
  <2>2. Holders = {q} /\ Holders' = {q}
    BY ONLY <2>1, <1>4, <1>5, q \in Holders \ {p}
  <2> QED BY <2>2
<1>7. (Holders = {} /\ Holders' = {p}) \/ (Holders = {p} /\ Holders' = {})
  BY ONLY <1>2, <1>6, Holders' # Holders
<1> QED BY <1>7 DEF Promise!Next, Promise!Take, Promise!Leave

(* install/lock.mjs is the lock that the transactions rely on: the         *)
(* detailed lock, with deaths and recoveries, implements the abstract one. *)
THEOREM LockImplements == LockSpec => ImplementsLock
<1>1. LockInit => Promise!Init
  BY DEF LockInit, Promise!Init, Holders
<1> QED BY <1>1, LockInvariance, LockStep, PTL DEF LockSpec, ImplementsLock, Promise!Spec
================================================================================
