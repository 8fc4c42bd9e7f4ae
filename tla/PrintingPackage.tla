----------------------------- MODULE PrintingPackage -----------------------------
(***************************************************************************)
(* The package of the printing setup, from the staged files to Apple       *)
(* Installer: the terminal builds it with the system's tools and inspects  *)
(* what they made (libexec/printing_setup/package.mjs,                     *)
(* printing_policy/package_validation.mjs), embeds it in the reviewer app  *)
(* (app_bundle.mjs) and waits for it; the app (reviewer.js) shows the      *)
(* review and opens Installer.  Tools fail, or make something else than    *)
(* was asked; other programs may change the package between any two steps; *)
(* the app and the terminal may be killed.                                 *)
(*                                                                         *)
(* A package is known by the aspects in which it differs from the contract *)
(* (package_contract.mjs) and by a number that stands for its bytes.       *)
(***************************************************************************)
EXTENDS Naturals, FiniteSets

CONSTANTS
  None,
  MaxChanges    \* bound: changes of packages by other programs

ASSUME BoundAssumption == MaxChanges \in Nat

FromBom     == {"bom"}
FromArchive == {"archive", "metadata", "artifacts"}
FromFlatten == {"listing", "members", "info", "signature"}
Aspects     == FromBom \cup FromArchive \cup FromFlatten
Expanded    == {"members", "info", "bom", "archive", "metadata", "artifacts"}

(* One tool, or one change, spoils at most one aspect.                     *)
Spoiled(aspects) == {{}} \cup {{aspect} : aspect \in aspects}
Contents == [wrong : SUBSET Aspects, bytes : Nat]
Files    == [content : Contents, stat : Nat]

ASSUME NoneAssumption == None \notin Contents \cup Files

VARIABLES
  terminal,     \* where the setup command is
  staged,       \* what is wrong with the parts built so far
  package,      \* the flattened package and what stat tells of it
  first,        \* the snapshot before the inspection
  expanded,     \* the expanded copy
  info,         \* the package as it was found right: bytes and hash
  embedded,     \* the package in the reviewer app
  sealed,       \* the package the app's signature covers
  app,          \* where the reviewer app is
  result,       \* the result file
  looked,       \* history: the user was shown the review
  checked,      \* history: the embedded package when its hash was compared
  installer,    \* Apple Installer
  seen,         \* history: every content there has been
  changes

build == <<terminal, staged, package, first, expanded, info>>
review == <<sealed, app, result, looked, checked, installer>>
vars  == <<build, embedded, review, seen, changes>>

Steps == {"bom", "archive", "flatten", "snapshot", "listing", "expand", "inspect",
          "signature", "again", "embed", "compare", "seal", "launch", "waiting",
          "closed", "cancelled", "failed", "killed"}
Over  == {"closed", "cancelled", "failed", "killed"}

Init ==
  /\ terminal = "bom" /\ staged = {} /\ package = None /\ first = None
  /\ expanded = None /\ info = None /\ embedded = None /\ sealed = None
  /\ app = "no" /\ result = "none" /\ looked = FALSE /\ checked = None
  /\ installer = "no" /\ seen = {} /\ changes = 0

At(step)  == terminal = step
Goto(step) == terminal' = step

--------------------------------------------------------------------------------
(* Building.  The workspace is empty and private; the payload is staged    *)
(* and the sudoers files are checked.                                      *)

BuildBom ==
  /\ At("bom")
  /\ \E wrong \in Spoiled(FromBom) :
       /\ staged' = wrong
       /\ Goto(IF "bom" \in wrong THEN "failed" ELSE "archive")
  /\ UNCHANGED <<package, first, expanded, info, embedded, review, seen, changes>>

BuildArchive ==
  /\ At("archive")
  /\ \E wrong \in Spoiled(FromArchive) : staged' = staged \cup wrong
  /\ Goto("flatten")
  /\ UNCHANGED <<package, first, expanded, info, embedded, review, seen, changes>>

Flatten ==
  /\ At("flatten")
  /\ \E wrong \in Spoiled(FromFlatten) :
       LET made == [wrong |-> staged \cup wrong, bytes |-> 0]
       IN package' = [content |-> made, stat |-> 0] /\ seen' = {made}
  /\ Goto("snapshot")
  /\ UNCHANGED <<staged, first, expanded, info, embedded, review, changes>>

--------------------------------------------------------------------------------
(* The inspection.  Each tool opens the package anew.                      *)

Snapshot ==
  /\ At("snapshot")
  /\ first' = package /\ Goto("listing")
  /\ UNCHANGED <<staged, package, expanded, info, embedded, review, seen, changes>>

Requires(aspects, content, step) ==
  Goto(IF aspects \cap content.wrong = {} THEN step ELSE "failed")

ListPayload ==
  /\ At("listing") /\ Requires({"listing"}, package.content, "expand")
  /\ UNCHANGED <<staged, package, first, expanded, info, embedded, review, seen, changes>>

Expand ==
  /\ At("expand")
  /\ expanded' = package.content /\ Goto("inspect")
  /\ UNCHANGED <<staged, package, first, info, embedded, review, seen, changes>>

(* The members, PackageInfo, the bill of materials, the archive's listing  *)
(* and metadata, and the files extracted from it.                          *)
Inspect ==
  /\ At("inspect") /\ Requires(Expanded, expanded, "signature")
  /\ UNCHANGED <<staged, package, first, expanded, info, embedded, review, seen, changes>>

CheckSignature ==
  /\ At("signature") /\ Requires({"signature"}, package.content, "again")
  /\ UNCHANGED <<staged, package, first, expanded, info, embedded, review, seen, changes>>

\* fault: only the bytes are compared
SameSnapshot_Bytes == package.content = first.content

SameSnapshot == package = first

SnapshotAgain ==
  /\ At("again")
  /\ IF SameSnapshot THEN info' = package.content /\ Goto("embed")
                     ELSE Goto("failed") /\ UNCHANGED info
  /\ UNCHANGED <<staged, package, first, expanded, embedded, review, seen, changes>>

--------------------------------------------------------------------------------
(* The reviewer app: the bytes are those of the snapshot, not of the file. *)

Embed ==
  /\ At("embed")
  /\ embedded' = info /\ Goto("compare")
  /\ UNCHANGED <<staged, package, first, expanded, info, review, seen, changes>>

CompareEmbedded ==
  /\ At("compare") /\ Goto(IF embedded = info THEN "seal" ELSE "failed")
  /\ UNCHANGED <<staged, package, first, expanded, info, embedded, review, seen, changes>>

(* The review is written, the result is "pending" and the app is signed.   *)
Seal ==
  /\ At("seal") /\ Goto("launch")
  /\ result' = "pending" /\ sealed' = embedded
  /\ UNCHANGED <<staged, package, first, expanded, info, embedded, app, looked, checked,
                 installer, seen, changes>>

(* The signature is verified once more, and the app is opened.             *)
Launch ==
  /\ At("launch")
  /\ IF embedded = sealed THEN Goto("waiting") /\ app' = "asked"
                                 ELSE Goto("failed") /\ UNCHANGED app
  /\ UNCHANGED <<staged, package, first, expanded, info, embedded, sealed, result, looked,
                 checked, installer, seen, changes>>

(* Any tool may fail, and end the setup.                                   *)
ToolFails ==
  /\ terminal \notin Over \cup {"waiting"} /\ Goto("failed")
  /\ UNCHANGED <<staged, package, first, expanded, info, embedded, review, seen, changes>>

--------------------------------------------------------------------------------
(* The app.  The result file is in the workspace, which is gone when the   *)
(* terminal has ended by itself.                                           *)

Rest == <<build, embedded, sealed, seen, changes>>

AppEnds(outcome) == app' = "over" /\ result' = outcome

Cancel ==
  /\ app \in {"asked", "ready"} /\ AppEnds("cancelled")
  /\ UNCHANGED <<Rest, looked, checked, installer>>

(* The first review, or another.                                           *)
ShowReview ==
  /\ app \in {"asked", "ready"}
  /\ \/ app' = "ready" /\ looked' = TRUE /\ UNCHANGED result
     \/ AppEnds("cancelled") /\ UNCHANGED looked
  /\ UNCHANGED <<Rest, checked, installer>>

\* fault: the package is opened without comparing its hash
Verify_Not ==
  /\ app = "ready"
  /\ app' = "checked" /\ checked' = embedded /\ UNCHANGED result
  /\ UNCHANGED <<Rest, looked, installer>>

(* "Continue to Apple Installer".  The hash the package is compared with   *)
(* is a resource of the app too: it is that of the inspected package as    *)
(* long as Change replaces packages and leaves the rest of the app alone.  *)
(* The comparison itself may fail.                                         *)
Verify ==
  /\ app = "ready"
  /\ \/ embedded = info /\ app' = "checked" /\ checked' = embedded /\ UNCHANGED result
     \/ AppEnds("failed") /\ UNCHANGED checked
  /\ UNCHANGED <<Rest, looked, installer>>

OpenInstaller ==
  /\ app = "checked"
  /\ \/ app' = "opened" /\ result' = "installer-opened" /\ installer' = "open"
     \/ AppEnds("failed") /\ UNCHANGED installer
  /\ UNCHANGED <<Rest, looked, checked>>

InstallerCloses ==
  /\ installer = "open" /\ installer' = "closed"
  /\ UNCHANGED <<Rest, app, result, looked, checked>>

(* "installer-closed" is written, and the user told; an error, even of the *)
(* last alert, makes it "failed".                                          *)
AfterInstaller ==
  /\ app = "opened" /\ installer = "closed"
  /\ AppEnds("installer-closed") \/ AppEnds("failed")
  /\ UNCHANGED <<Rest, looked, checked, installer>>

\* fault: a failure of Installer's opening is taken for a cancelled setup
OpeningFails_Cancelled ==
  /\ app = "opened" /\ AppEnds("cancelled")
  /\ UNCHANGED <<Rest, looked, checked, installer>>

(* The call that opened Installer reports an error, or the app is killed.  *)
OpeningFails ==
  /\ app = "opened" /\ AppEnds("failed")
  /\ UNCHANGED <<Rest, looked, checked, installer>>

AppKilled ==
  /\ app \notin {"no", "over"} /\ app' = "over"
  /\ UNCHANGED <<Rest, result, looked, checked, installer>>

--------------------------------------------------------------------------------
(* The terminal again: only a final result counts.                         *)
ReadResult ==
  /\ At("waiting") /\ app = "over"
  /\ Goto(CASE result = "installer-closed" -> "closed"
            [] result = "cancelled" -> "cancelled"
            [] OTHER -> "failed")
  /\ UNCHANGED <<staged, package, first, expanded, info, embedded, review, seen, changes>>

Killed ==
  /\ terminal \notin Over /\ Goto("killed")
  /\ UNCHANGED <<staged, package, first, expanded, info, embedded, review, seen, changes>>

(* Another program replaces a package, by anything or by what was there;   *)
(* the app's other resources, its script and the expected hash among them, *)
(* stay as they were sealed.                                               *)
Change ==
  /\ changes < MaxChanges /\ changes' = changes + 1
  /\ \E content \in seen \cup {[wrong |-> wrong, bytes |-> changes'] : wrong \in Spoiled(Aspects)} :
       /\ seen' = seen \cup {content}
       /\ \/ /\ package # None /\ package' = [content |-> content, stat |-> changes']
             /\ UNCHANGED embedded
          \/ embedded # None /\ embedded' = content /\ UNCHANGED package
  /\ UNCHANGED <<terminal, staged, first, expanded, info, review>>

Build    == BuildBom \/ BuildArchive \/ Flatten
Validate == Snapshot \/ ListPayload \/ Expand \/ Inspect \/ CheckSignature \/ SnapshotAgain
Review   == Embed \/ CompareEmbedded \/ Seal \/ Launch \/ ReadResult
App      == \/ Cancel \/ ShowReview \/ Verify \/ OpenInstaller \/ AfterInstaller
            \/ OpeningFails \/ AppKilled
Next     == Build \/ Validate \/ Review \/ ToolFails \/ App \/ InstallerCloses \/ Killed \/ Change
Spec     == Init /\ [][Next]_vars

--------------------------------------------------------------------------------
(* Every variable has its type; the app runs only after its launch.        *)
TypeOK ==
  /\ terminal \in Steps /\ staged \subseteq Aspects
  /\ package \in Files \cup {None} /\ first \in Files \cup {None}
  /\ {expanded, info, embedded, sealed, checked} \subseteq Contents \cup {None}
  /\ app \in {"no", "asked", "ready", "checked", "opened", "over"}
  /\ result \in {"none", "pending", "cancelled", "failed", "installer-opened", "installer-closed"}
  /\ looked \in BOOLEAN /\ installer \in {"no", "open", "closed"}
  /\ seen \subseteq Contents /\ changes \in 0..MaxChanges
  /\ app # "no" => terminal \in {"waiting"} \cup Over

(* A package that passed the inspection differs from the contract in no    *)
(* aspect, although every tool opened the file anew and it may have been   *)
(* another file, or the same again, between two of them.                   *)
PassedIsRight == info # None => info.wrong = {}

(* Installer is opened only after the review was shown, for a package that *)
(* was, when last looked at, the one that passed.                          *)
OpenedWasReviewed == installer # "no" => looked /\ checked = info /\ checked.wrong = {}

(* However the app ends, "Setup cancelled: no system change was requested" *)
(* is only said when Installer was never opened (setup_workflow.mjs:82),   *)
(* and the audit of what was installed does not begin while it is open.    *)
OutcomeIsTrue ==
  /\ terminal = "cancelled" => installer = "no"
  /\ terminal = "closed" => installer = "closed"

--------------------------------------------------------------------------------
(* The inductive invariant.  A package that is replaced gets a stat that   *)
(* was never seen, so while it equals the first snapshot it has not been   *)
(* replaced since, and what the tools found of it holds of the snapshot.   *)
StampsOK ==
  /\ package # None => package.stat <= changes
  /\ first # None => /\ package # None /\ first.stat <= package.stat
                     /\ first.stat = package.stat => first = package

Inspecting == {"listing", "expand", "inspect", "signature", "again"}

InspectionOK ==
  /\ terminal \in {"bom", "archive", "flatten"} => package = None
  /\ terminal \in {"snapshot"} \cup Inspecting => package # None
  /\ terminal \in Inspecting => first # None
  /\ package = first /\ package # None =>
       /\ terminal \in Inspecting \ {"listing"} => "listing" \notin package.content.wrong
       /\ terminal = "inspect" => expanded = package.content
       /\ terminal \in {"signature", "again"} => Expanded \cap package.content.wrong = {}
       /\ terminal = "again" => "signature" \notin package.content.wrong

ReviewOK ==
  /\ terminal \in {"embed", "compare", "seal", "launch", "waiting"} \/ app # "no" => info # None
  /\ app \in {"ready", "checked", "opened"} => looked
  /\ app \in {"checked", "opened"} => checked = info
  /\ installer # "no" => app \in {"opened", "over"} /\ looked /\ checked = info

ResultOK ==
  /\ result = "cancelled" \/ terminal = "cancelled" => app = "over" /\ installer = "no"
  /\ result = "installer-closed" => app = "over" /\ installer = "closed"

IInv == TypeOK /\ PassedIsRight /\ StampsOK /\ InspectionOK /\ ReviewOK /\ ResultOK /\ OutcomeIsTrue
================================================================================
