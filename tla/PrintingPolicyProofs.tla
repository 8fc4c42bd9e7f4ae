-------------------------- MODULE PrintingPolicyProofs --------------------------
(***************************************************************************)
(* What setup and removal of the printing policy may claim, proved for any *)
(* number of processes, commands and edits.                                *)
(***************************************************************************)
EXTENDS PrintingPolicy, TLAPS

--------------------------------------------------------------------------------
(* The invariant.                                                          *)

(* What a process does fits the command it runs, and what it reports is    *)
(* what it has looked at.                                                  *)
Busy(p) == pc[p] # "idle"

PhaseOK(p) ==
  /\ ~Busy(p) => policy[p] = None /\ written[p] = {} /\ todo[p] = {} /\ task[p] = "setup"
  /\ Busy(p) /\ task[p] = "setup"  => policy[p] # None
  /\ task[p] = "remove" => policy[p] = None /\ written[p] = {} /\ pc[p] \notin {"review", "installer"}
  /\ pc[p] = "execute"  => task[p] = "remove"
  /\ pc[p] = "before" => todo[p] = {}
  /\ pc[p] \in {"before", "review"} => written[p] = {}
  /\ pc[p] \in {"review", "installer", "execute"} => look[p] = 1
  /\ look[p] <= 3 => ~report[p].listed
  /\ ~report[p].listed => report[p].grants = {}

PhasesOK == \A p \in Procs : PhaseOK(p)

(* What a process verifies has not been the case unless it says so.        *)
HeldOK ==
  \A p \in Procs : /\ held[p] => pc[p] = "after"
                   /\ pc[p] = "after" /\ ~held[p] => ~Verifying(p)

(* Commands are counted, and a setup has the number of its command, which  *)
(* no policy of another has; nor has any that of a removal.                *)
Known == {file[a] : a \in Artifacts} \cup {receipt}
         \cup {policy[q] : q \in Procs} \cup {report[q].receipt : q \in Procs}
Unused(n) == \A c \in Known : c \in Policies => c.build # n
Removing(p) == Busy(p) /\ task[p] = "remove"

BuildsOK ==
  /\ \A c \in Known : c \in Policies => c.build <= runs
  /\ \A b, c \in Known : b \in Policies /\ c \in Policies /\ b.build = c.build => b = c
  /\ \A p, q \in Procs : policy[p] # None /\ policy[p] = policy[q] => p = q

NumbersOK ==
  \A p, q \in Procs : Removing(p) /\ Removing(q) =>
    \E m, n \in 1..runs : Unused(m) /\ Unused(n) /\ (p # q => m # n)

CountOK ==
  /\ \A p \in Procs : Busy(p) => runs >= 1
  /\ \A p, q \in Procs : Busy(p) /\ Busy(q) => p = q \/ (runs >= 2 /\ ~inTurn)
  /\ \A p, q, s \in Procs : Busy(p) /\ Busy(q) /\ Busy(s) => p = q \/ q = s \/ p = s \/ runs >= 3

(* Only its own command writes a policy.  In turn, no one else writes any, *)
(* and what it has written is what an administrator left of it.            *)
Others == {None, Foreign} \cup Edited

WrittenOK ==
  \A p \in Procs :
    /\ \A a \in Artifacts : policy[p] # None /\ file[a] = policy[p] => a \in written[p]
    /\ policy[p] # None /\ receipt = policy[p] => "receipt" \in written[p]
    /\ \A q \in Procs : policy[p] # None /\ report[q].receipt = policy[p] => "receipt" \in written[p]
    /\ "receipt" \in written[p] => Artifacts \subseteq written[p]
    /\ inTurn => \A a \in written[p] \cap Artifacts :
                   file[a] \in {policy[p]} \cup (IF edits = 0 THEN {} ELSE Others)

(* The administrator adds no rule with a restriction, and edits nothing    *)
(* when commands overlap.  No manifest is a historical or an edited one.   *)
EditedOK ==
  /\ \A g \in elsewhere : g.command \in {"other", "broad"}
  /\ edits = 0 => /\ elsewhere = {} /\ directory # "unsafe"
                  /\ \A a \in Artifacts : file[a] # Foreign /\ file[a] \notin Edited
  /\ ~inTurn => edits = 0

ManifestOK ==
  /\ file["manifest"].is \notin {"legacy", "edited"}
  /\ \A p \in Procs : report[p].file["manifest"].is \notin {"legacy", "edited"}

--------------------------------------------------------------------------------
(* Setup.                                                                  *)

Configured == {"manifest", "profile"}
Ruled      == {"sudoers", "tombstone"}

(* The receipt of its package was there when it looked, or is there now.   *)
Signed(p) == receipt = policy[p] \/ (look[p] > 4 /\ report[p].receipt = policy[p])

InPlace(p) == \A a \in Configured : file[a] = policy[p]
InForce(p) == Permitted(policy[p].account) = Group({"live", "lpd"}, policy[p].host)

(* A look has seen that something is not of the policy.                    *)
SeenAmiss(p) ==
  \/ \E a \in Configured : report[p].file[a] # policy[p]
  \/ /\ look[p] > 3
     /\ \/ ~report[p].listed \/ report[p].by # policy[p].account
        \/ report[p].grants # Group({"live", "lpd"}, policy[p].host)

SetupOK ==
  \A p \in Procs : pc[p] = "after" /\ task[p] = "setup" /\ Signed(p) =>
    /\ "receipt" \in written[p]
    /\ inTurn => /\ receipt = policy[p]
                 /\ look[p] > 1 => \A a \in Configured :
                      report[p].file[a] \in {policy[p], Unread} \cup Others
    /\ ~held[p] /\ inTurn /\ look[p] > 1 /\ edits <= 2 =>
         \/ SeenAmiss(p)
         \/ look[p] <= 3 /\ ~InForce(p) /\ (edits = 2 \/ InPlace(p))
    /\ ~held[p] /\ ~inTurn /\ look[p] > 1 => report[p].file["manifest"] # policy[p]

--------------------------------------------------------------------------------
(* Removal.                                                                *)

(* In turn, only an administrator changes what has been looked at; and a   *)
(* receipt that is there was at worst missed.                              *)
BeforeOK ==
  \A p \in Procs : inTurn /\ pc[p] = "before" =>
    /\ \A a \in Artifacts : look[p] > LookAt(a) =>
         file[a] \in Others \/ report[p].file[a] \in {file[a], Unread}
    /\ look[p] > 4 => report[p].receipt = receipt \/ (report[p].receipt = None /\ missed[p])

RemovalOK ==
  \A p \in Procs : inTurn /\ task[p] = "remove" /\ pc[p] \in {"execute", "after"} =>
    /\ \A a \in Artifacts \ todo[p] : file[a] \in Others
    /\ "forget" \notin todo[p] => receipt = None \/ missed[p]
    /\ file["manifest"].is = "policy" => file["manifest"].account = report[p].by

(* A look has seen that something is left.                                 *)
Seen(p) ==
  \/ look[p] > 1 /\ (report[p].paths # "absent" \/ \E a \in Configured : report[p].file[a] # None)
  \/ look[p] > 2 /\ \E a \in Ruled : report[p].file[a] # None
  \/ look[p] > 3 /\ (~report[p].listed \/ \E g \in report[p].grants : g.command \in {"other", "broad"})

Clear == directory = "absent" /\ \A a \in Configured : file[a] = None

Verified(p) == pc[p] = "after" /\ task[p] = "remove" /\ todo[p] = {} /\ ~held[p]

InTurnOK ==
  \A p \in Procs : inTurn /\ Verified(p) /\ look[p] > 1 /\ edits <= 2 =>
    \/ Seen(p)
    \/ look[p] <= 3 /\ elsewhere # {}
    \/ look[p] = 2 /\ (edits = 2 \/ Clear) /\ \E a \in Ruled : file[a] # None

(* With one other command beside it: as long as the manifest is not to be  *)
(* removed, a receipt is never without it; when it is, the one receipt     *)
(* there can be is to be forgotten.                                        *)
Intact ==
  /\ receipt # None => file["manifest"] # None
  /\ \A q \in Procs : "manifest" \in written[q] => file["manifest"] # None

Forgetting(p) ==
  /\ pc[p] \in {"execute", "after"} /\ runs = 2
  /\ "forget" \in todo[p] \/ receipt = None
  /\ \A q \in Procs : Busy(q) /\ task[q] = "setup" => "receipt" \in written[q]

ReceiptOK ==
  ~inTurn =>
    /\ runs <= 1 => Intact
    /\ runs <= 2 => \A p \in Procs : Removing(p) =>
                      (Intact /\ "manifest" \notin todo[p]) \/ Forgetting(p)

(* What has been seen to be gone still is, and no other command writes.    *)
StaysGone(p) ==
  /\ look[p] > 1 /\ report[p].paths = "absent" => directory = "absent"
  /\ \A a \in Artifacts :
       look[p] > LookAt(a) /\ report[p].file[a] = None => file[a] = None
  /\ \A q \in Procs \ {p} : Busy(q) => runs = 2 /\ task[q] = "remove"

(* Something is left that a look will see, and no other command removes.   *)
StaysThere(p) ==
  /\ \/ Seen(p)
     \/ look[p] = 1 /\ ~Clear
     \/ look[p] <= 2 /\ \E a \in Ruled : file[a] # None
  /\ \A q \in Procs \ {p} : Busy(q) => task[q] = "setup"
  /\ runs = 2

BesideOK ==
  \A p \in Procs : ~inTurn /\ Verified(p) /\ runs <= 2 => StaysGone(p) \/ StaysThere(p)

(* A foreign file is as it was seen, unless it appeared since.             *)
LateOK ==
  \A p \in Procs, a \in Artifacts : Acting(p) /\ file[a] = Foreign /\ a \notin late[p] =>
    /\ pc[p] = "before"
    /\ look[p] <= LookAt(a) \/ report[p].file[a] \in {Foreign, Unread}

Inv == /\ TypeOK /\ PhasesOK /\ HeldOK /\ BuildsOK /\ NumbersOK /\ CountOK
       /\ WrittenOK /\ EditedOK /\ ManifestOK /\ SetupOK /\ BeforeOK /\ RemovalOK
       /\ InTurnOK /\ ReceiptOK /\ BesideOK /\ LateOK

--------------------------------------------------------------------------------
(* What lies at a path, and what a report is.                              *)

LEMMA Kinds ==
  /\ None.is = "none" /\ Legacy.is = "legacy" /\ Foreign.is = "foreign" /\ Unread.is = "unread"
  /\ \A c \in Policies : /\ c.is = "policy" /\ c.account \in Accounts /\ c.host \in Hosts
                         /\ c.profile \in Profiles /\ c.build \in Builds
  /\ \A c \in Edited : c.is = "edited" /\ c.grants \subseteq Grants
BY DEF None, Legacy, Foreign, Unread, Policies, Edited

LEMMA Unalike ==
  /\ \A c \in Contents \cup {Unread} : c.is \in {"none", "unread"} <=> c \in {None, Unread}
  /\ \A c \in Contents \cup {Unread} : c.is = "policy" <=> c \in Policies
  /\ \A c \in Contents \cup {Unread} : c.is = "edited" <=> c \in Edited
  /\ \A c \in {Foreign, Legacy, Unread} \cup Others : c \notin Policies
  /\ \A c \in {None, Foreign, Legacy, Unread} \cup Policies : c \notin Edited
  /\ None # Foreign /\ None # Unread /\ None # Legacy /\ Legacy # Foreign /\ Foreign # Unread
  /\ None \in Others /\ Unread \notin Others /\ Legacy \notin Others
BY Kinds DEF Contents, Others

LEMMA LooksAre ==
  /\ Len(Looks) = 4
  /\ Looks[1] = "configuration" /\ Looks[2] = "rules" /\ Looks[3] = "grants" /\ Looks[4] = "receipt"
BY DEF Looks

(* The parts of the type invariant.                                        *)
MachineTyped == /\ file \in [Artifacts -> Contents]
                /\ directory \in {"absent", "safe", "unsafe"}
                /\ receipt \in Policies \cup {None}
                /\ elsewhere \in SUBSET Grants
PhaseTyped   == /\ pc \in [Procs -> {"idle", "before", "review", "installer", "execute", "after"}]
                /\ task \in [Procs -> Tasks]
                /\ look \in [Procs -> 1..5]
                /\ outcome \in [Procs -> Outcomes]
CommandTyped == /\ policy \in [Procs -> Policies \cup {None}]
                /\ written \in [Procs -> SUBSET (Artifacts \cup {"receipt"})]
                /\ todo \in [Procs -> SUBSET (Artifacts \cup {"visudo", "forget", "rmdir"})]
                /\ revoked \in [Procs -> SUBSET Grants]
ReportTyped  == report \in [Procs -> Reports]
CountTyped   == runs \in 0..MaxRuns /\ edits \in 0..MaxEdits
HistoryTyped == /\ held \in [Procs -> BOOLEAN] /\ missed \in [Procs -> BOOLEAN]
                /\ late \in [Procs -> SUBSET Artifacts] /\ inTurn \in BOOLEAN

LEMMA TypeParts ==
  TypeOK <=> /\ MachineTyped /\ PhaseTyped /\ CommandTyped
             /\ ReportTyped /\ CountTyped /\ HistoryTyped
BY LooksAre DEF TypeOK, MachineTyped, PhaseTyped, CommandTyped, ReportTyped, CountTyped, HistoryTyped

LEMMA TypePartsNext ==
  TypeOK' <=> /\ MachineTyped' /\ PhaseTyped' /\ CommandTyped'
              /\ ReportTyped' /\ CountTyped' /\ HistoryTyped'
BY LooksAre DEF TypeOK, MachineTyped, PhaseTyped, CommandTyped, ReportTyped, CountTyped, HistoryTyped

LEMMA HistoricHostOK == HistoricHost \in Hosts
BY AccountsAssumption DEF HistoricHost

LEMMA GroupOK == \A h \in Hosts, c \in SUBSET Commands : Group(c, h) \subseteq Grants
BY DEF Group, Grants

LEMMA PermittedOK ==
  ASSUME MachineTyped, NEW account PROVE Permitted(account) \subseteq Grants
<1>1. file["sudoers"].is = "policy" => file["sudoers"].host \in Hosts
  BY Unalike, Kinds DEF MachineTyped, Artifacts
<1>2. /\ {"live", "lpd"} \subseteq Commands /\ {"live"} \subseteq Commands
      /\ {"lpd", "1022"} \subseteq Commands
  BY DEF Commands
<1>3. \A a \in {"sudoers", "tombstone"} : file[a].is = "edited" => file[a].grants \subseteq Grants
  BY Unalike, Kinds DEF MachineTyped, Artifacts
<1>4. EditedRules \subseteq Grants  BY <1>3 DEF EditedRules
<1> QED BY <1>1, <1>2, <1>4, HistoricHostOK, GroupOK DEF MachineTyped, Permitted

(* The rules in force follow from the files with rules, and other rules.   *)
LEMMA PermittedSame ==
  ASSUME elsewhere' = elsewhere, file'["sudoers"] = file["sudoers"],
         file'["tombstone"] = file["tombstone"]
  PROVE  \A account : Permitted(account)' = Permitted(account)
<1>1. \A a \in {"sudoers", "tombstone"} : file'[a] = file[a]
  OBVIOUS
<1>2. \A g : g \in EditedRules' <=> g \in EditedRules
  BY <1>1 DEF EditedRules
<1>3. EditedRules' = EditedRules  BY <1>2
<1> QED BY <1>3 DEF Permitted

LEMMA NoEditedRules ==
  (\A a \in {"sudoers", "tombstone"} : file[a].is # "edited") => EditedRules = {}
BY DEF EditedRules

LEMMA NoReportOK == NoReport \in Reports
BY DEF NoReport, Reports, Artifacts

LEMMA ByOK == \A r \in Reports, b \in Accounts \cup {None} :
  /\ r.by \in Accounts \cup {None}
  /\ [NoReport EXCEPT !.by = b] \in Reports
BY NoReportOK DEF Reports

(* What each look adds to a report.                                        *)
Adds(p) ==
  LET r == report[p] s == report'[p] IN
  /\ s.by = r.by
  /\ IF look[p] = 1
     THEN /\ s.paths = directory
          /\ \A a \in Configured : s.file[a] = IF directory = "unsafe" THEN Unread ELSE file[a]
          /\ \A a \in Ruled : s.file[a] = Unread
     ELSE /\ s.paths = r.paths
          /\ \A a \in Configured : s.file[a] = r.file[a]
          /\ \A a \in Ruled : s.file[a] = IF look[p] = 2 THEN file[a] ELSE r.file[a]
  /\ IF look[p] = 3 
     THEN \/ s.listed = r.listed /\ s.grants = r.grants
          \/ s.listed = TRUE /\ s.grants = Permitted(r.by)
     ELSE s.listed = r.listed /\ s.grants = r.grants
  /\ IF look[p] = 4 THEN s.receipt \in {receipt, None} ELSE s.receipt = r.receipt

LEMMA LookAdds ==
  ASSUME TypeOK, NEW p \in Procs, Look(p)
  PROVE  /\ Adds(p) /\ ReportTyped'
         /\ report' = [report EXCEPT ![p] = report'[p]]
<1> DEFINE r == report[p]
<1>1. r \in Reports /\ look[p] \in 1..4
  BY TypeParts, LooksAre DEF ReportTyped, PhaseTyped, Look
<1>2. PICK s \in Observe(p, Looks[look[p]]) : report' = [report EXCEPT ![p] = s]
  BY DEF Look
<1>3. report'[p] = s
  BY <1>2, TypeParts DEF ReportTyped
<1>4. CASE look[p] = 1
  <2>1. s = [r EXCEPT !.paths = directory, !.file = [a \in Artifacts |->
               IF a \notin {"manifest", "profile"} \/ directory = "unsafe" THEN Unread ELSE file[a]]]
    BY <1>2, <1>4, LooksAre DEF Observe
  <2>2. s \in Reports
    BY <2>1, <1>1, TypeParts DEF MachineTyped, Reports
  <2>3. Adds(p)
    BY <2>1, <1>1, <1>3, <1>4 DEF Adds, Reports, Configured, Ruled, Artifacts
  <2> QED BY <2>2, <2>3, <1>2, <1>3, TypeParts DEF ReportTyped
<1>5. CASE look[p] = 2
  <2>1. s = [r EXCEPT !.file["sudoers"] = file["sudoers"], !.file["tombstone"] = file["tombstone"]]
    BY <1>2, <1>5, LooksAre DEF Observe
  <2>2. s \in Reports
    BY <2>1, <1>1, TypeParts DEF MachineTyped, Reports, Artifacts
  <2>3. Adds(p)
    BY <2>1, <1>1, <1>3, <1>5 DEF Adds, Reports, Configured, Ruled, Artifacts
  <2> QED BY <2>2, <2>3, <1>2, <1>3, TypeParts DEF ReportTyped
<1>6. CASE look[p] = 3
  <2>1. s = r \/ s = [r EXCEPT !.listed = TRUE, !.grants = Permitted(r.by)]
    BY <1>2, <1>6, LooksAre DEF Observe
  <2>2. CASE s = r
    <3>1. Adds(p)
      BY <2>2, <1>1, <1>3, <1>6 DEF Adds, Reports, Configured, Ruled, Artifacts
    <3> QED BY <3>1, <2>2, <1>1, <1>2, <1>3, TypeParts DEF ReportTyped
  <2>3. CASE s = [r EXCEPT !.listed = TRUE, !.grants = Permitted(r.by)]
    <3>1. Permitted(r.by) \in SUBSET Grants
      BY TypeParts, PermittedOK
    <3>2. s \in Reports
      BY <2>3, <3>1, <1>1 DEF Reports
    <3>3. s.listed = TRUE /\ s.grants = Permitted(r.by)
      BY <2>3, <1>1 DEF Reports
    <3>4. s.by = r.by /\ s.paths = r.paths /\ s.file = r.file /\ s.receipt = r.receipt
      BY <2>3, <1>1 DEF Reports
    <3>5. Adds(p)
      BY <3>3, <3>4, <1>3, <1>6 DEF Adds
    <3> QED BY <3>2, <3>5, <1>2, <1>3, TypeParts DEF ReportTyped
  <2> QED BY <2>1, <2>2, <2>3
<1>7. CASE look[p] = 4
  <2>1. PICK found \in {receipt, None} : s = [r EXCEPT !.receipt = found]
    BY <1>2, <1>7, LooksAre DEF Observe
  <2>2. s \in Reports
    BY <2>1, <1>1, TypeParts DEF MachineTyped, Reports
  <2>3. Adds(p)
    BY <2>1, <1>1, <1>3, <1>7 DEF Adds, Reports, Configured, Ruled, Artifacts
  <2> QED BY <2>2, <2>3, <1>2, <1>3, TypeParts DEF ReportTyped
<1> QED BY <1>1, <1>4, <1>5, <1>6, <1>7

--------------------------------------------------------------------------------
(* The kinds of step.                                                      *)

Ends(p) ==
  /\ Busy(p)
  /\ \E how \in Outcomes : End(p, how)
  /\ UNCHANGED <<machine, runs, edits>>

Reviews(p) ==
  /\ Audited(p, "before", "setup") /\ Preflight(report[p]) # "refused"
  /\ Goto(p, "review") /\ Forget(p)
  /\ UNCHANGED <<command, machine, runs, edits>>

Plans(p) ==
  /\ Audited(p, "before", "remove") /\ Removable(report[p])
  /\ todo' = [todo EXCEPT ![p] = Operations(report[p])]
  /\ revoked' = [revoked EXCEPT ![p] = Revoked(report[p])]
  /\ Goto(p, "execute") /\ Forget(p)
  /\ UNCHANGED <<task, policy, written, machine, runs, edits>>

Begins(p) == BeginSetup(p) \/ BeginRemoval(p)
Closes(p) == CloseInstaller(p) \/ ExecutionEnds(p)

Acts(p) ==
  \/ Look(p) /\ UNCHANGED <<policy, task, written, todo, revoked>>
  \/ Begins(p) \/ Ends(p) \/ Reviews(p) \/ Plans(p) \/ OpenInstaller(p) \/ Closes(p)
  \/ InstallFile(p) \/ RecordReceipt(p) \/ Execute(p)

LEMMA StepKinds ==
  ASSUME Next
  PROVE  ((\E p \in Procs : Acts(p)) \/ Edit) /\ Witness /\ inTurn' = inTurn
<1>1. Witness /\ inTurn' = inTurn
  BY DEF Next
<1>2. CASE Edit
  BY <1>1, <1>2
<1>3. ASSUME NEW p \in Procs, Look(p) \/ Setup(p) \/ Removal(p) \/ Die(p) PROVE Acts(p)
  <2>1. CASE Look(p)  BY <2>1 DEF Acts, Look, command
  <2>2. CASE Decide(p)
    BY <2>2 DEF Decide, Acts, Ends, Reviews, Audited, Busy, Outcomes
  <2>3. CASE Cancel(p)  BY <2>3 DEF Cancel, Acts, Ends, Busy, Outcomes
  <2>4. CASE ReportSetup(p)  BY <2>4 DEF ReportSetup, Acts, Ends, Audited, Busy, Outcomes
  <2>5. CASE Plan(p)  BY <2>5 DEF Plan, Acts, Ends, Plans, Audited, Busy, Outcomes, machine
  <2>6. CASE ReportRemoval(p)  BY <2>6 DEF ReportRemoval, Acts, Ends, Audited, Busy, Outcomes
  <2>7. CASE Die(p)  BY <2>7 DEF Die, Acts, Ends, Busy, Outcomes
  <2> QED
    BY <1>3, <2>1, <2>2, <2>3, <2>4, <2>5, <2>6, <2>7 DEF Setup, Removal, Acts, Begins, Closes
<1> QED BY <1>1, <1>2, <1>3 DEF Next

(* Every kind of step but an edit changes nothing of other processes.      *)
LEMMA OthersKeep ==
  ASSUME TypeOK, NEW p \in Procs, Acts(p), NEW q \in Procs, q # p
  PROVE  /\ pc'[q] = pc[q] /\ task'[q] = task[q] /\ policy'[q] = policy[q]
         /\ written'[q] = written[q] /\ todo'[q] = todo[q] /\ revoked'[q] = revoked[q]
         /\ report'[q] = report[q] /\ look'[q] = look[q]
<1> USE TypeParts DEF PhaseTyped, CommandTyped, ReportTyped, command, audit
<1>1. CASE Look(p) /\ UNCHANGED <<policy, task, written, todo, revoked>>
  BY <1>1, LookAdds DEF Look
<1>2. CASE BeginSetup(p)  BY <1>2 DEF BeginSetup, Begin
<1>3. CASE BeginRemoval(p)  BY <1>3 DEF BeginRemoval, Begin
<1>4. CASE Ends(p)  BY <1>4 DEF Ends, End
<1>5. CASE Reviews(p)  BY <1>5 DEF Reviews, Goto, Forget
<1>6. CASE Plans(p)  BY <1>6 DEF Plans, Goto, Forget
<1>7. CASE OpenInstaller(p) \/ Closes(p)
  BY <1>7 DEF OpenInstaller, Closes, CloseInstaller, ExecutionEnds, Goto
<1>8. CASE InstallFile(p)  BY <1>8 DEF InstallFile
<1>9. CASE RecordReceipt(p)  BY <1>9 DEF RecordReceipt
<1>10. CASE Execute(p)  BY <1>10 DEF Execute
<1> QED BY <1>1, <1>2, <1>3, <1>4, <1>5, <1>6, <1>7, <1>8, <1>9, <1>10 DEF Acts, Begins

--------------------------------------------------------------------------------
(* Type correctness.                                                       *)

LEMMA WitnessOK ==
  ASSUME Witness, NEW p \in Procs
  PROVE  /\ held'[p] <=> pc'[p] = "after" /\ (held[p] \/ Verifying(p)')
         /\ missed'[p] <=> pc'[p] # "idle" /\ (missed[p] \/ Misses(p))
         /\ Acting(p)' => late'[p] = late[p] \cup Appeared(p)
BY DEF Witness

LEMMA HistoryTypedNext == ASSUME Witness, inTurn' = inTurn, HistoryTyped PROVE HistoryTyped'
<1>1. \A p \in Procs : (pc'[p] = "after" /\ (held[p] \/ Verifying(p)')) \in BOOLEAN
  OBVIOUS
<1>2. held' \in [Procs -> BOOLEAN]  BY <1>1 DEF Witness
<1>3. \A p \in Procs : (pc'[p] # "idle" /\ (missed[p] \/ Misses(p))) \in BOOLEAN
  OBVIOUS
<1>4. missed' \in [Procs -> BOOLEAN]  BY <1>3 DEF Witness
<1>5. \A p \in Procs : late[p] \subseteq Artifacts /\ Appeared(p) \subseteq Artifacts
  BY DEF HistoryTyped, Appeared
<1>6. late' \in [Procs -> SUBSET Artifacts]
  <2>1. late' = [p \in Procs |-> IF Acting(p)' THEN late[p] \cup Appeared(p) ELSE {}]
    BY DEF Witness
  <2>2. \A p \in Procs : (IF Acting(p)' THEN late[p] \cup Appeared(p) ELSE {}) \in SUBSET Artifacts
    BY <1>5
  <2> QED BY <2>1, <2>2
<1> QED BY <1>2, <1>4, <1>6 DEF HistoryTyped

LEMMA RevokedOK == \A r \in Reports : Revoked(r) \in SUBSET Grants
<1> SUFFICES ASSUME NEW r \in Reports PROVE Revoked(r) \subseteq Grants
  OBVIOUS
<1>1. CASE Managed(r)
  <2>1. r.file["manifest"].host \in Hosts
    BY <1>1, Unalike, Kinds DEF Managed, Reports, Artifacts
  <2> QED BY <1>1, <2>1, GroupOK DEF Revoked, Expected, Commands
<1>2. CASE ~Managed(r)
  BY <1>2 DEF Revoked, Extra, Reports
<1> QED BY <1>1, <1>2

LEMMA EffectCases ==
  ASSUME NEW p \in Procs, NEW op \in Artifacts \cup {"visudo", "forget", "rmdir"}, Effect(p, op)
  PROVE  \/ /\ op \in Artifacts /\ file[op] # None
            /\ file' = [file EXCEPT ![op] = None] /\ UNCHANGED <<directory, receipt>>
         \/ op = "visudo" /\ UNCHANGED <<file, directory, receipt>>
         \/ op = "forget" /\ receipt' = None /\ UNCHANGED <<file, directory>>
         \/ /\ op = "rmdir" /\ file["manifest"] = None /\ file["profile"] = None
            /\ directory' = "absent" /\ UNCHANGED <<file, receipt>>
BY DEF Effect, Artifacts

LEMMA TypeInit == Init => TypeOK
<1> SUFFICES ASSUME Init PROVE TypeOK
  OBVIOUS
<1>1. MachineTyped  BY DEF Init, MachineTyped, Contents
<1>2. PhaseTyped  BY DEF Init, PhaseTyped, Tasks, Outcomes
<1>3. CommandTyped  BY DEF Init, CommandTyped
<1>4. ReportTyped  BY NoReportOK DEF Init, ReportTyped
<1>5. CountTyped  BY BuildsAssumption DEF Init, CountTyped
<1>6. HistoryTyped  BY DEF Init, HistoryTyped
<1> QED BY <1>1, <1>2, <1>3, <1>4, <1>5, <1>6, TypeParts

LEMMA TypeActs ==
  ASSUME TypeOK, NEW p \in Procs, Acts(p)
  PROVE  MachineTyped' /\ PhaseTyped' /\ CommandTyped' /\ ReportTyped' /\ CountTyped'
<1> USE TypeParts, BuildsAssumption DEF PhaseTyped, CommandTyped, ReportTyped, CountTyped, MachineTyped,
        machine, command, audit, Tasks, Outcomes
<1>1. CASE Look(p) /\ UNCHANGED <<policy, task, written, todo, revoked>>
  <2>1. look' \in [Procs -> 1..5]  BY <1>1, LooksAre DEF Look
  <2> QED BY <1>1, <2>1, LookAdds DEF Look
<1>2. CASE BeginSetup(p)
  <2>1. PICK account \in Accounts, host \in Hosts, profile \in Profiles :
          /\ Begin(p, "setup", account)
          /\ policy' = [policy EXCEPT ![p] = [is |-> "policy", account |-> account, host |-> host,
                                              profile |-> profile, build |-> runs + 1]]
    BY <1>2 DEF BeginSetup
  <2>2. runs' = runs + 1 /\ runs' \in 1..MaxRuns  BY <2>1 DEF Begin
  <2>3. policy' \in [Procs -> Policies \cup {None}]
    BY <2>1, <2>2 DEF Policies
  <2>4. report' \in [Procs -> Reports]  BY <2>1, ByOK DEF Begin
  <2> QED BY <2>1, <2>2, <2>3, <2>4 DEF Begin
<1>3. CASE BeginRemoval(p)
  <2>1. PICK account \in Accounts : Begin(p, "remove", account)
    BY <1>3 DEF BeginRemoval
  <2>2. policy' = policy  BY <1>3 DEF BeginRemoval
  <2>3. report' \in [Procs -> Reports]  BY <2>1, ByOK DEF Begin
  <2> QED BY <2>1, <2>2, <2>3 DEF Begin
<1>4. CASE Ends(p)
  BY <1>4, NoReportOK DEF Ends, End
<1>5. CASE Reviews(p)
  <2>1. report' \in [Procs -> Reports]  BY <1>5, ByOK DEF Reviews, Forget
  <2> QED BY <1>5, <2>1 DEF Reviews, Goto, Forget
<1>6. CASE Plans(p)
  <2>1. report' \in [Procs -> Reports]  BY <1>6, ByOK DEF Plans, Forget
  <2>2. Operations(report[p]) \in SUBSET (Artifacts \cup {"visudo", "forget", "rmdir"})
    BY DEF Operations
  <2> QED BY <1>6, <2>1, <2>2, RevokedOK DEF Plans, Goto, Forget
<1>7. CASE OpenInstaller(p) \/ Closes(p)
  BY <1>7 DEF OpenInstaller, Closes, CloseInstaller, ExecutionEnds, Goto
<1>8. CASE InstallFile(p)
  <2>1. PICK a \in Artifacts \ written[p] :
          Put(a, policy[p]) /\ written' = [written EXCEPT ![p] = @ \cup {a}]
    BY <1>8 DEF InstallFile
  <2>2. file' \in [Artifacts -> Contents] /\ directory' \in {"absent", "safe", "unsafe"}
    BY <2>1 DEF Put, Contents
  <2> QED BY <1>8, <2>1, <2>2 DEF InstallFile
<1>9. CASE RecordReceipt(p)  BY <1>9 DEF RecordReceipt
<1>10. CASE Execute(p)
  <2>1. PICK op \in todo[p] : Effect(p, op) /\ todo' = [todo EXCEPT ![p] = @ \ {op}]
    BY <1>10 DEF Execute
  <2>2. op \in Artifacts \cup {"visudo", "forget", "rmdir"}
    OBVIOUS
  <2>3. MachineTyped'
    BY <2>1, <2>2, EffectCases, <1>10 DEF Execute, Contents
  <2> QED BY <1>10, <2>1, <2>3 DEF Execute
<1> QED BY <1>1, <1>2, <1>3, <1>4, <1>5, <1>6, <1>7, <1>8, <1>9, <1>10 DEF Acts, Begins

(* What an edit may change.                                                *)
EditsFile ==
  /\ \E a \in Artifacts, content \in Others :
       /\ a = "manifest" => content \in {None, Foreign}
       /\ file[a] # content /\ file' = [file EXCEPT ![a] = content]
       /\ directory' = IF a \in Configured THEN "safe" ELSE directory
  /\ elsewhere' = elsewhere
EditsRules ==
  /\ \E c \in {"other", "broad"}, h \in Hosts :
       elsewhere' = {[command |-> c, host |-> h, strict |-> TRUE]}
  /\ UNCHANGED <<file, directory>>
EditsDirectory == directory' = "unsafe" /\ UNCHANGED <<file, elsewhere>>

LEMMA EditCases ==
  ASSUME Edit
  PROVE  /\ inTurn /\ edits < MaxEdits /\ edits' = edits + 1
         /\ UNCHANGED <<receipt, command, audit, pc, outcome, runs>>
         /\ EditsFile \/ EditsRules \/ EditsDirectory
<1>1. \A a \in Artifacts : Left(a) \subseteq Others /\ (a = "manifest" => Left(a) = {None, Foreign})
  <2> SUFFICES ASSUME NEW a \in Artifacts, NEW c \in Left(a), c \notin {None, Foreign}
               PROVE  a # "manifest" /\ c \in Edited
    BY DEF Left, Others
  <2>1. a # "manifest" /\ c \in [is : {"edited"}, grants : IF a = "profile" THEN {{}} ELSE Allowed]
    <3>1. c \in {None, Foreign} \/ c \in (IF a = "manifest" THEN {} ELSE
            [is : {"edited"}, grants : IF a = "profile" THEN {{}} ELSE Allowed])
      BY DEF Left
    <3> QED BY <3>1
  <2>2. Allowed \subseteq SUBSET Grants
    <3>1. \A h \in Hosts, b \in BOOLEAN :
            [command : {"live", "lpd"}, host : {h}, strict : {b}] \subseteq Grants
      BY DEF Grants, Commands
    <3>2. ASSUME NEW x \in Allowed PROVE x \subseteq Grants
      <4>1. x = {} \/ \E h \in Hosts, b \in BOOLEAN :
                        x = [command : {"live", "lpd"}, host : {h}, strict : {b}]
        BY DEF Allowed
      <4> QED BY <3>1, <4>1
    <3> QED BY <3>2
  <2> QED BY <2>1, <2>2 DEF Edited
<1>2. CASE /\ \E a \in Artifacts : \E content \in Left(a) : file[a] # content /\ Put(a, content)
           /\ UNCHANGED elsewhere
  <2>1. PICK a \in Artifacts : \E content \in Left(a) : file[a] # content /\ Put(a, content)
    BY <1>2
  <2>2. PICK content \in Left(a) : file[a] # content /\ Put(a, content)
    BY <2>1
  <2>3. content \in Others /\ (a = "manifest" => content \in {None, Foreign})
    BY <1>1, <2>2
  <2>4. /\ file' = [file EXCEPT ![a] = content]
        /\ directory' = IF a \in Configured THEN "safe" ELSE directory
    BY <2>2 DEF Put, Configured
  <2> QED BY <1>2, <2>2, <2>3, <2>4 DEF Edit, EditsFile
<1> QED BY <1>2 DEF Edit, Put, EditsFile, EditsRules, EditsDirectory, Configured

LEMMA TypeEdit ==
  ASSUME TypeOK, Edit
  PROVE  MachineTyped' /\ PhaseTyped' /\ CommandTyped' /\ ReportTyped' /\ CountTyped'
<1> USE TypeParts, BuildsAssumption, EditCases
    DEF PhaseTyped, CommandTyped, ReportTyped, CountTyped, MachineTyped, command, audit
<1>1. CASE EditsFile       BY <1>1 DEF EditsFile, Contents, Others
<1>2. CASE EditsRules
  <2>1. elsewhere' \subseteq Grants  BY <1>2 DEF EditsRules, Grants, Commands
  <2> QED BY <1>2, <2>1 DEF EditsRules
<1>3. CASE EditsDirectory  BY <1>3 DEF EditsDirectory
<1> QED BY <1>1, <1>2, <1>3

LEMMA TypeNext == ASSUME TypeOK, [Next]_vars PROVE TypeOK'
<1>1. CASE Next
  BY <1>1, StepKinds, TypeActs, TypeEdit, HistoryTypedNext, TypeParts, TypePartsNext
<1>2. CASE UNCHANGED vars
  BY <1>2, TypeParts, TypePartsNext
     DEF vars, machine, command, audit, history, MachineTyped, PhaseTyped, CommandTyped, ReportTyped,
         CountTyped, HistoryTyped
<1> QED BY <1>1, <1>2

--------------------------------------------------------------------------------
(* Phases, history, numbers.                                               *)

LEMMA NoReportIs ==
  \A b \in Accounts \cup {None} :
    /\ [NoReport EXCEPT !.by = b].listed = FALSE /\ [NoReport EXCEPT !.by = b].grants = {}
    /\ [NoReport EXCEPT !.by = b].receipt = Unread /\ [NoReport EXCEPT !.by = b].by = b
    /\ NoReport.listed = FALSE /\ NoReport.grants = {} /\ NoReport.receipt = Unread
BY DEF NoReport

LEMMA PhasesActs ==
  ASSUME TypeOK, PhasesOK, NEW p \in Procs, Acts(p)
  PROVE  PhasesOK'
<1> SUFFICES ASSUME NEW q \in Procs PROVE PhaseOK(q)'
  BY DEF PhasesOK
<1>1. PhaseOK(q) /\ PhaseOK(p)  BY DEF PhasesOK
<1>2. CASE q # p
  BY <1>1, <1>2, OthersKeep DEF PhaseOK, Busy
<1>3. CASE q = p
  <2> USE <1>1, TypeParts DEF PhaseTyped, CommandTyped, ReportTyped, command, audit, Busy
  <2>1. CASE Look(p) /\ UNCHANGED <<policy, task, written, todo, revoked>>
    <3>1. Adds(p)  BY <2>1, LookAdds
    <3>2. ~report'[p].listed => report'[p].grants = {}
      BY <3>1 DEF Adds, PhaseOK
    <3>3. look'[p] = look[p] + 1 /\ pc[p] \in {"before", "after"} /\ pc' = pc
      BY <2>1 DEF Look, Auditing
    <3>4. look'[p] <= 3 => ~report'[p].listed
      BY <3>1, <3>3 DEF Adds, PhaseOK
    <3> QED BY <1>3, <2>1, <3>2, <3>3, <3>4 DEF PhaseOK
  <2>2. CASE BeginSetup(p)
    <3>1. policy'[p] # None  BY <2>2, Kinds DEF BeginSetup, None
    <3> QED BY <1>3, <2>2, <3>1, NoReportIs DEF BeginSetup, Begin, PhaseOK
  <2>3. CASE BeginRemoval(p)
    BY <1>3, <2>3, NoReportIs DEF BeginRemoval, Begin, PhaseOK
  <2>4. CASE Ends(p)
    <3>1. /\ pc'[p] = "idle" /\ policy'[p] = None /\ written'[p] = {} /\ todo'[p] = {}
          /\ task'[p] = "setup" /\ report'[p] = NoReport
      BY <2>4 DEF Ends, End
    <3> QED BY <1>3, <3>1, NoReportIs DEF PhaseOK
  <2>5. CASE Reviews(p)
    BY <1>3, <2>5, NoReportIs, ByOK DEF Reviews, Audited, Goto, Forget, PhaseOK
  <2>6. CASE Plans(p)
    BY <1>3, <2>6, NoReportIs, ByOK DEF Plans, Audited, Goto, Forget, PhaseOK
  <2>7. CASE OpenInstaller(p) \/ Closes(p)
    BY <1>3, <2>7 DEF OpenInstaller, Closes, CloseInstaller, ExecutionEnds, Goto, PhaseOK
  <2>8. CASE InstallFile(p)
    BY <1>3, <2>8 DEF InstallFile, PhaseOK
  <2>9. CASE RecordReceipt(p)
    BY <1>3, <2>9 DEF RecordReceipt, PhaseOK
  <2>10. CASE Execute(p)
    BY <1>3, <2>10 DEF Execute, PhaseOK
  <2> QED BY <2>1, <2>2, <2>3, <2>4, <2>5, <2>6, <2>7, <2>8, <2>9, <2>10 DEF Acts, Begins
<1> QED BY <1>2, <1>3

LEMMA PhasesEdit == ASSUME PhasesOK, Edit PROVE PhasesOK'
BY EditCases DEF PhasesOK, PhaseOK, Busy, command, audit

LEMMA HeldNext == ASSUME Witness PROVE HeldOK'
BY WitnessOK DEF HeldOK

LEMMA CountActs ==
  ASSUME TypeOK, CountOK, NEW p \in Procs, Acts(p), inTurn' = inTurn
  PROVE  CountOK'
<1> USE TypeParts, OthersKeep, BuildsAssumption DEF CountOK, PhaseTyped, CountTyped, Busy
<1>1. CASE Begins(p)
  <2>1. /\ ~Busy(p) /\ runs' = runs + 1
        /\ inTurn => \A q \in Procs : ~Busy(q)
    BY <1>1 DEF Begins, BeginSetup, BeginRemoval, Begin
  <2>2. \A q \in Procs : q # p => pc'[q] = pc[q]
    OBVIOUS
  <2> QED BY <2>1, <2>2
<1>2. CASE ~Begins(p)
  <2>1. Busy(p) /\ runs' = runs
    BY <1>2 DEF Acts, Look, Auditing, Ends, Reviews, Plans, Audited, OpenInstaller, Closes,
                CloseInstaller, ExecutionEnds, InstallFile, RecordReceipt, Execute
  <2>2. \A q \in Procs : q # p => pc'[q] = pc[q]
    OBVIOUS
  <2>3. \A q \in Procs : Busy(q)' => Busy(q)
    BY <2>1, <2>2
  <2> QED BY <2>1, <2>3
<1> QED BY <1>1, <1>2

LEMMA CountEdit == ASSUME CountOK, Edit, inTurn' = inTurn PROVE CountOK'
BY EditCases DEF CountOK, Busy

(* A report has the receipt that is recorded, or none.                     *)
LEMMA ReportedReceipts ==
  ASSUME TypeOK, NEW p \in Procs, Acts(p), NEW q \in Procs
  PROVE  report'[q].receipt \in {report[q].receipt, receipt, None, Unread}
<1> USE TypeParts DEF ReportTyped
<1>1. CASE q # p  BY <1>1, OthersKeep
<1>2. CASE q = p
  <2>1. CASE Look(p)  BY <1>2, <2>1, LookAdds DEF Adds
  <2>2. CASE Begins(p)
    <3>1. \E b \in Accounts : report'[p] = [NoReport EXCEPT !.by = b]
      BY <2>2 DEF Begins, BeginSetup, BeginRemoval, Begin
    <3> QED BY <1>2, <3>1, NoReportIs
  <2>3. CASE Ends(p)  BY <1>2, <2>3, NoReportIs DEF Ends, End
  <2>4. CASE Reviews(p) \/ Plans(p)
    <3>1. report'[p] = [NoReport EXCEPT !.by = report[p].by]
      BY <2>4 DEF Reviews, Plans, Forget
    <3>2. report[p].by \in Accounts \cup {None}
      BY ByOK
    <3> QED BY <1>2, <3>1, <3>2, NoReportIs
  <2>5. CASE OpenInstaller(p) \/ Closes(p) \/ InstallFile(p) \/ RecordReceipt(p) \/ Execute(p)
    BY <1>2, <2>5 DEF OpenInstaller, Closes, CloseInstaller, ExecutionEnds, InstallFile, RecordReceipt,
                      Execute, audit
  <2> QED BY <2>1, <2>2, <2>3, <2>4, <2>5 DEF Acts
<1> QED BY <1>1, <1>2

(* Only a setup that begins adds a policy to those that are known.         *)
LEMMA KnownActs ==
  ASSUME TypeOK, NEW p \in Procs, Acts(p)
  PROVE  \A c \in Known' : c \in Policies => c \in Known \/ (BeginSetup(p) /\ c = policy'[p])
<1> USE TypeParts, OthersKeep, Kinds DEF PhaseTyped, CommandTyped, ReportTyped, MachineTyped, machine, command, audit
<1>1. \A a \in Artifacts : file'[a] \in Policies => file'[a] \in Known
  <2>1. \A a \in Artifacts : file'[a] \in {file[a], policy[p], None}
    <3>1. CASE InstallFile(p)  BY <3>1 DEF InstallFile, Put
    <3>2. CASE Execute(p)
      <4>1. PICK op \in todo[p] : Effect(p, op)  BY <3>2 DEF Execute
      <4> QED BY <4>1, EffectCases
    <3>3. CASE ~InstallFile(p) /\ ~Execute(p)
      BY <3>3 DEF Acts, Look, Begins, BeginSetup, BeginRemoval, Begin, Ends, Reviews, Plans, OpenInstaller,
                  Closes, CloseInstaller, ExecutionEnds, RecordReceipt
    <3> QED BY <3>1, <3>2, <3>3
  <2> QED BY <2>1 DEF Known
<1>2. receipt' \in Policies => receipt' \in Known
  <2>1. receipt' \in {receipt, policy[p], None}
    <3>1. CASE RecordReceipt(p)  BY <3>1 DEF RecordReceipt
    <3>2. CASE Execute(p)
      <4>1. PICK op \in todo[p] : Effect(p, op)  BY <3>2 DEF Execute
      <4> QED BY <4>1, EffectCases
    <3>3. CASE ~RecordReceipt(p) /\ ~Execute(p)
      BY <3>3 DEF Acts, Look, Begins, BeginSetup, BeginRemoval, Begin, Ends, Reviews, Plans, OpenInstaller,
                  Closes, CloseInstaller, ExecutionEnds, InstallFile
    <3> QED BY <3>1, <3>2, <3>3
  <2> QED BY <2>1 DEF Known
<1>3. policy'[p] \in Policies => policy'[p] \in Known \/ BeginSetup(p)
  <2>1. policy'[p] \in {policy[p], None} \/ BeginSetup(p)
    BY DEF Acts, Begins, BeginRemoval, Ends, End, Reviews, Plans, OpenInstaller,
           Closes, CloseInstaller, ExecutionEnds, InstallFile, RecordReceipt, Execute
  <2> QED BY <2>1 DEF Known
<1>4. report'[p].receipt \in Policies => report'[p].receipt \in Known
  BY ReportedReceipts, Unalike DEF Known
<1>5. \A q \in Procs : q # p => policy'[q] = policy[q] /\ report'[q] = report[q]
  OBVIOUS
<1> QED BY <1>1, <1>2, <1>3, <1>4, <1>5 DEF Known

LEMMA BuildsActs ==
  ASSUME TypeOK, BuildsOK, NEW p \in Procs, Acts(p)
  PROVE  BuildsOK'
<1> USE TypeParts DEF CommandTyped, CountTyped, MachineTyped
<1>1. \A q \in Procs : q # p => policy'[q] = policy[q]
  BY OthersKeep
<1>2. \A c \in Known' : c \in Policies => c \in Known \/ (BeginSetup(p) /\ c = policy'[p])
  BY KnownActs
<1>3. CASE BeginSetup(p)
  <2>1. /\ runs' = runs + 1 /\ policy'[p] \in Policies /\ policy'[p].build = runs + 1
    <3>1. policy'[p] \in Policies  BY <1>3, TypeActs, Kinds DEF BeginSetup, None
    <3> QED BY <1>3, <3>1 DEF BeginSetup, Begin
  <2>2. \A c \in Known : c \in Policies => c.build \in Nat /\ c.build <= runs
    BY Kinds, BuildsAssumption DEF BuildsOK
  <2>3. \A c \in Known' : c \in Policies => c.build <= runs'
    BY <1>2, <2>1, <2>2
  <2>4. \A q \in Procs : policy[q] \in Known
    BY DEF Known
  <2>5. \A b, c \in Known' : b \in Policies /\ c \in Policies /\ b.build = c.build => b = c
    <3> SUFFICES ASSUME NEW b \in Known', NEW c \in Known', b \in Policies, c \in Policies,
                        b.build = c.build
                 PROVE  b = c
      OBVIOUS
    <3>1. b \in Known \/ b = policy'[p]  BY <1>2
    <3>2. c \in Known \/ c = policy'[p]  BY <1>2
    <3>3. CASE b \in Known /\ c \in Known  BY <3>3 DEF BuildsOK
    <3>4. CASE b = policy'[p] \/ c = policy'[p]  BY <3>1, <3>2, <3>4, <2>1, <2>2
    <3> QED BY <3>1, <3>2, <3>3, <3>4
  <2>6. \A q \in Procs : q # p => policy'[q] # policy'[p]
    BY <1>1, <2>1, <2>2, <2>4
  <2> QED BY <1>1, <2>3, <2>5, <2>6 DEF BuildsOK
<1>4. CASE ~BeginSetup(p)
  <2>1. policy'[p] \in {policy[p], None}
    BY <1>4 DEF Acts, Begins, BeginRemoval, Ends, End, Reviews, Plans, OpenInstaller, command,
           Closes, CloseInstaller, ExecutionEnds, InstallFile, RecordReceipt, Execute
  <2>2. runs' \in {runs, runs + 1}
    BY <1>4 DEF Acts, Look, Begins, BeginRemoval, Begin, Ends, Reviews, Plans, OpenInstaller,
           Closes, CloseInstaller, ExecutionEnds, InstallFile, RecordReceipt, Execute
  <2>3. \A c \in Known' : c \in Policies => c \in Known
    BY <1>2, <1>4
  <2>4. \A c \in Known' : c \in Policies => c.build <= runs'
    BY <2>2, <2>3, Kinds, BuildsAssumption DEF BuildsOK
  <2>5. None \notin Policies  BY Kinds
  <2> QED BY <1>1, <2>1, <2>3, <2>4, <2>5 DEF BuildsOK
<1> QED BY <1>3, <1>4

LEMMA KnownEdit == ASSUME TypeOK, Edit PROVE \A c \in Known' : c \in Policies => c \in Known
<1>1. \A a \in Artifacts : file'[a] \in {file[a]} \cup Others
  BY EditCases, TypeParts DEF MachineTyped, EditsFile, EditsRules, EditsDirectory
<1> QED BY <1>1, Unalike, EditCases DEF Known, command, audit

LEMMA BuildsEdit == ASSUME TypeOK, BuildsOK, Edit PROVE BuildsOK'
BY KnownEdit, EditCases DEF BuildsOK, command

(* The number of a removal stays unused.                                   *)
LEMMA NumbersActs ==
  ASSUME TypeOK, BuildsOK, NumbersOK, NEW p \in Procs, Acts(p)
  PROVE  NumbersOK'
<1> USE TypeParts DEF PhaseTyped, CountTyped
<1>1. \A c \in Known' : c \in Policies => c \in Known \/ (BeginSetup(p) /\ c = policy'[p])
  BY KnownActs
<1>2. \A q \in Procs : q # p => Removing(q)' = Removing(q)
  BY OthersKeep DEF Removing, Busy
<1>3. CASE BeginSetup(p)
  <2>1. runs' = runs + 1 /\ policy'[p].build = runs + 1 /\ task'[p] = "setup"
    <3>1. PICK account \in Accounts, host \in Hosts, profile \in Profiles :
            /\ Begin(p, "setup", account)
            /\ policy' = [policy EXCEPT ![p] = [is |-> "policy", account |-> account, host |-> host,
                                                profile |-> profile, build |-> runs + 1]]
      BY <1>3 DEF BeginSetup
    <3> QED BY <3>1, TypeParts DEF Begin, CommandTyped
  <2>2. \A n \in 1..runs : Unused(n) => Unused(n)' /\ n \in 1..runs'
    BY <1>1, <2>1, BuildsAssumption DEF Unused
  <2>3. \A q \in Procs : Removing(q)' => Removing(q)
    BY <1>2, <2>1 DEF Removing
  <2> QED BY <2>2, <2>3 DEF NumbersOK
<1>4. CASE BeginRemoval(p)
  <2>1. runs' = runs + 1 /\ runs \in Nat
    BY <1>4, BuildsAssumption DEF BeginRemoval, Begin
  <2>2. \A n : Unused(n) => Unused(n)'
    <3>1. \A c \in Known' : c \in Policies => c \in Known
      BY <1>1, <1>4 DEF BeginSetup, BeginRemoval, Begin
    <3> QED BY <3>1 DEF Unused
  <2>3. Unused(runs + 1)
    <3>1. \A c \in Known : c \in Policies => c.build <= runs /\ c.build \in Nat
      BY Kinds, BuildsAssumption DEF BuildsOK
    <3> QED BY <2>1, <3>1 DEF Unused
  <2>4. \A n \in 1..runs : n \in 1..runs' /\ n # runs + 1
    BY <2>1
  <2>5. runs + 1 \in 1..runs'
    BY <2>1
  <2> SUFFICES ASSUME NEW q \in Procs, NEW s \in Procs, Removing(q)', Removing(s)'
               PROVE  \E m, n \in 1..runs' : Unused(m)' /\ Unused(n)' /\ (q # s => m # n)
    BY DEF NumbersOK
  <2>6. CASE q = p /\ s = p  BY <2>2, <2>3, <2>5, <2>6
  <2>7. CASE q = p /\ s # p
    <3>1. \E m \in 1..runs : Unused(m)  BY <1>2, <2>7 DEF NumbersOK
    <3> QED BY <2>2, <2>3, <2>4, <2>5, <3>1
  <2>8. CASE q # p /\ s = p
    <3>1. \E m \in 1..runs : Unused(m)  BY <1>2, <2>8 DEF NumbersOK
    <3> QED BY <2>2, <2>3, <2>4, <2>5, <3>1
  <2>9. CASE q # p /\ s # p
    <3>1. \E m, n \in 1..runs : Unused(m) /\ Unused(n) /\ (q # s => m # n)
      BY <1>2, <2>9 DEF NumbersOK
    <3> QED BY <2>2, <2>4, <3>1
  <2> QED BY <2>6, <2>7, <2>8, <2>9
<1>5. CASE ~BeginSetup(p) /\ ~BeginRemoval(p)
  <2>1. Busy(p) /\ runs' = runs
    BY <1>5 DEF Acts, Look, Auditing, Begins, Ends, Reviews, Plans, Audited, OpenInstaller, Closes, Busy,
                CloseInstaller, ExecutionEnds, InstallFile, RecordReceipt, Execute
  <2>2. ~Busy(p)' \/ task'[p] = task[p]
    BY <1>5 DEF Acts, Look, Begins, command, Ends, End, Reviews, Plans, OpenInstaller, Closes, Busy,
                CloseInstaller, ExecutionEnds, InstallFile, RecordReceipt, Execute
  <2>3. \A q \in Procs : Removing(q)' => Removing(q)
    BY <1>2, <2>1, <2>2 DEF Removing
  <2>4. \A n : Unused(n) => Unused(n)'
    BY <1>1, <1>5 DEF Unused
  <2> QED BY <2>1, <2>3, <2>4 DEF NumbersOK
<1> QED BY <1>3, <1>4, <1>5

LEMMA NumbersEdit == ASSUME TypeOK, NumbersOK, Edit PROVE NumbersOK'
<1>1. \A n : Unused(n) => Unused(n)'  BY KnownEdit DEF Unused
<1> QED BY <1>1, EditCases DEF NumbersOK, Removing, Busy, command

--------------------------------------------------------------------------------
(* What holds of every step: what it does to the machine, and who acts.    *)

(* In turn, no process acts while another one runs a command.              *)
LEMMA OneActs ==
  ASSUME CountOK, NEW p \in Procs, Acts(p), NEW q \in Procs, inTurn, Busy(q)
  PROVE  q = p
<1>1. Begins(p) => \A s \in Procs : ~Busy(s)
  BY DEF Begins, BeginSetup, BeginRemoval, Begin, Busy
<1>2. ~Begins(p) => Busy(p)
  BY DEF Acts, Look, Auditing, Ends, Reviews, Plans, Audited, OpenInstaller, Closes, Busy,
         CloseInstaller, ExecutionEnds, InstallFile, RecordReceipt, Execute
<1> QED BY <1>1, <1>2 DEF CountOK

(* A setup may add its policy, a removal takes away.                       *)
Adding(p) ==
  /\ task[p] = "setup" /\ pc[p] = "installer"
  /\ \A a \in Artifacts : file'[a] \in {file[a], policy[p]}
  /\ directory' \in {directory, "safe"} /\ receipt' \in {receipt, policy[p]}
Taking(p) ==
  /\ task[p] = "remove" /\ pc[p] = "execute"
  /\ \A a \in Artifacts : file'[a] \in {file[a], None}
  /\ directory' \in {directory, "absent"} /\ receipt' \in {receipt, None}

LEMMA MachineActs ==
  ASSUME TypeOK, PhasesOK, NEW p \in Procs, Acts(p)
  PROVE  /\ elsewhere' = elsewhere /\ edits' = edits
         /\ UNCHANGED <<file, directory, receipt>> \/ Adding(p) \/ Taking(p)
<1> USE TypeParts DEF MachineTyped, CommandTyped, PhaseTyped, PhasesOK, PhaseOK, Tasks
<1>1. elsewhere' = elsewhere /\ edits' = edits
  BY DEF Acts, Look, Begins, BeginSetup, BeginRemoval, Begin, Ends, Reviews, Plans, OpenInstaller, machine,
         Closes, CloseInstaller, ExecutionEnds, InstallFile, RecordReceipt, Execute
<1>2. CASE InstallFile(p)  BY <1>1, <1>2 DEF InstallFile, Put, Adding
<1>3. CASE RecordReceipt(p)  BY <1>1, <1>3 DEF RecordReceipt, Adding
<1>4. CASE Execute(p)
  <2>1. PICK op \in todo[p] : Effect(p, op)  BY <1>4 DEF Execute
  <2> QED BY <1>1, <1>4, <2>1, EffectCases DEF Taking, Execute
<1>5. CASE ~InstallFile(p) /\ ~RecordReceipt(p) /\ ~Execute(p)
  BY <1>1, <1>5 DEF Acts, Look, Begins, BeginSetup, BeginRemoval, Begin, Ends, Reviews, Plans, OpenInstaller, machine,
              Closes, CloseInstaller, ExecutionEnds
<1> QED BY <1>2, <1>3, <1>4, <1>5

(* A process comes to verify, or goes on verifying.                        *)
LEMMA AfterActs ==
  ASSUME TypeOK, PhasesOK, NEW p \in Procs, Acts(p), pc'[p] = "after"
  PROVE  /\ UNCHANGED <<machine, command>> /\ revoked'[p] = revoked[p]
         /\ \/ Look(p) /\ pc[p] = "after" /\ look'[p] = look[p] + 1 /\ look[p] \in 1..4
            \/ /\ report' = report /\ look' = look /\ look[p] = 1
               /\ \/ pc[p] = "installer" /\ task[p] = "setup"
                  \/ pc[p] = "execute" /\ task[p] = "remove"
<1> USE TypeParts DEF PhaseTyped, CommandTyped, PhasesOK, PhaseOK, Tasks
<1>1. CASE Look(p) /\ UNCHANGED <<policy, task, written, todo, revoked>>
  <2>1. pc' = pc /\ pc[p] = "after" /\ look'[p] = look[p] + 1 /\ look[p] \in 1..4
    BY <1>1, LooksAre DEF Look
  <2> QED BY <1>1, <2>1 DEF Look, command
<1>2. CASE Closes(p)
  BY <1>2 DEF Closes, CloseInstaller, ExecutionEnds, Goto, command, audit
<1>3. ~(Begins(p) \/ Ends(p) \/ Reviews(p) \/ Plans(p) \/ OpenInstaller(p))
  BY DEF Begins, BeginSetup, BeginRemoval, Begin, Ends, End, Reviews, Plans, OpenInstaller, Goto
<1>4. ~(InstallFile(p) \/ RecordReceipt(p) \/ Execute(p))
  BY DEF InstallFile, RecordReceipt, Execute
<1> QED BY <1>1, <1>2, <1>3, <1>4 DEF Acts

(* Rules that were not made by a policy show in the report.                *)
LEMMA OthersShow ==
  ASSUME TypeOK, EditedOK, PhasesOK, NEW p \in Procs, Look(p), look[p] = 3, elsewhere # {}
  PROVE  ~report'[p].listed \/ \E g \in report'[p].grants : g.command \in {"other", "broad"}
<1>1. \/ report'[p].listed = report[p].listed
      \/ report'[p].grants = Permitted(report[p].by)
  BY LookAdds DEF Adds
<1>2. elsewhere \subseteq Permitted(report[p].by)
  BY DEF Permitted
<1> QED BY <1>1, <1>2 DEF EditedOK, PhasesOK, PhaseOK

--------------------------------------------------------------------------------
(* Who writes what.                                                        *)

LEMMA WrittenActs ==
  ASSUME TypeOK, PhasesOK, CountOK, BuildsOK, WrittenOK, NEW p \in Procs, Acts(p), inTurn' = inTurn
  PROVE  WrittenOK'
<1> USE TypeParts DEF CommandTyped, MachineTyped, PhaseTyped, Busy
<1>1. \A q \in Procs : q # p => policy'[q] = policy[q] /\ written'[q] = written[q]
  BY OthersKeep
<1>2. inTurn => \A q \in Procs : q # p => written[q] = {}
  <2>1. inTurn /\ Begins(p) => \A q \in Procs : pc[q] = "idle"
    BY DEF Begins, BeginSetup, BeginRemoval, Begin
  <2>2. ~Begins(p) => Busy(p)
    BY DEF Acts, Look, Auditing, Ends, Reviews, Plans, Audited, OpenInstaller, Closes,
           CloseInstaller, ExecutionEnds, InstallFile, RecordReceipt, Execute
  <2> QED BY <2>1, <2>2 DEF CountOK, PhasesOK, PhaseOK
<1>3. edits' = edits  BY MachineActs
<1>4. \A q \in Procs : report'[q].receipt \in {report[q].receipt, receipt, None, Unread}
  BY ReportedReceipts
<1>5. \A q \in Procs : policy[q] # Unread  BY Unalike
<1>6. \A q, s \in Procs : policy[s] # None /\ report'[q].receipt = policy[s] => "receipt" \in written[s]
  BY <1>4, <1>5 DEF WrittenOK
<1>7. CASE BeginSetup(p)
  <2>1. /\ policy'[p] \in Policies /\ policy'[p].build = runs + 1
        /\ UNCHANGED <<file, receipt, written>>
    <3>1. policy'[p] \in Policies  BY <1>7, TypeActs, Unalike DEF BeginSetup, Begin, None
    <3> QED BY <1>7, <3>1 DEF BeginSetup, Begin, machine
  <2>2. \A c \in Known : c \in Policies => c.build \in Nat /\ c.build <= runs
    BY Kinds, BuildsAssumption DEF BuildsOK
  <2>3. policy'[p] \notin Known
    BY <2>1, <2>2 DEF CountTyped
  <2>4. /\ receipt # policy'[p] /\ \A a \in Artifacts : file[a] # policy'[p]
        /\ \A q \in Procs : report[q].receipt # policy'[p]
    BY <2>3 DEF Known
  <2>5. \A q \in Procs : report'[q].receipt # policy'[p]
    BY <1>4, <2>1, <2>4, Unalike
  <2>6. written[p] = {}  BY <1>7 DEF BeginSetup, Begin, PhasesOK, PhaseOK
  <2> QED BY <1>1, <1>2, <1>3, <1>6, <2>1, <2>4, <2>5, <2>6 DEF WrittenOK
<1>8. CASE InstallFile(p)
  <2>1. PICK a \in Artifacts \ written[p] :
          file' = [file EXCEPT ![a] = policy[p]] /\ written' = [written EXCEPT ![p] = @ \cup {a}]
    BY <1>8 DEF InstallFile, Put
  <2>2. policy' = policy /\ receipt' = receipt  BY <1>8 DEF InstallFile
  <2>3. \A q \in Procs : q # p => policy[q] = None \/ policy[q] # policy[p]
    BY DEF BuildsOK
  <2>4. policy[p] # None /\ written[p] \subseteq written'[p] /\ a \in written'[p]
    BY <1>8, <2>1 DEF InstallFile, PhasesOK, PhaseOK, Tasks
  <2>5. "receipt" \notin Artifacts  BY DEF Artifacts
  <2>6. "receipt" \in written'[p] => "receipt" \in written[p]
    BY <2>1, <2>5
  <2>7. \A b \in Artifacts : file'[b] = IF b = a THEN policy[p] ELSE file[b]
    BY <2>1
  <2>8. \A b \in written'[p] \cap Artifacts : b = a \/ b \in written[p]
    BY <2>1
  <2> QED BY <1>1, <1>2, <1>3, <1>6, <2>2, <2>3, <2>4, <2>6, <2>7, <2>8 DEF WrittenOK
<1>9. CASE RecordReceipt(p)
  <2>1. /\ receipt' = policy[p] /\ written[p] = Artifacts /\ written'[p] = Artifacts \cup {"receipt"}
        /\ UNCHANGED <<policy, file>>
    BY <1>9 DEF RecordReceipt
  <2>2. \A q \in Procs : q # p => policy[q] = None \/ policy[q] # policy[p]
    BY DEF BuildsOK
  <2>3. "receipt" \notin Artifacts  BY DEF Artifacts
  <2> QED BY <1>1, <1>2, <1>3, <1>6, <2>1, <2>2, <2>3 DEF WrittenOK
<1>10. CASE Execute(p)
  <2>1. /\ \A a \in Artifacts : file'[a] \in {file[a], None}
        /\ receipt' \in {receipt, None}
    <3>1. PICK op \in todo[p] : Effect(p, op)  BY <1>10 DEF Execute
    <3> QED BY <3>1, EffectCases
  <2>2. UNCHANGED <<policy, written>>  BY <1>10 DEF Execute
  <2>3. written[p] = {}  BY <1>10 DEF Execute, PhasesOK, PhaseOK
  <2> QED BY <1>2, <1>6, <2>1, <2>2, <2>3 DEF WrittenOK
<1>11. CASE Ends(p)
  <2>1. policy'[p] = None /\ written'[p] = {} /\ UNCHANGED <<file, receipt>>
    BY <1>11 DEF Ends, End, machine
  <2> QED BY <1>1, <1>3, <1>6, <2>1 DEF WrittenOK
<1>12. CASE Look(p) \/ BeginRemoval(p) \/ Reviews(p) \/ Plans(p) \/ OpenInstaller(p) \/ Closes(p)
  <2>1. UNCHANGED <<policy, written, file, receipt>>
    BY <1>12 DEF Acts, Look, BeginRemoval, Begin, Reviews, Plans, OpenInstaller, Closes, CloseInstaller,
                ExecutionEnds, machine, command,
                Begins, BeginSetup, Ends, InstallFile, RecordReceipt, Execute, Auditing, Audited
  <2> QED BY <1>3, <1>6, <2>1 DEF WrittenOK
<1> QED BY <1>7, <1>8, <1>9, <1>10, <1>11, <1>12 DEF Acts, Begins

LEMMA WrittenEdit == ASSUME TypeOK, WrittenOK, Edit, inTurn' = inTurn PROVE WrittenOK'
<1>1. \A a \in Artifacts : file'[a] \in {file[a]} \cup Others
  BY EditCases, TypeParts DEF MachineTyped, EditsFile, EditsRules, EditsDirectory
<1>2. \A q \in Procs : policy[q] # None => policy[q] \notin Others
  BY TypeParts, Unalike DEF CommandTyped
<1>3. edits' # 0  BY EditCases, TypeParts DEF CountTyped
<1> QED BY <1>1, <1>2, <1>3, EditCases DEF WrittenOK, command, audit

LEMMA EditedActs ==
  ASSUME TypeOK, PhasesOK, EditedOK, NEW p \in Procs, Acts(p), inTurn' = inTurn
  PROVE  EditedOK'
<1> USE TypeParts DEF MachineTyped, CommandTyped
<1>1. elsewhere' = elsewhere /\ edits' = edits  BY MachineActs
<1>2. directory' \in {directory, "safe", "absent"}
  BY MachineActs DEF Adding, Taking
<1>3. \A a \in Artifacts : file'[a] \in {file[a], None} \cup Policies
  BY MachineActs DEF Adding, Taking
<1>4. \A a \in Artifacts : file'[a] = file[a] \/ (file'[a] # Foreign /\ file'[a] \notin Edited)
  BY <1>3, Unalike
<1> QED BY <1>1, <1>2, <1>4 DEF EditedOK

LEMMA EditedEdit == ASSUME TypeOK, EditedOK, Edit, inTurn' = inTurn PROVE EditedOK'
<1>1. edits' # 0  BY EditCases, TypeParts DEF CountTyped
<1>2. \A g \in elsewhere' : g.command \in {"other", "broad"}
  BY EditCases DEF EditsFile, EditsRules, EditsDirectory, EditedOK
<1> QED BY <1>1, <1>2, EditCases DEF EditedOK

LEMMA ManifestActs ==
  ASSUME TypeOK, PhasesOK, ManifestOK, NEW p \in Procs, Acts(p)
  PROVE  ManifestOK'
<1> USE TypeParts DEF MachineTyped, CommandTyped, ReportTyped
<1> DEFINE m == "manifest"
<1>1. m \in Artifacts /\ m \in Configured  BY DEF Artifacts, Configured
<1>2. file'[m] \in {file[m], None} \cup Policies
  BY <1>1, MachineActs DEF Adding, Taking
<1>3. report'[p].file[m] \in {report[p].file[m], file[m], Unread}
  <2>1. CASE Look(p)
    <3>1. Adds(p)  BY <2>1, LookAdds
    <3> QED BY <1>1, <3>1 DEF Adds
  <2>2. CASE Begins(p)
    <3>1. \E b \in Accounts : report'[p] = [NoReport EXCEPT !.by = b]
      BY <2>2 DEF Begins, BeginSetup, BeginRemoval, Begin
    <3> QED BY <1>1, <3>1 DEF NoReport
  <2>3. CASE Ends(p)  BY <1>1, <2>3 DEF Ends, End, NoReport
  <2>4. CASE Reviews(p) \/ Plans(p)
    <3>1. report'[p] = [NoReport EXCEPT !.by = report[p].by]
      BY <2>4 DEF Reviews, Plans, Forget
    <3> QED BY <1>1, <3>1 DEF NoReport
  <2>5. CASE OpenInstaller(p) \/ Closes(p) \/ InstallFile(p) \/ RecordReceipt(p) \/ Execute(p)
    BY <2>5 DEF OpenInstaller, Closes, CloseInstaller, ExecutionEnds, InstallFile, RecordReceipt,
                Execute, audit
  <2> QED BY <2>1, <2>2, <2>3, <2>4, <2>5 DEF Acts
<1>4. \A q \in Procs : q # p => report'[q] = report[q]  BY OthersKeep
<1>5. /\ None.is \notin {"legacy", "edited"} /\ Unread.is \notin {"legacy", "edited"}
      /\ \A c \in Policies : c.is \notin {"legacy", "edited"}
  BY Kinds
<1> QED BY <1>2, <1>3, <1>4, <1>5 DEF ManifestOK

LEMMA ManifestEdit == ASSUME TypeOK, ManifestOK, Edit PROVE ManifestOK'
<1>1. file'["manifest"] \in {file["manifest"], None, Foreign}
  BY EditCases, TypeParts DEF MachineTyped, EditsFile, EditsRules, EditsDirectory, Artifacts
<1> QED BY <1>1, Kinds, EditCases DEF ManifestOK, audit

--------------------------------------------------------------------------------
(* What setup verifies.                                                    *)

(* A policy's rules are exactly its account's, if no others are in force.  *)
LEMMA PolicyPermits ==
  ASSUME NEW p \in Procs, policy[p] \in Policies, elsewhere = {},
         \A a \in Artifacts : file[a] = policy[p]
  PROVE  InForce(p)
<1>1. file["sudoers"] = policy[p] /\ file["tombstone"] = policy[p]
  BY DEF Artifacts
<1>2. policy[p].is = "policy" /\ policy[p] # Legacy
  BY Kinds
<1>3. EditedRules = {}  BY <1>1, <1>2, NoEditedRules
<1> QED BY <1>1, <1>2, <1>3 DEF Permitted, InForce

(* With its receipt, a setup that has not held lacks one or the other.     *)
LEMMA NotInstalled ==
  ASSUME NEW p \in Procs, receipt = policy[p], inTurn, ~Installed(p)
  PROVE  ~InPlace(p) \/ ~InForce(p)
BY DEF Installed, InPlace, InForce, Configured

LEMMA NotInstalledNext ==
  ASSUME NEW p \in Procs, receipt' = policy'[p], inTurn', ~Installed(p)'
  PROVE  ~InPlace(p)' \/ ~InForce(p)'
BY DEF Installed, InPlace, InForce, Configured

(* In turn, what a look of a setup makes of it.                            *)
LEMMA SetupLooks ==
  ASSUME TypeOK, PhasesOK, NEW p \in Procs, Look(p), look'[p] = look[p] + 1, look[p] \in 1..4,
         policy' = policy, policy[p] \in Policies, edits' = edits,
         ~InPlace(p) \/ ~InForce(p),
         look[p] > 1 => \/ SeenAmiss(p)
                        \/ look[p] <= 3 /\ ~InForce(p) /\ (edits = 2 \/ InPlace(p))
  PROVE  SeenAmiss(p)' \/ (look'[p] <= 3 /\ ~InForce(p)' /\ (edits' = 2 \/ InPlace(p)'))
<1>1. Adds(p)  BY LookAdds
<1>2. UNCHANGED <<file, elsewhere>>  BY DEF Look, machine
<1>3. InForce(p)' = InForce(p)  BY <1>2, PermittedSame DEF InForce
<1>4. InPlace(p)' = InPlace(p)  BY <1>2 DEF InPlace
<1>5. CASE look[p] = 1
  <2>1. ASSUME NEW a \in Configured, file[a] # policy[p] PROVE report'[p].file[a] # policy'[p]
    BY <1>1, <1>5, <2>1, Unalike DEF Adds
  <2>2. ~InPlace(p) => SeenAmiss(p)'  BY <2>1 DEF InPlace, SeenAmiss
  <2> QED BY <1>3, <1>4, <1>5, <2>2
<1>6. CASE look[p] > 1 /\ \E a \in Configured : report[p].file[a] # policy[p]
  BY <1>1, <1>6 DEF Adds, SeenAmiss
<1>7. CASE look[p] > 3 /\ SeenAmiss(p) /\ ~\E a \in Configured : report[p].file[a] # policy[p]
  <2>1. /\ report'[p].listed = report[p].listed /\ report'[p].grants = report[p].grants
        /\ report'[p].by = report[p].by /\ look'[p] > 3
    BY <1>1, <1>7 DEF Adds
  <2> QED BY <1>7, <2>1 DEF SeenAmiss
<1>8. CASE look[p] = 2 /\ ~InForce(p) /\ (edits = 2 \/ InPlace(p))
  BY <1>3, <1>4, <1>8
<1>9. CASE look[p] = 3 /\ ~InForce(p)
  <2>1. \/ report'[p].listed = report[p].listed
        \/ report'[p].grants = Permitted(report[p].by)
    BY <1>1, <1>9 DEF Adds
  <2>2. report'[p].by = report[p].by /\ look'[p] > 3  BY <1>1, <1>9 DEF Adds
  <2>3. ~report[p].listed  BY <1>9 DEF PhasesOK, PhaseOK
  <2> QED BY <1>9, <2>1, <2>2, <2>3 DEF SeenAmiss, InForce
<1> QED BY <1>5, <1>6, <1>7, <1>8, <1>9 DEF SeenAmiss

LEMMA SetupActs ==
  ASSUME TypeOK, PhasesOK, CountOK, BuildsOK, WrittenOK, HeldOK', EditedOK, SetupOK,
         NEW p \in Procs, Acts(p), Witness, inTurn' = inTurn
  PROVE  SetupOK'
<1> USE TypeParts DEF PhaseTyped, CommandTyped, MachineTyped, Tasks
<1> SUFFICES ASSUME NEW q \in Procs, pc'[q] = "after", task'[q] = "setup", Signed(q)'
             PROVE  /\ "receipt" \in written'[q]
                    /\ inTurn => /\ receipt' = policy'[q]
                                 /\ look'[q] > 1 => \A a \in Configured :
                                      report'[q].file[a] \in {policy'[q], Unread} \cup Others
                    /\ ~held'[q] /\ inTurn /\ look'[q] > 1 /\ edits' <= 2 =>
                         \/ SeenAmiss(q)'
                         \/ look'[q] <= 3 /\ ~InForce(q)' /\ (edits' = 2 \/ InPlace(q)')
                    /\ ~held'[q] /\ ~inTurn /\ look'[q] > 1 => report'[q].file["manifest"] # policy'[q]
  BY DEF SetupOK
<1>1. ~held'[q] => ~Installed(q)' /\ (pc[q] = "after" => ~held[q])
  BY WitnessOK DEF Verifying
<1>2. CASE q # p
  <2>1. /\ pc[q] = "after" /\ task[q] = "setup" /\ policy'[q] = policy[q] /\ written'[q] = written[q]
        /\ report'[q] = report[q] /\ look'[q] = look[q]
    BY <1>2, OthersKeep
  <2>2. ~inTurn  BY <1>2, <2>1, OneActs DEF Busy
  <2>3. policy[q] # None /\ policy[q] # policy[p]
    BY <1>2, <2>1 DEF PhasesOK, PhaseOK, Busy, BuildsOK
  <2>4. receipt' = policy[q] => receipt = policy[q]
    BY <2>3, MachineActs DEF Adding, Taking
  <2>5. Signed(q)  BY <2>1, <2>4 DEF Signed
  <2> QED BY <1>1, <2>1, <2>2, <2>5 DEF SetupOK
<1>3. CASE q = p
  <2>1. /\ UNCHANGED <<machine, command>>
        /\ \/ Look(p) /\ pc[p] = "after" /\ look'[p] = look[p] + 1 /\ look[p] \in 1..4
           \/ report' = report /\ look' = look /\ look[p] = 1 /\ pc[p] = "installer"
    BY <1>3, AfterActs DEF command
  <2>2. /\ policy' = policy /\ written' = written /\ receipt' = receipt /\ file' = file
        /\ elsewhere' = elsewhere /\ task' = task
    BY <2>1 DEF machine, command
  <2>3. policy[p] \in Policies /\ policy[p] # None /\ policy[p] # Unread
    BY <1>3, <2>1, <2>2, Unalike DEF PhasesOK, PhaseOK, Busy
  <2>4. edits' = edits  BY MachineActs
  <2>5. CASE pc[p] = "installer" /\ report' = report /\ look' = look /\ look[p] = 1
    <3>1. receipt = policy[p]  BY <1>3, <2>2, <2>5 DEF Signed
    <3>2. "receipt" \in written[p]  BY <2>3, <3>1 DEF WrittenOK
    <3> QED BY <1>3, <2>2, <2>5, <3>1, <3>2
  <2>6. CASE Look(p) /\ pc[p] = "after" /\ look'[p] = look[p] + 1 /\ look[p] \in 1..4
    <3>1. Adds(p)  BY <2>6, LookAdds
    <3>2. Signed(p)  BY <1>3, <2>2, <2>3, <2>6, <3>1 DEF Signed, Adds
    <3>3. /\ "receipt" \in written[p] /\ Artifacts \subseteq written[p]
          /\ inTurn => /\ receipt = policy[p]
                       /\ look[p] > 1 => \A a \in Configured :
                            report[p].file[a] \in {policy[p], Unread} \cup Others
          /\ ~held[p] /\ inTurn /\ look[p] > 1 /\ edits <= 2 =>
               \/ SeenAmiss(p)
               \/ look[p] <= 3 /\ ~InForce(p) /\ (edits = 2 \/ InPlace(p))
          /\ ~held[p] /\ ~inTurn /\ look[p] > 1 => report[p].file["manifest"] # policy[p]
      BY <1>3, <2>2, <2>6, <3>2 DEF SetupOK, WrittenOK
    <3>4. \A a \in Configured :
            /\ look[p] = 1 => report'[p].file[a] \in {file[a], Unread}
            /\ look[p] > 1 => report'[p].file[a] = report[p].file[a]
      BY <2>6, <3>1 DEF Adds
    <3>5. inTurn => \A a \in Configured : file[a] \in {policy[p]} \cup Others
      BY <3>3 DEF WrittenOK, Configured, Artifacts
    <3>6. inTurn => \A a \in Configured : report'[p].file[a] \in {policy[p], Unread} \cup Others
      <4> SUFFICES ASSUME inTurn, NEW a \in Configured
                   PROVE  report'[p].file[a] \in {policy[p], Unread} \cup Others
        OBVIOUS
      <4>1. CASE look[p] = 1
        <5>1. report'[p].file[a] \in {file[a], Unread}  BY <3>4, <4>1
        <5> QED BY <3>5, <5>1
      <4>2. CASE look[p] > 1
        <5>1. report'[p].file[a] = report[p].file[a]  BY <3>4, <4>2
        <5>2. report[p].file[a] \in {policy[p], Unread} \cup Others  BY <3>3, <4>2
        <5> QED BY <5>1, <5>2
      <4> QED BY <2>6, <4>1, <4>2
    <3>7. ASSUME ~held'[p], inTurn, edits <= 2
          PROVE  \/ SeenAmiss(p)'
                 \/ look'[p] <= 3 /\ ~InForce(p)' /\ (edits' = 2 \/ InPlace(p)')
      <4>1. ~Installed(p)' /\ ~held[p]  BY <1>1, <1>3, <2>6, <3>7
      <4>2. ~InPlace(p)' \/ ~InForce(p)'  BY <2>2, <3>3, <3>7, <4>1, NotInstalledNext
      <4>3. ~InPlace(p) \/ ~InForce(p)
        BY <2>2, <4>2, PermittedSame DEF InPlace, InForce
      <4> QED BY <2>2, <2>3, <2>4, <2>6, <3>3, <3>7, <4>1, <4>3, SetupLooks
    <3>8. ~held'[p] /\ ~inTurn => report'[p].file["manifest"] # policy[p]
      <4> SUFFICES ASSUME ~held'[p], ~inTurn PROVE report'[p].file["manifest"] # policy[p]
        OBVIOUS
      <4>1. CASE look[p] > 1
        BY <4>1, <1>1, <1>3, <2>6, <3>3, <3>4 DEF Configured
      <4>2. CASE look[p] = 1
        <5>1. receipt = policy[p]  BY <4>2, <3>2 DEF Signed
        <5>2. file["manifest"] # policy[p]  BY <5>1, <1>1, <1>3, <2>2 DEF Installed
        <5> QED BY <5>2, <4>2, <3>4, <2>3 DEF Configured
      <4> QED BY <4>1, <4>2, <2>6
    <3> QED BY <1>1, <1>3, <2>2, <2>4, <2>6, <3>3, <3>6, <3>7, <3>8
  <2> QED BY <2>1, <2>5, <2>6
<1> QED BY <1>2, <1>3

LEMMA SetupEdit ==
  ASSUME TypeOK, PhasesOK, WrittenOK, EditedOK, SetupOK, HeldOK', Edit, Witness, inTurn' = inTurn
  PROVE  SetupOK'
<1> SUFFICES ASSUME NEW q \in Procs, pc'[q] = "after", task'[q] = "setup", Signed(q)'
             PROVE  /\ "receipt" \in written'[q]
                    /\ receipt' = policy'[q]
                    /\ look'[q] > 1 => \A a \in Configured :
                         report'[q].file[a] \in {policy'[q], Unread} \cup Others
                    /\ ~held'[q] /\ look'[q] > 1 /\ edits' <= 2 =>
                         \/ SeenAmiss(q)'
                         \/ look'[q] <= 3 /\ ~InForce(q)' /\ (edits' = 2 \/ InPlace(q)')
  BY EditCases DEF SetupOK
<1>1. /\ UNCHANGED <<receipt, policy, written, task, report, look, pc>>
      /\ inTurn /\ edits' = edits + 1
  BY EditCases DEF command, audit
<1>2. pc[q] = "after" /\ task[q] = "setup" /\ Signed(q)
  BY <1>1 DEF Signed
<1>3. "receipt" \in written[q] /\ receipt = policy[q] /\ Artifacts \subseteq written[q]
  BY <1>1, <1>2 DEF SetupOK, WrittenOK
<1>4. ASSUME ~held'[q], look[q] > 1, edits' <= 2
      PROVE  \/ SeenAmiss(q)'
             \/ look'[q] <= 3 /\ ~InForce(q)' /\ (edits' = 2 \/ InPlace(q)')
  <2>1. ~held[q] /\ ~Installed(q)'  BY <1>1, <1>2, <1>4, WitnessOK DEF Verifying
  <2>2. edits \in Nat /\ edits <= 1
    BY <1>1, <1>4, TypeParts, BuildsAssumption DEF CountTyped
  <2>3. \/ SeenAmiss(q)
        \/ look[q] <= 3 /\ ~InForce(q) /\ InPlace(q)
    BY <1>1, <1>2, <1>4, <2>1, <2>2 DEF SetupOK
  <2>4. CASE SeenAmiss(q)  BY <1>1, <2>4 DEF SeenAmiss
  <2>5. CASE look[q] <= 3 /\ ~InForce(q) /\ InPlace(q)
    <3>1. policy[q] \in Policies
      BY <1>2, TypeParts DEF CommandTyped, PhasesOK, PhaseOK, Busy
    <3>2. edits # 0
      <4> SUFFICES ASSUME edits = 0 PROVE FALSE
        OBVIOUS
      <4>1. \A a \in Artifacts : file[a] = policy[q]  BY <1>1, <1>3 DEF WrittenOK
      <4>2. elsewhere = {}  BY DEF EditedOK
      <4> QED BY <2>5, <3>1, <4>1, <4>2, PolicyPermits
    <3>3. ~InForce(q)'
      <4> SUFFICES ASSUME InForce(q)' PROVE FALSE
        OBVIOUS
      <4>1. ~InPlace(q)'  BY <1>1, <1>3, <2>1, EditCases, NotInstalledNext
      <4>2. PICK a \in Configured : file'[a] # file[a]
        BY <1>1, <2>5, <4>1 DEF InPlace
      <4>3. EditsFile  BY <4>2, EditCases DEF EditsRules, EditsDirectory
      <4>4. PICK b \in Artifacts, c \in Others : file' = [file EXCEPT ![b] = c]
        BY <4>3 DEF EditsFile
      <4>5. b \in Configured  BY <4>2, <4>4, TypeParts DEF MachineTyped
      <4>6. file'["sudoers"] = file["sudoers"] /\ file'["tombstone"] = file["tombstone"]
        BY <4>4, <4>5, TypeParts DEF MachineTyped, Configured, Artifacts
      <4>7. elsewhere' = elsewhere  BY <4>3 DEF EditsFile
      <4> QED BY <1>1, <2>5, <4>6, <4>7, PermittedSame DEF InForce
    <3> QED BY <1>1, <1>4, <2>2, <2>5, <3>2, <3>3
  <2> QED BY <2>3, <2>4, <2>5
<1> QED BY <1>1, <1>2, <1>3, <1>4 DEF SetupOK

--------------------------------------------------------------------------------
(* What removal removes, in turn.                                          *)

LEMMA BeforeActs ==
  ASSUME TypeOK, PhasesOK, CountOK, BeforeOK, NEW p \in Procs, Acts(p), Witness, inTurn' = inTurn
  PROVE  BeforeOK'
<1> USE TypeParts DEF PhaseTyped, ReportTyped, MachineTyped
<1> SUFFICES ASSUME NEW q \in Procs, inTurn, pc'[q] = "before"
             PROVE  /\ \A a \in Artifacts : look'[q] > LookAt(a) =>
                         file'[a] \in Others \/ report'[q].file[a] \in {file'[a], Unread}
                    /\ look'[q] > 4 => \/ report'[q].receipt = receipt'
                                       \/ report'[q].receipt = None /\ missed'[q]
  BY DEF BeforeOK, LookAt
<1>1. q = p  BY OthersKeep, OneActs DEF Busy
<1>2. Begins(p) \/ Look(p)
  <2>1. ~(Ends(p) \/ Reviews(p) \/ Plans(p) \/ OpenInstaller(p) \/ Closes(p))
    BY <1>1 DEF Ends, End, Reviews, Plans, OpenInstaller, Goto, Closes, CloseInstaller, ExecutionEnds
  <2>2. ~(InstallFile(p) \/ RecordReceipt(p) \/ Execute(p))
    BY <1>1 DEF InstallFile, RecordReceipt, Execute
  <2> QED BY <2>1, <2>2 DEF Acts
<1>3. CASE Begins(p)
  <2>1. look'[p] = 1  BY <1>3 DEF Begins, BeginSetup, BeginRemoval, Begin
  <2> QED BY <1>1, <2>1 DEF LookAt
<1>4. CASE Look(p)
  <2>1. /\ look'[p] = look[p] + 1 /\ look[p] \in 1..4 /\ pc[p] = "before"
        /\ file' = file /\ receipt' = receipt
    BY <1>1, <1>4, LooksAre DEF Look, machine
  <2>2. Adds(p)  BY <1>4, LookAdds
  <2>3. \A a \in Artifacts :
          /\ look[p] > LookAt(a) => report'[p].file[a] = report[p].file[a]
          /\ look[p] = LookAt(a) => report'[p].file[a] \in {file[a], Unread}
    BY <2>2 DEF Adds, LookAt, Artifacts, Configured, Ruled
  <2>4. \A a \in Artifacts : look'[p] > LookAt(a) => look[p] > LookAt(a) \/ look[p] = LookAt(a)
    BY <2>1 DEF LookAt
  <2>5. look'[p] > 4 => report'[p].receipt = receipt \/ (report'[p].receipt = None /\ missed'[p])
    <3> SUFFICES ASSUME look'[p] > 4, report'[p].receipt # receipt
                 PROVE  report'[p].receipt = None /\ missed'[p]
      OBVIOUS
    <3>1. look[p] = 4  BY <2>1
    <3>2. report'[p].receipt = None  BY <2>2, <3>1 DEF Adds
    <3>3. Misses(p)  BY <2>1, <3>1 DEF Misses
    <3> QED BY <1>1, <3>2, <3>3, WitnessOK
  <2>6. \A a \in Artifacts : look[p] > LookAt(a) =>
          file[a] \in Others \/ report[p].file[a] \in {file[a], Unread}
    BY <2>1 DEF BeforeOK
  <2> QED BY <1>1, <2>1, <2>3, <2>4, <2>5, <2>6
<1> QED BY <1>2, <1>3, <1>4

LEMMA BeforeEdit ==
  ASSUME TypeOK, BeforeOK, Edit, Witness, inTurn' = inTurn
  PROVE  BeforeOK'
<1>1. \A a \in Artifacts : file'[a] \in {file[a]} \cup Others
  BY EditCases, TypeParts DEF MachineTyped, EditsFile, EditsRules, EditsDirectory
<1>2. \A p \in Procs : missed[p] /\ pc[p] = "before" => missed'[p]
  BY EditCases, WitnessOK
<1> QED BY <1>1, <1>2, EditCases DEF BeforeOK, LookAt, audit

(* A plan takes away all that is there.                                    *)
LEMMA PlanTakesAll ==
  ASSUME TypeOK, BeforeOK, NEW p \in Procs, Plans(p), inTurn
  PROVE  /\ \A a \in Artifacts \ Operations(report[p]) : file[a] \in Others
         /\ "forget" \notin Operations(report[p]) => receipt = None \/ missed[p]
         /\ file["manifest"].is = "policy" => file["manifest"].account = report[p].by
<1> USE TypeParts DEF MachineTyped, ReportTyped, PhaseTyped
<1> DEFINE r == report[p]
<1>1. /\ pc[p] = "before" /\ look[p] > 4 /\ Removable(r)
  BY LooksAre DEF Plans, Audited
<1>2. r \in Reports /\ \A a \in Artifacts : r.file[a] \in Contents \cup {Unread}
  BY DEF Reports
<1>3. Secure(r)
  BY <1>1 DEF Removable, Preflight
<1>4. \A a \in Artifacts : r.file[a] # Unread  BY <1>3 DEF Secure
<1>5. \A a \in Artifacts : file[a] \in Others \/ r.file[a] = file[a]
  <2>1. \A a \in Artifacts : look[p] > LookAt(a)  BY <1>1 DEF LookAt
  <2> QED BY <1>1, <1>4, <2>1 DEF BeforeOK
<1>6. \A a \in Artifacts \ Operations(r) : r.file[a] = None
  <2>1. \A a \in Artifacts \ Operations(r) : ~Here(r, a)  BY DEF Operations
  <2> QED BY <1>2, <1>4, <2>1, Unalike DEF Here
<1>7. "forget" \notin Operations(r) => receipt = None \/ missed[p]
  <2>1. "forget" \notin Operations(r) => r.receipt = None  BY DEF Operations
  <2> QED BY <1>1, <2>1 DEF BeforeOK
<1>8. file["manifest"].is = "policy" => file["manifest"].account = r.by
  <2>1. "manifest" \in Artifacts  BY DEF Artifacts
  <2>2. file["manifest"].is = "policy" => r.file["manifest"] = file["manifest"]
    BY <2>1, <1>5, Unalike DEF Others
  <2> QED BY <2>2, <1>1 DEF Removable, Managed
<1> QED BY <1>5, <1>6, <1>7, <1>8, Unalike

LEMMA RemovalActs ==
  ASSUME TypeOK, PhasesOK, CountOK, BeforeOK, RemovalOK, NEW p \in Procs, Acts(p), Witness,
         inTurn' = inTurn
  PROVE  RemovalOK'
<1> USE TypeParts DEF PhaseTyped, ReportTyped, MachineTyped, CommandTyped
<1> SUFFICES ASSUME NEW q \in Procs, inTurn, task'[q] = "remove", pc'[q] \in {"execute", "after"}
             PROVE  /\ \A a \in Artifacts \ todo'[q] : file'[a] \in Others
                    /\ "forget" \notin todo'[q] => receipt' = None \/ missed'[q]
                    /\ file'["manifest"].is = "policy" => file'["manifest"].account = report'[q].by
  BY DEF RemovalOK
<1>1. q = p  BY OthersKeep, OneActs DEF Busy
<1>2. task'[p] = "remove" /\ pc'[p] \in {"execute", "after"}  BY <1>1
<1>3. missed[p] => missed'[p]  BY <1>2, WitnessOK
<1>4. CASE Plans(p)
  <2>1. /\ todo'[p] = Operations(report[p]) /\ file' = file /\ receipt' = receipt
    BY <1>4 DEF Plans, machine
  <2>2. report'[p].by = report[p].by
    BY <1>4, ByOK, NoReportIs DEF Plans, Forget
  <2> QED BY <1>1, <1>3, <1>4, <2>1, <2>2, PlanTakesAll
<1>5. CASE Execute(p)
  <2>1. PICK op \in todo[p] : Effect(p, op) /\ todo' = [todo EXCEPT ![p] = @ \ {op}]
    BY <1>5 DEF Execute
  <2>2. task[p] = "remove" /\ pc[p] = "execute" /\ report' = report
    BY <1>2, <1>5 DEF Execute, audit
  <2>3. \A a \in Artifacts : file'[a] = IF a = op THEN None ELSE file[a]
    BY <2>1, EffectCases DEF Artifacts
  <2>4. receipt' = IF op = "forget" THEN None ELSE receipt
    BY <2>1, EffectCases DEF Artifacts
  <2>5. todo'[p] = todo[p] \ {op}  BY <2>1
  <2>6. "manifest" \in Artifacts /\ None.is # "policy" /\ None \in Others
    BY Kinds, Unalike DEF Artifacts
  <2> QED BY <1>1, <1>3, <2>2, <2>3, <2>4, <2>5, <2>6 DEF RemovalOK
<1>6. CASE ~Plans(p) /\ ~Execute(p)
  <2>1. ~(Begins(p) \/ Ends(p) \/ Reviews(p) \/ OpenInstaller(p))
    BY <1>2 DEF Begins, BeginSetup, BeginRemoval, Begin, Ends, End, Reviews, OpenInstaller, Goto
  <2>2. ~(InstallFile(p) \/ RecordReceipt(p))
    BY <1>2 DEF InstallFile, RecordReceipt
  <2>3. Look(p) \/ Closes(p)  BY <1>6, <2>1, <2>2 DEF Acts
  <2>4. pc'[p] = "after"
    BY <1>2, <2>3 DEF Look, Auditing, Closes, CloseInstaller, ExecutionEnds, Goto
  <2>5. UNCHANGED <<machine, command>> /\ (pc[p] = "execute" \/ pc[p] = "after")
    BY <2>4, <1>2, AfterActs DEF command
  <2>6. report'[p].by = report[p].by
    <3>1. CASE Look(p)  BY <3>1, LookAdds DEF Adds
    <3>2. CASE Closes(p)  BY <3>2 DEF Closes, CloseInstaller, ExecutionEnds, audit
    <3> QED BY <2>3, <3>1, <3>2
  <2> QED BY <1>1, <1>2, <1>3, <2>5, <2>6 DEF RemovalOK, machine, command
<1> QED BY <1>4, <1>5, <1>6

LEMMA RemovalEdit ==
  ASSUME TypeOK, RemovalOK, Edit, Witness, inTurn' = inTurn
  PROVE  RemovalOK'
<1>1. \A a \in Artifacts : file'[a] \in {file[a]} \cup Others
  BY EditCases, TypeParts DEF MachineTyped, EditsFile, EditsRules, EditsDirectory
<1>2. file'["manifest"] = file["manifest"] \/ file'["manifest"].is # "policy"
  <2>1. file'["manifest"] \in {file["manifest"]} \cup Others  BY <1>1 DEF Artifacts
  <2> QED BY <2>1, Kinds DEF Others
<1>3. \A p \in Procs : missed[p] /\ pc[p] \in {"execute", "after"} => missed'[p]
  BY EditCases, WitnessOK
<1> QED BY <1>1, <1>2, <1>3, EditCases DEF RemovalOK, command, audit

(* What a look has seen stays seen.                                        *)
LEMMA SeenStays ==
  ASSUME TypeOK, NEW p \in Procs, Look(p), Seen(p), look[p] \in 1..4, look'[p] = look[p] + 1
  PROVE  Seen(p)'
<1>1. Adds(p)  BY LookAdds
<1>2. look[p] > 1 => /\ report'[p].paths = report[p].paths
                     /\ \A a \in Configured : report'[p].file[a] = report[p].file[a]
  BY <1>1 DEF Adds
<1>3. look[p] > 2 => \A a \in Ruled : report'[p].file[a] = report[p].file[a]
  BY <1>1 DEF Adds
<1>4. look[p] > 3 => report'[p].listed = report[p].listed /\ report'[p].grants = report[p].grants
  BY <1>1 DEF Adds
<1>5. look[p] <= 4
  OBVIOUS
<1>6. CASE look[p] > 1 /\ (report[p].paths # "absent" \/ \E a \in Configured : report[p].file[a] # None)
  BY <1>2, <1>6 DEF Seen
<1>7. CASE look[p] > 2 /\ \E a \in Ruled : report[p].file[a] # None
  BY <1>3, <1>7 DEF Seen
<1>8. CASE look[p] > 3 /\ (~report[p].listed \/ \E g \in report[p].grants : g.command \in {"other", "broad"})
  BY <1>4, <1>8 DEF Seen
<1> QED BY <1>5, <1>6, <1>7, <1>8 DEF Seen

(* What is left where one looks is seen.                                   *)
LEMMA LookSees ==
  ASSUME TypeOK, NEW p \in Procs, Look(p), look'[p] = look[p] + 1
  PROVE  /\ look[p] = 1 /\ ~Clear => Seen(p)'
         /\ look[p] = 2 /\ (\E a \in Ruled : file[a] # None) => Seen(p)'
<1>1. Adds(p)  BY LookAdds
<1>2. ASSUME look[p] = 1, ~Clear PROVE Seen(p)'
  <2>1. report'[p].paths # "absent" \/ \E a \in Configured : report'[p].file[a] # None
    <3>1. CASE directory # "absent"  BY <1>1, <1>2, <3>1 DEF Adds
    <3>2. CASE directory = "absent"
      <4>1. PICK a \in Configured : file[a] # None  BY <1>2, <3>2 DEF Clear
      <4>2. report'[p].file[a] = file[a]  BY <1>1, <1>2, <3>2 DEF Adds
      <4> QED BY <4>1, <4>2
    <3> QED BY <3>1, <3>2
  <2> QED BY <1>2, <2>1 DEF Seen
<1>3. ASSUME look[p] = 2, NEW a \in Ruled, file[a] # None PROVE Seen(p)'
  <2>1. report'[p].file[a] = file[a]  BY <1>1, <1>3 DEF Adds
  <2> QED BY <1>3, <2>1 DEF Seen
<1> QED BY <1>2, <1>3

(* With files and directory gone, only other rules can be left, or a       *)
(* receipt that was not missed.                                            *)
LEMMA NothingLeft ==
  ASSUME NEW p \in Procs, Clear, receipt = None \/ missed[p], \A a \in Ruled : file[a] = None,
         elsewhere = {}
  PROVE  Gone(p)
<1>1. \A a \in Artifacts : file[a] = None  BY DEF Clear, Artifacts, Configured, Ruled
<1>2. file["sudoers"] = None /\ file["tombstone"] = None  BY <1>1 DEF Artifacts
<1>3. EditedRules = {}  BY <1>2, Kinds, NoEditedRules
<1>4. Permitted(report[p].by) = {}  BY <1>2, <1>3, Unalike, Kinds DEF Permitted
<1> QED BY <1>1, <1>4 DEF Gone, Clear

LEMMA NothingLeftNext ==
  ASSUME NEW p \in Procs, Clear', receipt' = None \/ missed'[p], \A a \in Ruled : file'[a] = None,
         elsewhere' = {}
  PROVE  Gone(p)'
<1>1. \A a \in Artifacts : file'[a] = None  BY DEF Clear, Artifacts, Configured, Ruled
<1>2. file'["sudoers"] = None /\ file'["tombstone"] = None  BY <1>1 DEF Artifacts
<1>3. EditedRules' = {}  BY <1>2, Kinds DEF EditedRules
<1>4. Permitted(report[p].by)' = {}  BY <1>2, <1>3, Unalike, Kinds DEF Permitted
<1> QED BY <1>1, <1>4 DEF Gone, Clear

LEMMA InTurnActs ==
  ASSUME TypeOK, PhasesOK, CountOK, EditedOK, HeldOK', RemovalOK, InTurnOK,
         NEW p \in Procs, Acts(p), Witness, inTurn' = inTurn
  PROVE  InTurnOK'
<1> USE TypeParts DEF PhaseTyped
<1> SUFFICES ASSUME NEW q \in Procs, inTurn, Verified(q)', look'[q] > 1, edits' <= 2
             PROVE  \/ Seen(q)'
                    \/ look'[q] <= 3 /\ elsewhere' # {}
                    \/ look'[q] = 2 /\ (edits' = 2 \/ Clear') /\ \E a \in Ruled : file'[a] # None
  BY DEF InTurnOK
<1>1. q = p  BY OthersKeep, OneActs DEF Busy, Verified
<1>2. pc'[p] = "after" /\ task'[p] = "remove" /\ todo'[p] = {} /\ ~held'[p]
  BY <1>1 DEF Verified
<1>3. /\ UNCHANGED <<machine, command>> /\ Look(p) /\ pc[p] = "after"
      /\ look'[p] = look[p] + 1 /\ look[p] \in 1..4
  BY <1>1, <1>2, AfterActs
<1>4. /\ UNCHANGED <<file, directory, receipt, elsewhere>>
      /\ task[p] = "remove" /\ todo[p] = {}
  BY <1>2, <1>3 DEF machine, command
<1>5. ~held[p] /\ ~Gone(p)' /\ (missed[p] => missed'[p]) /\ edits' = edits
  BY <1>2, <1>3, WitnessOK, MachineActs DEF HeldOK, Verifying
<1>6. Verified(p) /\ (receipt = None \/ missed[p])
  BY <1>3, <1>4, <1>5 DEF Verified, RemovalOK
<1>7. Clear' = Clear  BY <1>4 DEF Clear
<1>8. CASE look[p] = 1
  <2>1. CASE ~Clear  BY <1>1, <1>3, <1>8, <2>1, LookSees
  <2>2. CASE Clear
    <3>1. elsewhere # {} \/ \E a \in Ruled : file[a] # None
      <4> SUFFICES ASSUME elsewhere = {}, \A a \in Ruled : file[a] = None PROVE FALSE
        OBVIOUS
      <4>1. /\ receipt' = None \/ missed'[p]
            /\ Clear' /\ elsewhere' = {} /\ \A a \in Ruled : file'[a] = None
        BY <1>4, <1>5, <1>6, <1>7, <2>2
      <4>2. Gone(p)'  BY <4>1, NothingLeftNext
      <4> QED BY <4>2, <1>5
    <3> QED BY <1>1, <1>3, <1>4, <1>7, <1>8, <2>2, <3>1
  <2> QED BY <2>1, <2>2
<1>9. CASE look[p] > 1
  <2>1. \/ Seen(p)
        \/ look[p] <= 3 /\ elsewhere # {}
        \/ look[p] = 2 /\ \E a \in Ruled : file[a] # None
    BY <1>1, <1>4, <1>5, <1>6, <1>9 DEF InTurnOK
  <2>2. CASE Seen(p)  BY <1>1, <1>3, <2>2, SeenStays
  <2>3. CASE look[p] = 2 /\ \E a \in Ruled : file[a] # None  BY <1>1, <1>3, <2>3, LookSees
  <2>4. CASE look[p] = 2 /\ elsewhere # {}  BY <1>1, <1>3, <1>4, <2>4
  <2>5. CASE look[p] = 3 /\ elsewhere # {}
    <3>1. ~report'[p].listed \/ \E g \in report'[p].grants : g.command \in {"other", "broad"}
      BY <1>3, <2>5, OthersShow
    <3>2. look'[p] > 3  BY <1>3, <2>5
    <3> QED BY <1>1, <3>1, <3>2 DEF Seen
  <2> QED BY <1>3, <1>9, <2>1, <2>2, <2>3, <2>4, <2>5
<1> QED BY <1>3, <1>8, <1>9

LEMMA InTurnEdit ==
  ASSUME TypeOK, EditedOK, HeldOK', RemovalOK, InTurnOK, Edit, Witness, inTurn' = inTurn
  PROVE  InTurnOK'
<1> USE TypeParts DEF CountTyped
<1> SUFFICES ASSUME NEW q \in Procs, inTurn, Verified(q)', look'[q] > 1, edits' <= 2
             PROVE  \/ Seen(q)'
                    \/ look'[q] <= 3 /\ elsewhere' # {}
                    \/ look'[q] = 2 /\ (edits' = 2 \/ Clear') /\ \E a \in Ruled : file'[a] # None
  BY DEF InTurnOK
<1>1. /\ UNCHANGED <<receipt, task, todo, report, look, pc, revoked>> /\ edits' = edits + 1
  BY EditCases DEF command, audit
<1>2. pc'[q] = "after" /\ task'[q] = "remove" /\ todo'[q] = {} /\ ~held'[q]
  BY DEF Verified
<1>3. ~held[q] /\ ~Gone(q)' /\ (missed[q] => missed'[q])
  BY <1>1, <1>2, WitnessOK DEF HeldOK, Verifying
<1>4. Verified(q) /\ (receipt' = None \/ missed'[q])
  BY <1>1, <1>2, <1>3 DEF Verified, RemovalOK
<1>5. \/ Seen(q)
      \/ look[q] <= 3 /\ elsewhere # {}
      \/ look[q] = 2 /\ (edits = 2 \/ Clear) /\ \E a \in Ruled : file[a] # None
  BY <1>1, <1>4 DEF InTurnOK
<1>6. CASE Seen(q)  BY <1>1, <1>6 DEF Seen
<1>7. CASE look[q] <= 3 /\ elsewhere # {}
  BY <1>1, <1>7, EditCases DEF EditsFile, EditsRules, EditsDirectory
<1>8. CASE look[q] = 2 /\ Clear /\ \E a \in Ruled : file[a] # None
  <2>1. PICK a \in Ruled : file[a] # None  BY <1>8
  <2>2. file[a] \in Others
    BY <1>1, <1>2, <1>4, <2>1 DEF RemovalOK, Verified, Artifacts, Ruled
  <2>3. edits' = 2
    BY <1>1, <2>1, <2>2 DEF EditedOK, Artifacts, Ruled, Others
  <2>4. CASE \E b \in Ruled : file'[b] # None  BY <1>1, <1>8, <2>3, <2>4
  <2>5. CASE \A b \in Ruled : file'[b] = None
    <3>1. elsewhere' # {}
      <4> SUFFICES ASSUME elsewhere' = {} PROVE FALSE
        OBVIOUS
      <4>1. PICK b \in Artifacts, content \in Others :
              /\ file' = [file EXCEPT ![b] = content]
              /\ directory' = IF b \in Configured THEN "safe" ELSE directory
        BY <2>1, <2>5, EditCases DEF EditsFile, EditsRules, EditsDirectory
      <4>2. b = a  BY <2>1, <2>5, <4>1, TypeParts DEF MachineTyped, Ruled, Artifacts
      <4>3. directory' = "absent" /\ \A c \in Configured : file'[c] = None
        BY <1>8, <4>1, <4>2, TypeParts DEF MachineTyped, Clear, Configured, Ruled, Artifacts
      <4>4. Gone(q)'  BY <1>4, <2>5, <4>3, NothingLeftNext DEF Clear
      <4> QED BY <1>3, <4>4
    <3> QED BY <1>1, <1>8, <3>1
  <2> QED BY <2>4, <2>5
<1> QED BY <1>1, <1>5, <1>6, <1>7, <1>8

--------------------------------------------------------------------------------
(* What removal verifies, with one other command beside it.                *)

(* A removal and two policies are three commands; two removals and a       *)
(* policy are, too.                                                        *)
LEMMA OnePolicy ==
  ASSUME TypeOK, BuildsOK, NumbersOK, runs <= 2, NEW p \in Procs, Removing(p),
         NEW b \in Known, NEW c \in Known, b \in Policies, c \in Policies
  PROVE  b = c /\ runs = 2
<1>1. runs \in Nat  BY TypeParts, BuildsAssumption DEF CountTyped
<1>2. PICK n \in 1..runs : Unused(n)  BY DEF NumbersOK
<1>3. b.build \in 1..runs /\ c.build \in 1..runs
  BY <1>1, Kinds, BuildsAssumption DEF BuildsOK
<1>4. b.build # n /\ c.build # n  BY <1>2 DEF Unused
<1> QED BY <1>1, <1>2, <1>3, <1>4 DEF BuildsOK

LEMMA NoPolicy ==
  ASSUME TypeOK, BuildsOK, NumbersOK, NEW p \in Procs, NEW q \in Procs, Removing(p), Removing(q),
         runs <= 1 \/ (p # q /\ runs <= 2)
  PROVE  \A c \in Known : c \notin Policies
<1>1. runs \in Nat  BY TypeParts, BuildsAssumption DEF CountTyped
<1>2. PICK m \in 1..runs, n \in 1..runs : Unused(m) /\ Unused(n) /\ (p # q => m # n)
  BY DEF NumbersOK
<1> SUFFICES ASSUME NEW c \in Known, c \in Policies PROVE FALSE
  OBVIOUS
<1>3. c.build \in 1..runs  BY <1>1, Kinds, BuildsAssumption DEF BuildsOK
<1>4. c.build # m /\ c.build # n  BY <1>2 DEF Unused
<1> QED BY <1>1, <1>2, <1>3, <1>4

(* Without a policy there is no receipt.                                   *)
LEMMA NoneIntact ==
  ASSUME TypeOK, PhasesOK, \A c \in Known : c \notin Policies
  PROVE  Intact
<1> USE TypeParts DEF MachineTyped, CommandTyped, PhaseTyped
<1>1. receipt = None  BY DEF Known
<1>2. \A q \in Procs : policy[q] = None  BY DEF Known
<1>3. \A q \in Procs : written[q] = {}
  BY <1>2 DEF PhasesOK, PhaseOK, Tasks
<1> QED BY <1>1, <1>3 DEF Intact

LEMMA NoneIntactNext ==
  ASSUME TypeOK', PhasesOK', \A c \in Known' : c \notin Policies
  PROVE  Intact'
<1> USE TypePartsNext DEF MachineTyped, CommandTyped, PhaseTyped
<1>1. receipt' = None  BY DEF Known
<1>2. \A q \in Procs : policy'[q] = None  BY DEF Known
<1>3. \A q \in Procs : written'[q] = {}
  BY <1>2 DEF PhasesOK, PhaseOK, Tasks
<1> QED BY <1>1, <1>3 DEF Intact

(* A step that does not take the manifest away leaves it intact.           *)
LEMMA IntactActs ==
  ASSUME TypeOK, PhasesOK, Intact, NEW p \in Procs, Acts(p),
         ~Execute(p) \/ (Intact /\ "manifest" \notin todo[p])
  PROVE  Intact'
<1> USE TypeParts DEF MachineTyped, CommandTyped, PhaseTyped
<1> DEFINE m == "manifest"
<1>1. m \in Artifacts /\ "receipt" # m  BY DEF Artifacts
<1>2. \A q \in Procs : q # p => written'[q] = written[q]  BY OthersKeep
<1>3. CASE InstallFile(p)
  <2>1. PICK a \in Artifacts \ written[p] :
          file' = [file EXCEPT ![a] = policy[p]] /\ written' = [written EXCEPT ![p] = @ \cup {a}]
    BY <1>3 DEF InstallFile, Put
  <2>2. receipt' = receipt /\ policy[p] # None
    BY <1>3 DEF InstallFile, PhasesOK, PhaseOK, Tasks, Busy
  <2>3. file'[m] = IF a = m THEN policy[p] ELSE file[m]  BY <1>1, <2>1
  <2>4. m \in written'[p] => a = m \/ m \in written[p]  BY <2>1
  <2> QED BY <1>2, <2>2, <2>3, <2>4 DEF Intact
<1>4. CASE RecordReceipt(p)
  <2>1. written[p] = Artifacts /\ file' = file  BY <1>4 DEF RecordReceipt
  <2>2. file[m] # None  BY <1>1, <2>1 DEF Intact
  <2> QED BY <2>1, <2>2 DEF Intact
<1>5. CASE Execute(p) /\ m \notin todo[p]
  <2>1. PICK op \in todo[p] : Effect(p, op)  BY <1>5 DEF Execute
  <2>2. file'[m] = file[m] /\ receipt' \in {receipt, None}
    BY <1>1, <1>5, <2>1, EffectCases
  <2>3. written' = written  BY <1>5 DEF Execute
  <2> QED BY <2>2, <2>3 DEF Intact
<1>6. CASE ~InstallFile(p) /\ ~RecordReceipt(p) /\ ~Execute(p)
  <2>1. UNCHANGED <<file, receipt>>
    BY <1>6 DEF Acts, Look, Begins, BeginSetup, BeginRemoval, Begin, Ends, Reviews, Plans, OpenInstaller,
                machine, Closes, CloseInstaller, ExecutionEnds
  <2>2. written'[p] \in {written[p], {}}
    BY <1>6 DEF Acts, Begins, BeginSetup, BeginRemoval, Begin, Ends, End, Reviews, Plans, OpenInstaller,
                command, Closes, CloseInstaller, ExecutionEnds
  <2> QED BY <1>2, <2>1, <2>2 DEF Intact
<1> QED BY <1>3, <1>4, <1>5, <1>6

(* A plan that takes the manifest away forgets the one receipt there is.   *)
LEMMA PlanForgets ==
  ASSUME TypeOK, PhasesOK, BuildsOK, NumbersOK, WrittenOK, ManifestOK, NEW p \in Procs, Plans(p),
         "manifest" \in Operations(report[p]), runs <= 2
  PROVE  Forgetting(p)'
<1> USE TypeParts DEF MachineTyped, CommandTyped, PhaseTyped, ReportTyped
<1> DEFINE r == report[p]
<1>1. r \in Reports /\ "manifest" \in Artifacts  BY DEF Artifacts
<1>2. Removing(p) /\ Removable(r)  BY DEF Plans, Audited, Removing, Busy
<1>3. Managed(r)
  <2>1. Secure(r) /\ Here(r, "manifest")
    BY <1>1, <1>2 DEF Removable, Preflight, Operations
  <2>2. Valid(r, "manifest")  BY <1>1, <2>1 DEF Secure
  <2> QED BY <2>2 DEF Valid, Managed, ManifestOK
<1>4. r.receipt.is = "policy"
  <2>1. Preflight(r) = "active"  BY <1>2, <1>3 DEF Removable, Preflight
  <2>2. Healthy(r)  BY <2>1, <1>3 DEF Preflight
  <2> QED BY <2>2 DEF Healthy
<1>5. r.receipt \in Policies /\ r.receipt \in Known
  BY <1>1, <1>4, Kinds DEF Reports, Known
<1>6. runs = 2  BY <1>2, <1>5, OnePolicy
<1>7. "forget" \in Operations(r)
  BY <1>5, Unalike DEF Operations
<1>8. \A q \in Procs : Busy(q) /\ task[q] = "setup" => "receipt" \in written[q]
  <2> SUFFICES ASSUME NEW q \in Procs, Busy(q), task[q] = "setup" PROVE "receipt" \in written[q]
    OBVIOUS
  <2>1. policy[q] # None /\ policy[q] \in Policies /\ policy[q] \in Known
    BY DEF PhasesOK, PhaseOK, Known
  <2>2. r.receipt = policy[q]  BY <1>2, <1>5, <2>1, OnePolicy
  <2> QED BY <2>1, <2>2 DEF WrittenOK
<1>9. /\ pc'[p] = "execute" /\ todo'[p] = Operations(r) /\ UNCHANGED <<task, written, runs>>
      /\ \A q \in Procs : q # p => pc'[q] = pc[q]
  BY DEF Plans, Goto
<1>10. task[p] # "setup"  BY DEF Plans, Audited
<1> QED BY <1>6, <1>7, <1>8, <1>9, <1>10 DEF Forgetting, Busy

(* What is to be forgotten is not recorded again.                          *)
LEMMA ForgettingActs ==
  ASSUME TypeOK, PhasesOK, NEW p \in Procs, Acts(p), NEW q \in Procs, Forgetting(q), Removing(q)',
         runs' <= 2
  PROVE  Forgetting(q)'
<1> USE TypeParts DEF MachineTyped, CommandTyped, PhaseTyped
<1>1. ~Begins(p) /\ runs' = runs
  <2>1. Begins(p) => runs' = runs + 1  BY DEF Begins, BeginSetup, BeginRemoval, Begin
  <2>2. runs = 2  BY DEF Forgetting
  <2>3. ~Begins(p)  BY <2>1, <2>2
  <2> QED BY <2>3 DEF Acts, Look, Ends, Reviews, Plans, OpenInstaller, Closes, CloseInstaller,
                      ExecutionEnds, InstallFile, RecordReceipt, Execute
<1>2. Busy(p) /\ (~Busy(p)' \/ task'[p] = task[p])
  BY <1>1 DEF Acts, Look, Auditing, command, Ends, End, Reviews, Plans, Audited, OpenInstaller, Closes, Busy,
              CloseInstaller, ExecutionEnds, InstallFile, RecordReceipt, Execute
<1>3. pc'[q] \in {"execute", "after"}
  <2>1. CASE q # p  BY <2>1, OthersKeep DEF Forgetting
  <2>2. CASE q = p
    <3>1. pc[p] \in {"execute", "after"}  BY <2>2 DEF Forgetting
    <3>2. ~Reviews(p) /\ ~Plans(p) /\ ~OpenInstaller(p)
      BY <3>1 DEF Reviews, Plans, Audited, OpenInstaller
    <3>3. CASE Look(p) \/ InstallFile(p) \/ RecordReceipt(p) \/ Execute(p)
      BY <2>2, <3>1, <3>3 DEF Look, InstallFile, RecordReceipt, Execute
    <3>4. CASE Closes(p)  BY <2>2, <3>4 DEF Closes, CloseInstaller, ExecutionEnds, Goto
    <3>5. ~Ends(p)  BY <2>2 DEF Ends, End, Removing, Busy
    <3> QED BY <1>1, <3>2, <3>3, <3>4, <3>5 DEF Acts
  <2> QED BY <2>1, <2>2
<1>4. \A s \in Procs : Busy(s)' /\ task'[s] = "setup" => "receipt" \in written'[s]
  <2> SUFFICES ASSUME NEW s \in Procs, Busy(s)', task'[s] = "setup" PROVE "receipt" \in written'[s]
    OBVIOUS
  <2>1. CASE s # p  BY <2>1, OthersKeep DEF Forgetting, Busy
  <2>2. CASE s = p
    <3>1. task[p] = "setup" /\ "receipt" \in written[p]  BY <1>2, <2>2 DEF Forgetting
    <3>2. written[p] \subseteq written'[p] \/ Ends(p)
      BY <1>1 DEF Acts, command, Reviews, Plans, OpenInstaller, Closes, CloseInstaller, ExecutionEnds,
                  InstallFile, RecordReceipt, Execute
    <3>3. ~Ends(p)  BY <2>2 DEF Ends, End, Busy
    <3> QED BY <2>2, <3>1, <3>2, <3>3
  <2> QED BY <2>1, <2>2
<1>5. "forget" \in todo'[q] \/ receipt' = None
  <2>1. receipt' \in {receipt, None}
    <3>1. CASE RecordReceipt(p)
      <4>1. Busy(p) /\ task[p] = "setup" /\ written[p] = Artifacts
        BY <3>1 DEF RecordReceipt, Busy, PhasesOK, PhaseOK, Tasks
      <4> QED BY <4>1 DEF Forgetting, Artifacts
    <3>2. CASE Execute(p)
      <4>1. PICK op \in todo[p] : Effect(p, op)  BY <3>2 DEF Execute
      <4> QED BY <4>1, EffectCases
    <3>3. CASE ~RecordReceipt(p) /\ ~Execute(p)
      BY <3>3 DEF Acts, Look, Begins, BeginSetup, BeginRemoval, Begin, Ends, Reviews, Plans, OpenInstaller,
                  machine, Closes, CloseInstaller, ExecutionEnds, InstallFile
    <3> QED BY <3>1, <3>2, <3>3
  <2>2. CASE q # p  BY <2>1, <2>2, OthersKeep DEF Forgetting
  <2>3. CASE q = p
    <3>1. CASE Execute(p)
      <4>1. PICK op \in todo[p] : Effect(p, op) /\ todo' = [todo EXCEPT ![p] = @ \ {op}]
        BY <3>1 DEF Execute
      <4>2. op = "forget" => receipt' = None  BY <4>1, EffectCases DEF Artifacts
      <4> QED BY <2>1, <2>3, <4>1, <4>2 DEF Forgetting
    <3>2. CASE ~Execute(p)
      <4>1. ~Ends(p) /\ ~Plans(p) /\ ~Reviews(p)
        BY <2>3 DEF Ends, End, Removing, Busy, Plans, Reviews, Audited, Forgetting
      <4>2. todo' = todo
        BY <1>1, <3>2, <4>1 DEF Acts, command, OpenInstaller, Closes, CloseInstaller, ExecutionEnds,
                                InstallFile, RecordReceipt
      <4> QED BY <2>1, <2>3, <4>2 DEF Forgetting
    <3> QED BY <3>1, <3>2
  <2> QED BY <2>2, <2>3
<1> QED BY <1>1, <1>3, <1>4, <1>5 DEF Forgetting

LEMMA ReceiptActs ==
  ASSUME TypeOK, TypeOK', PhasesOK, PhasesOK', BuildsOK, NumbersOK, WrittenOK, ManifestOK, ReceiptOK,
         NEW p \in Procs, Acts(p), inTurn' = inTurn
  PROVE  ReceiptOK'
<1> USE TypeParts DEF PhaseTyped, CommandTyped, CountTyped
<1> SUFFICES ASSUME ~inTurn
             PROVE  /\ runs' <= 1 => Intact'
                    /\ runs' <= 2 => \A q \in Procs : Removing(q)' =>
                         (Intact' /\ "manifest" \notin todo'[q]) \/ Forgetting(q)'
  BY DEF ReceiptOK
<1>1. runs' \in {runs, runs + 1} /\ runs \in Nat
  BY BuildsAssumption
     DEF Acts, Look, Begins, BeginSetup, BeginRemoval, Begin, Ends, Reviews, Plans, OpenInstaller, Closes,
         CloseInstaller, ExecutionEnds, InstallFile, RecordReceipt, Execute
<1>2. Execute(p) => Removing(p)
  BY DEF Execute, Removing, Busy, PhasesOK, PhaseOK
<1>3. ASSUME NEW q \in Procs, Removing(q), Execute(p), runs <= 1 \/ (p # q /\ runs <= 2)
      PROVE  Intact'
  <2>1. \A c \in Known : c \notin Policies  BY <1>2, <1>3, NoPolicy
  <2>2. \A c \in Known' : c \notin Policies
    BY <1>3, <2>1, KnownActs DEF BeginSetup, Begin, Execute
  <2> QED BY <2>2, NoneIntactNext
<1>4. ASSUME runs' <= 1 PROVE Intact'
  <2>1. Intact  BY <1>1, <1>4 DEF ReceiptOK
  <2>2. CASE Execute(p)  BY <1>1, <1>2, <1>3, <1>4, <2>2
  <2>3. CASE ~Execute(p)  BY <2>1, <2>3, IntactActs
  <2> QED BY <2>2, <2>3
<1>5. ASSUME runs' <= 2, NEW q \in Procs, Removing(q)'
      PROVE  (Intact' /\ "manifest" \notin todo'[q]) \/ Forgetting(q)'
  <2>1. CASE Forgetting(q)  BY <1>5, <2>1, ForgettingActs
  <2>2. CASE Removing(q) /\ Intact /\ "manifest" \notin todo[q] /\ q # p
    <3>1. "manifest" \notin todo'[q]  BY <2>2, OthersKeep
    <3>2. CASE Execute(p)  BY <1>1, <1>3, <1>5, <2>2, <3>1, <3>2
    <3>3. CASE ~Execute(p)  BY <2>2, <3>1, <3>3, IntactActs
    <3> QED BY <3>2, <3>3
  <2>3. CASE Removing(p) /\ Intact /\ "manifest" \notin todo[p] /\ q = p
    <3>1. Intact'  BY <2>3, IntactActs
    <3>2. CASE Plans(p)
      <4>1. CASE "manifest" \in Operations(report[p])
        BY <1>1, <1>5, <2>3, <3>2, <4>1, PlanForgets
      <4>2. CASE "manifest" \notin Operations(report[p])
        BY <2>3, <3>1, <3>2, <4>2 DEF Plans
      <4> QED BY <4>1, <4>2
    <3>3. CASE ~Plans(p)
      <4>1. todo'[p] \subseteq todo[p]
        BY <3>3 DEF Acts, command, Begins, BeginSetup, BeginRemoval, Begin, Ends, End, Reviews, OpenInstaller,
                    Closes, CloseInstaller, ExecutionEnds, InstallFile, RecordReceipt, Execute
      <4> QED BY <2>3, <3>1, <4>1
    <3> QED BY <3>2, <3>3
  <2>4. CASE ~Removing(q)
    <3>1. q = p /\ Begins(p)
      <4>1. q = p  BY <1>5, <2>4, OthersKeep DEF Removing, Busy
      <4>2. ~Begins(p) => Busy(p) /\ (~Busy(p)' \/ task'[p] = task[p])
        BY DEF Acts, Look, Auditing, command, Ends, End, Reviews, Plans, Audited, OpenInstaller, Closes, Busy,
               CloseInstaller, ExecutionEnds, InstallFile, RecordReceipt, Execute
      <4> QED BY <1>5, <2>4, <4>1, <4>2 DEF Removing
    <3>2. /\ runs' = runs + 1 /\ todo' = todo /\ ~Busy(p) /\ ~Execute(p)
      BY <3>1 DEF Begins, BeginSetup, BeginRemoval, Begin, Busy, Execute
    <3>3. todo[p] = {}  BY <3>2 DEF PhasesOK, PhaseOK
    <3>4. Intact  BY <1>1, <1>5, <3>2 DEF ReceiptOK
    <3>5. Intact'  BY <3>2, <3>4, IntactActs
    <3> QED BY <3>1, <3>2, <3>3, <3>5
  <2> QED BY <1>1, <1>5, <2>1, <2>2, <2>3, <2>4 DEF ReceiptOK
<1> QED BY <1>4, <1>5

(* With nothing left to do, a receipt shows by its manifest.               *)
LEMMA ReceiptShows ==
  ASSUME ReceiptOK, ~inTurn, runs <= 2, NEW p \in Procs, Removing(p), todo[p] = {}, receipt # None
  PROVE  ~Clear
<1>1. Intact  BY DEF ReceiptOK, Forgetting
<1> QED BY <1>1 DEF Intact, Clear, Configured

LEMMA LeftToSee ==
  ASSUME NEW p \in Procs, ~Gone(p)', elsewhere' = {}, receipt' # None => ~Clear'
  PROVE  ~Clear' \/ \E a \in Ruled : file'[a] # None
BY NothingLeftNext

LEMMA BesideOwn ==
  ASSUME TypeOK, PhasesOK, CountOK, EditedOK, HeldOK', ReceiptOK, BesideOK, NEW p \in Procs, Acts(p),
         Witness, inTurn' = inTurn, ~inTurn, Verified(p)', runs' <= 2
  PROVE  StaysGone(p)' \/ StaysThere(p)'
<1> USE TypeParts DEF PhaseTyped, CountTyped, MachineTyped
<1>1. pc'[p] = "after" /\ task'[p] = "remove" /\ todo'[p] = {} /\ ~held'[p]
  BY DEF Verified
<1>2. /\ UNCHANGED <<machine, command>>
      /\ \/ Look(p) /\ pc[p] = "after" /\ look'[p] = look[p] + 1 /\ look[p] \in 1..4
         \/ report' = report /\ look' = look /\ look[p] = 1 /\ pc[p] = "execute"
  BY <1>1, AfterActs DEF command
<1>3. /\ UNCHANGED <<file, directory, receipt, elsewhere>> /\ task' = task /\ todo' = todo
      /\ elsewhere = {} /\ runs' = runs /\ ~Gone(p)' /\ Clear' = Clear
  <2>1. UNCHANGED <<file, directory, receipt, elsewhere>> /\ task' = task /\ todo' = todo
    BY <1>2 DEF machine, command
  <2>2. runs' = runs
    BY <1>2 DEF Acts, Look, Begins, BeginSetup, BeginRemoval, Begin, Ends, Reviews, Plans, OpenInstaller,
                Closes, CloseInstaller, ExecutionEnds, InstallFile, RecordReceipt, Execute
  <2> QED BY <1>1, <2>1, <2>2 DEF EditedOK, HeldOK, Verifying, Clear
<1>4. \A q \in Procs \ {p} : pc'[q] = pc[q]
  BY OthersKeep
<1>5. CASE pc[p] = "execute" /\ look[p] = 1 /\ report' = report /\ look' = look
  <2>1. \A q, s \in Procs \ {p} : Busy(q) /\ Busy(s) => q = s /\ runs = 2
    BY <1>3, <1>5 DEF CountOK, Busy
  <2>2. ~Clear' \/ \E a \in Ruled : file'[a] # None
    <3>1. Removing(p) /\ todo[p] = {}  BY <1>1, <1>3, <1>5 DEF Removing, Busy
    <3>2. receipt' # None => ~Clear'  BY <1>3, <3>1, ReceiptShows
    <3>3. elsewhere' = {}  BY <1>3
    <3> QED BY <1>3, <3>2, <3>3, LeftToSee
  <2>3. CASE \E q \in Procs \ {p} : Busy(q) /\ task[q] = "setup"
    BY <1>3, <1>4, <1>5, <2>1, <2>2, <2>3 DEF StaysThere, Busy
  <2>4. CASE \A q \in Procs \ {p} : Busy(q) => task[q] = "remove"
    BY <1>3, <1>4, <1>5, <2>1, <2>4 DEF StaysGone, Busy, LookAt
  <2> QED BY <2>3, <2>4 DEF Tasks
<1>6. CASE Look(p) /\ pc[p] = "after" /\ look'[p] = look[p] + 1 /\ look[p] \in 1..4
  <2>1. Verified(p)
    BY <1>1, <1>3, <1>6, WitnessOK DEF Verified
  <2>2. StaysGone(p) \/ StaysThere(p)
    BY <1>3, <2>1 DEF BesideOK
  <2>3. Adds(p)  BY <1>6, LookAdds
  <2>4. CASE StaysGone(p)
    <3>1. look'[p] > 1 /\ report'[p].paths = "absent" => directory = "absent"
      BY <1>6, <2>3, <2>4 DEF Adds, StaysGone
    <3>2. \A a \in Artifacts : look'[p] > LookAt(a) /\ report'[p].file[a] = None => file[a] = None
      <4>1. None # Unread  BY Unalike
      <4>2. \A a \in Artifacts :
              /\ look[p] > LookAt(a) => report'[p].file[a] = report[p].file[a]
              /\ look[p] = LookAt(a) => report'[p].file[a] \in {file[a], Unread}
        BY <2>3 DEF Adds, LookAt, Artifacts, Configured, Ruled
      <4>3. \A a \in Artifacts : look'[p] > LookAt(a) => look[p] > LookAt(a) \/ look[p] = LookAt(a)
        BY <1>6 DEF LookAt
      <4> QED BY <2>4, <4>1, <4>2, <4>3 DEF StaysGone
    <3> QED BY <1>3, <1>4, <2>4, <3>1, <3>2 DEF StaysGone, Busy, LookAt
  <2>5. CASE StaysThere(p)
    <3>1. Seen(p)' \/ (look'[p] <= 2 /\ \E a \in Ruled : file[a] # None)
      <4>1. CASE Seen(p)  BY <4>1, <1>6, SeenStays
      <4>2. CASE look[p] = 1 /\ ~Clear  BY <4>2, <1>6, LookSees
      <4>3. CASE look[p] <= 2 /\ \E a \in Ruled : file[a] # None
        <5>1. CASE look[p] = 2  BY <4>3, <5>1, <1>6, LookSees
        <5>2. CASE look[p] = 1  BY <4>3, <5>2, <1>6
        <5> QED BY <5>1, <5>2, <4>3, <1>6
      <4> QED BY <2>5, <4>1, <4>2, <4>3 DEF StaysThere
    <3> QED BY <1>3, <1>4, <2>5, <3>1 DEF StaysThere, Busy
  <2> QED BY <2>2, <2>4, <2>5
<1> QED BY <1>2, <1>5, <1>6

LEMMA BesideOther ==
  ASSUME TypeOK, PhasesOK, CountOK, EditedOK, HeldOK', ReceiptOK, BesideOK, NEW p \in Procs, Acts(p),
         Witness, inTurn' = inTurn, ~inTurn, NEW q \in Procs, q # p, Verified(q)', runs' <= 2
  PROVE  StaysGone(q)' \/ StaysThere(q)'
<1> USE TypeParts DEF PhaseTyped, CountTyped, MachineTyped
<1>1. /\ pc[q] = "after" /\ task[q] = "remove" /\ todo[q] = {}
      /\ report'[q] = report[q] /\ look'[q] = look[q]
  BY OthersKeep DEF Verified
<1>2. Verified(q) /\ ~Gone(q)' /\ elsewhere' = {}
  BY <1>1, WitnessOK, MachineActs DEF Verified, HeldOK, Verifying, EditedOK
<1>3. \A s \in Procs \ {p} : pc'[s] = pc[s] /\ task'[s] = task[s]
  BY OthersKeep
<1>4. CASE Begins(p)
  <2>1. /\ UNCHANGED <<file, directory, receipt>> /\ runs' = runs + 1 /\ ~Busy(p)
        /\ task'[p] \in {"setup", "remove"} /\ pc'[p] = "before"
    BY <1>4 DEF Begins, BeginSetup, BeginRemoval, Begin, machine, Busy
  <2>2. runs = 1  BY <1>1, <2>1 DEF CountOK, Busy
  <2>3. StaysGone(q)  BY <1>2, <2>2 DEF BesideOK, StaysThere
  <2>4. \A s \in Procs \ {q} : ~Busy(s)  BY <2>2, <2>3 DEF StaysGone
  <2>5. \A s \in Procs \ {q} : s # p => ~Busy(s)'  BY <1>3, <2>4 DEF Busy
  <2>6. CASE task'[p] = "remove"
    BY <1>1, <2>1, <2>2, <2>3, <2>5, <2>6 DEF StaysGone, LookAt
  <2>7. CASE task'[p] = "setup"
    <3>1. ~Clear \/ \E a \in Ruled : file[a] # None
      <4>1. Removing(q)  BY <1>1 DEF Removing, Busy
      <4>2. receipt # None => ~Clear  BY <1>1, <2>2, <4>1, ReceiptShows
      <4>3. receipt' # None => ~Clear'  BY <2>1, <4>2 DEF Clear
      <4>4. ~Clear' \/ \E a \in Ruled : file'[a] # None  BY <1>2, <4>3, LeftToSee
      <4> QED BY <2>1, <4>4 DEF Clear
    <3>2. Seen(q) \/ (look[q] = 1 /\ ~Clear) \/ (look[q] <= 2 /\ \E a \in Ruled : file[a] # None)
      <4>1. CASE ~Clear
        <5>1. CASE look[q] > 1
          <6>1. report[q].paths # "absent" \/ \E a \in Configured : report[q].file[a] # None
            BY <2>3, <4>1, <5>1 DEF StaysGone, Clear, LookAt, Artifacts, Configured
          <6> QED BY <5>1, <6>1 DEF Seen
        <5> QED BY <4>1, <5>1
      <4>2. CASE \E a \in Ruled : file[a] # None
        <5>1. CASE look[q] > 2
          <6>1. \E a \in Ruled : report[q].file[a] # None
            BY <2>3, <4>2, <5>1 DEF StaysGone, LookAt, Artifacts, Configured, Ruled
          <6> QED BY <5>1, <6>1 DEF Seen
        <5> QED BY <4>2, <5>1
      <4> QED BY <3>1, <4>1, <4>2
    <3>3. Seen(q)' <=> Seen(q)  BY <1>1 DEF Seen
    <3>4. Clear' = Clear  BY <2>1 DEF Clear
    <3> QED BY <1>1, <2>1, <2>2, <2>5, <2>7, <3>2, <3>3, <3>4 DEF StaysThere
  <2> QED BY <2>1, <2>6, <2>7
<1>5. CASE ~Begins(p)
  <2>1. Busy(p) /\ runs' = runs
    BY <1>5 DEF Acts, Look, Auditing, Ends, Reviews, Plans, Audited, OpenInstaller, Closes, Busy,
                CloseInstaller, ExecutionEnds, InstallFile, RecordReceipt, Execute
  <2>2. ~Busy(p)' \/ task'[p] = task[p]
    BY <1>5 DEF Acts, Look, command, Ends, End, Reviews, Plans, OpenInstaller, Closes, Busy,
                CloseInstaller, ExecutionEnds, InstallFile, RecordReceipt, Execute
  <2>3. StaysGone(q) \/ StaysThere(q)  BY <1>2, <2>1 DEF BesideOK
  <2>4. Seen(q)' <=> Seen(q)  BY <1>1 DEF Seen
  <2>5. CASE StaysGone(q)
    <3>1. task[p] = "remove" /\ runs = 2  BY <2>1, <2>5 DEF StaysGone
    <3>2. /\ \A a \in Artifacts : file'[a] \in {file[a], None}
          /\ directory' \in {directory, "absent"}
      BY <3>1, MachineActs DEF Adding, Taking
    <3>3. \A s \in Procs \ {q} : Busy(s)' => runs' = 2 /\ task'[s] = "remove"
      BY <1>3, <2>1, <2>2, <2>5, <3>1 DEF StaysGone, Busy
    <3>4. /\ look[q] > 1 /\ report[q].paths = "absent" => directory' = "absent"
          /\ \A a \in Artifacts : look[q] > LookAt(a) /\ report[q].file[a] = None => file'[a] = None
      BY <2>5, <3>2 DEF StaysGone
    <3> QED BY <1>1, <3>3, <3>4 DEF StaysGone, LookAt
  <2>6. CASE StaysThere(q)
    <3>1. task[p] = "setup" /\ runs = 2  BY <2>1, <2>6 DEF StaysThere
    <3>2. policy[p] # None  BY <2>1, <3>1 DEF PhasesOK, PhaseOK
    <3>3. /\ \A a \in Artifacts : file'[a] \in {file[a], policy[p]}
          /\ directory' \in {directory, "safe"}
      BY <3>1, MachineActs DEF Adding, Taking
    <3>4. ~Clear => ~Clear'
      BY <3>2, <3>3 DEF Clear, Artifacts, Configured
    <3>5. (\E a \in Ruled : file[a] # None) => (\E a \in Ruled : file'[a] # None)
      BY <3>2, <3>3 DEF Artifacts, Ruled
    <3>6. \A s \in Procs \ {q} : Busy(s)' => task'[s] = "setup"
      BY <1>3, <2>1, <2>2, <2>6, <3>1 DEF StaysThere, Busy
    <3> QED BY <1>1, <2>1, <2>4, <2>6, <3>1, <3>4, <3>5, <3>6 DEF StaysThere
  <2> QED BY <2>3, <2>5, <2>6
<1> QED BY <1>4, <1>5

LEMMA BesideActs ==
  ASSUME TypeOK, PhasesOK, CountOK, EditedOK, HeldOK', ReceiptOK, BesideOK, NEW p \in Procs, Acts(p),
         Witness, inTurn' = inTurn
  PROVE  BesideOK'
<1> SUFFICES ASSUME NEW q \in Procs, ~inTurn, Verified(q)', runs' <= 2
             PROVE  StaysGone(q)' \/ StaysThere(q)'
  BY DEF BesideOK
<1>1. CASE q = p  BY <1>1, BesideOwn
<1>2. CASE q # p  BY <1>2, BesideOther
<1> QED BY <1>1, <1>2

--------------------------------------------------------------------------------
(* Foreign files.                                                          *)

LEMMA LateActs ==
  ASSUME TypeOK, PhasesOK, LateOK, NEW p \in Procs, Acts(p), Witness
  PROVE  LateOK'
<1> USE TypeParts DEF PhaseTyped, ReportTyped, MachineTyped, CommandTyped
<1> SUFFICES ASSUME NEW q \in Procs, NEW a \in Artifacts, Acting(q)', file'[a] = Foreign, a \notin late'[q]
             PROVE  /\ pc'[q] = "before"
                    /\ look'[q] <= LookAt(a) \/ report'[q].file[a] \in {Foreign, Unread}
  BY DEF LateOK, LookAt
<1>1. file[a] = Foreign
  <2>1. file'[a] \in {file[a], None} \cup Policies  BY MachineActs DEF Adding, Taking
  <2> QED BY <2>1, Unalike
<1>2. a \notin late[q]  BY WitnessOK
<1>3. CASE q # p
  <2>1. pc'[q] = pc[q] /\ look'[q] = look[q] /\ report'[q] = report[q]  BY <1>3, OthersKeep
  <2>2. Acting(q)  BY <2>1 DEF Acting
  <2> QED BY <1>1, <1>2, <2>1, <2>2 DEF LateOK
<1>4. CASE q = p
  <2>1. CASE Begins(p)
    <3>1. pc'[p] = "before" /\ look'[p] = 1
      BY <2>1 DEF Begins, BeginSetup, BeginRemoval, Begin
    <3> QED BY <1>4, <3>1 DEF LookAt
  <2>2. CASE ~Begins(p)
    <3>1. ~Ends(p)  BY <1>4 DEF Ends, End, Acting
    <3>2. Acting(p)
      BY <1>4, <2>2, <3>1 DEF Acts, Acting, Look, Reviews, Plans, Audited, OpenInstaller, Closes, CloseInstaller,
                              ExecutionEnds, Goto, InstallFile, RecordReceipt, Execute
    <3>3. /\ pc[p] = "before"
          /\ look[p] <= LookAt(a) \/ report[p].file[a] \in {Foreign, Unread}
      BY <1>1, <1>2, <1>4, <3>2 DEF LateOK
    <3>4. CASE Look(p)
      <4>1. look'[p] = look[p] + 1 /\ look[p] \in 1..4 /\ pc' = pc
        BY <3>4, LooksAre DEF Look
      <4>2. Adds(p)  BY <3>4, LookAdds
      <4>3. /\ look[p] > LookAt(a) => report'[p].file[a] = report[p].file[a]
            /\ look[p] = LookAt(a) => report'[p].file[a] \in {file[a], Unread}
        BY <4>2 DEF Adds, LookAt, Artifacts, Configured, Ruled
      <4>4. LookAt(a) \in {1, 2}  BY DEF LookAt
      <4> QED BY <1>1, <1>4, <3>3, <4>1, <4>3, <4>4
    <3>5. ~Reviews(p) /\ ~Plans(p)
      <4> SUFFICES ASSUME Reviews(p) \/ Plans(p) PROVE FALSE
        OBVIOUS
      <4>1. look[p] > 4 /\ Secure(report[p])
        BY LooksAre DEF Reviews, Plans, Audited, Removable, Preflight
      <4>2. report[p].file[a] \in {Foreign, Unread}  BY <3>3, <4>1 DEF LookAt
      <4> QED BY <4>1, <4>2, Kinds DEF Secure, Here, Valid
    <3>6. ~OpenInstaller(p) /\ ~Closes(p) /\ ~InstallFile(p) /\ ~RecordReceipt(p) /\ ~Execute(p)
      BY <3>3 DEF OpenInstaller, Closes, CloseInstaller, ExecutionEnds, InstallFile, RecordReceipt, Execute
    <3> QED BY <2>2, <3>1, <3>4, <3>5, <3>6 DEF Acts
  <2> QED BY <2>1, <2>2
<1> QED BY <1>3, <1>4

LEMMA LateEdit == ASSUME TypeOK, LateOK, Edit, Witness PROVE LateOK'
<1> SUFFICES ASSUME NEW q \in Procs, NEW a \in Artifacts, Acting(q)', file'[a] = Foreign, a \notin late'[q]
             PROVE  /\ pc'[q] = "before"
                    /\ look'[q] <= LookAt(a) \/ report'[q].file[a] \in {Foreign, Unread}
  BY DEF LateOK, LookAt
<1>1. UNCHANGED <<pc, report, look>>  BY EditCases DEF audit
<1>2. Acting(q) /\ a \notin late[q] /\ a \notin Appeared(q)
  BY <1>1, WitnessOK DEF Acting
<1>3. CASE file[a] = Foreign  BY <1>1, <1>2, <1>3 DEF LateOK
<1>4. CASE file[a] # Foreign
  <2>1. ~Planned(q, a)  BY <1>2, <1>4 DEF Appeared
  <2>2. pc[q] = "before" /\ ~(look[q] > LookAt(a))  BY <1>2, <2>1 DEF Planned
  <2>3. look[q] \in 1..5 /\ LookAt(a) \in {1, 2}  BY TypeParts DEF PhaseTyped, LookAt
  <2> QED BY <1>1, <2>2, <2>3
<1> QED BY <1>3, <1>4

--------------------------------------------------------------------------------
(* The invariant holds.                                                    *)

LEMMA InitInv == Init => Inv
<1> SUFFICES ASSUME Init PROVE Inv
  OBVIOUS
<1>1. TypeOK  BY TypeInit
<1>2. PhasesOK  BY DEF Init, PhasesOK, PhaseOK, Busy, NoReport
<1>3. HeldOK  BY DEF Init, HeldOK
<1>4. BuildsOK
  <2>1. \A c \in Known : c \notin Policies
    BY Unalike, NoReportIs DEF Init, Known
  <2> QED BY <2>1 DEF BuildsOK, Init
<1>5. CountOK /\ NumbersOK  BY DEF Init, CountOK, NumbersOK, Removing, Busy
<1>6. WrittenOK  BY DEF Init, WrittenOK
<1>7. EditedOK  BY Unalike DEF Init, EditedOK
<1>8. ManifestOK  BY Kinds DEF Init, ManifestOK, NoReport, Artifacts
<1>9. ReceiptOK  BY DEF Init, ReceiptOK, Intact, Removing, Busy
<1>10. SetupOK /\ BeforeOK /\ RemovalOK /\ InTurnOK /\ BesideOK /\ LateOK
  BY DEF Init, SetupOK, BeforeOK, RemovalOK, InTurnOK, BesideOK, Verified, LateOK, Acting
<1> QED BY <1>1, <1>2, <1>3, <1>4, <1>5, <1>6, <1>7, <1>8, <1>9, <1>10 DEF Inv

LEMMA StepInv == ASSUME Inv, [Next]_vars PROVE Inv'
<1> USE DEF Inv
<1>1. TypeOK'  BY TypeNext
<1>2. ASSUME NEW p \in Procs, Acts(p), Witness, inTurn' = inTurn PROVE Inv'
  <2>1. HeldOK'  BY <1>2, HeldNext
  <2>2. PhasesOK' /\ CountOK' /\ BuildsOK' /\ NumbersOK' /\ WrittenOK' /\ EditedOK' /\ ManifestOK'
    BY <1>2, PhasesActs, CountActs, BuildsActs, NumbersActs, WrittenActs, EditedActs, ManifestActs
  <2>3. SetupOK'  BY <1>2, <2>1, SetupActs
  <2>4. BeforeOK' /\ RemovalOK'  BY <1>2, BeforeActs, RemovalActs
  <2>5. InTurnOK'  BY <1>2, <2>1, InTurnActs
  <2>6. ReceiptOK'  BY <1>1, <1>2, <2>2, ReceiptActs
  <2>7. BesideOK'  BY <1>2, <2>1, BesideActs
  <2>8. LateOK'  BY <1>2, LateActs
  <2> QED BY <1>1, <2>1, <2>2, <2>3, <2>4, <2>5, <2>6, <2>7, <2>8
<1>3. ASSUME Edit, Witness, inTurn' = inTurn PROVE Inv'
  <2>1. HeldOK'  BY <1>3, HeldNext
  <2>2. PhasesOK' /\ CountOK' /\ BuildsOK' /\ NumbersOK' /\ WrittenOK' /\ EditedOK' /\ ManifestOK'
    BY <1>3, PhasesEdit, CountEdit, BuildsEdit, NumbersEdit, WrittenEdit, EditedEdit, ManifestEdit
  <2>3. SetupOK'  BY <1>3, <2>1, SetupEdit
  <2>4. BeforeOK' /\ RemovalOK'  BY <1>3, BeforeEdit, RemovalEdit
  <2>5. InTurnOK'  BY <1>3, <2>1, InTurnEdit
  <2>6. ReceiptOK' /\ BesideOK'  BY <1>3, EditCases DEF ReceiptOK, BesideOK
  <2>7. LateOK'  BY <1>3, LateEdit
  <2> QED BY <1>1, <2>1, <2>2, <2>3, <2>4, <2>5, <2>6, <2>7
<1>4. CASE UNCHANGED vars
  <2> USE <1>4 DEF vars, machine, command, audit, history
  <2>1. PhasesOK' /\ CountOK'  BY DEF PhasesOK, PhaseOK, CountOK, Busy
  <2>2. \A account : Permitted(account)' = Permitted(account)  BY PermittedSame
  <2>3. HeldOK'  BY <2>2 DEF HeldOK, Verifying, Installed, Gone
  <2>4. BuildsOK' /\ NumbersOK'  BY DEF BuildsOK, NumbersOK, Known, Unused, Removing, Busy
  <2>5. WrittenOK' /\ EditedOK' /\ ManifestOK'  BY DEF WrittenOK, EditedOK, ManifestOK
  <2>6. SetupOK'  BY <2>2 DEF SetupOK, Signed, SeenAmiss, InPlace, InForce
  <2>7. BeforeOK' /\ RemovalOK'  BY DEF BeforeOK, RemovalOK, LookAt
  <2>8. InTurnOK'  BY DEF InTurnOK, Verified, Seen, Clear
  <2>9. ReceiptOK'  BY DEF ReceiptOK, Intact, Forgetting, Removing, Busy
  <2>10. BesideOK'  BY DEF BesideOK, StaysGone, StaysThere, Verified, Seen, Clear, Busy, LookAt
  <2>11. LateOK'  BY DEF LateOK, Acting, LookAt
  <2> QED BY <1>1, <2>1, <2>3, <2>4, <2>5, <2>6, <2>7, <2>8, <2>9, <2>10, <2>11
<1> QED BY <1>2, <1>3, <1>4, StepKinds

LEMMA Inductive == Spec => []Inv
BY InitInv, StepInv, PTL DEF Spec

--------------------------------------------------------------------------------
(* What the commands may claim.                                            *)

(* Only a report of its own makes a command succeed.                       *)
LEMMA WhoReports ==
  ASSUME TypeOK, NEW p \in Procs, Next
  PROVE  /\ Becomes(p, "installed") => ReportSetup(p) /\ VerifyInstalled(report[p], policy[p])
         /\ Becomes(p, "removed") => /\ ReportRemoval(p)
                                     /\ todo[p] = {} /\ VerifyRemoved(report[p], revoked[p])
<1> USE TypeParts DEF PhaseTyped, Becomes
<1>1. CASE Edit  BY <1>1, EditCases
<1>2. ASSUME NEW q \in Procs, Look(q) \/ Setup(q) \/ Removal(q) \/ Die(q)
      PROVE  /\ Becomes(p, "installed") => ReportSetup(p) /\ VerifyInstalled(report[p], policy[p])
             /\ Becomes(p, "removed") => /\ ReportRemoval(p)
                                         /\ todo[p] = {} /\ VerifyRemoved(report[p], revoked[p])
  <2>1. CASE Look(q)  BY <2>1 DEF Look
  <2>2. CASE BeginSetup(q) \/ BeginRemoval(q)  BY <2>2 DEF BeginSetup, BeginRemoval, Begin
  <2>3. CASE Decide(q)  BY <2>3 DEF Decide, End, Goto
  <2>4. CASE Cancel(q) \/ Die(q)  BY <2>4 DEF Cancel, Die, End
  <2>5. CASE OpenInstaller(q) \/ CloseInstaller(q) \/ ExecutionEnds(q)
    BY <2>5 DEF OpenInstaller, CloseInstaller, ExecutionEnds, Goto
  <2>6. CASE InstallFile(q) \/ RecordReceipt(q) \/ Execute(q)
    BY <2>6 DEF InstallFile, RecordReceipt, Execute
  <2>7. CASE Plan(q)  BY <2>7 DEF Plan, End, Goto
  <2>8. CASE ReportSetup(q)
    <3>1. outcome' = [outcome EXCEPT ![q] =
            IF VerifyInstalled(report[q], policy[q]) THEN "installed" ELSE "stopped"]
      BY <2>8 DEF ReportSetup, End
    <3> QED BY <2>8, <3>1
  <2>9. CASE ReportRemoval(q)
    <3>1. outcome' = [outcome EXCEPT ![q] =
            IF todo[q] = {} /\ VerifyRemoved(report[q], revoked[q]) THEN "removed" ELSE "stopped"]
      BY <2>9 DEF ReportRemoval, End
    <3> QED BY <2>9, <3>1
  <2> QED BY <1>2, <2>1, <2>2, <2>3, <2>4, <2>5, <2>6, <2>7, <2>8, <2>9 DEF Setup, Removal
<1> QED BY <1>1, <1>2 DEF Next

(* Other rules than a policy's make no report exact.                       *)
LEMMA OthersInexact ==
  ASSUME NEW r \in Reports, NEW g \in r.grants, g.command \in {"other", "broad"}
  PROVE  ~Exact(r) /\ Broad(r) \cup Extra(r) # {}
<1>1. \A e \in Expected(r) : e.command \in {"live", "lpd"}
  BY DEF Expected, Group
<1>2. g \in Broad(r) \cup Extra(r)
  BY <1>1 DEF Broad, Extra, Same
<1> QED BY <1>2 DEF Exact

LEMMA GroupCommands == \A c, h : \A g \in Group(c, h) : g.command \in c
BY DEF Group

(* An exact report has the rules the manifest demands, and no others.      *)
LEMMA ExactGrants ==
  ASSUME NEW r \in Reports, Exact(r) PROVE r.grants = Expected(r)
<1>1. /\ r.listed /\ Missing(r) = {} /\ Weak(r) = {} /\ Extra(r) = {} /\ Broad(r) = {}
  BY DEF Exact
<1>2. Expected(r) \subseteq r.grants  BY <1>1 DEF Missing
<1>3. ASSUME NEW g \in r.grants PROVE g \in Expected(r)
  <2>1. g \in Grants  BY DEF Reports
  <2>2. PICK e \in Expected(r) : Same(g, e)  BY <1>1 DEF Extra
  <2>3. g.strict = TRUE
    <3>1. g.strict \in BOOLEAN  BY <2>1 DEF Grants
    <3>2. g.strict  BY <1>1, <2>2 DEF Weak
    <3> QED BY <3>1, <3>2
  <2>4. PICK c, h : e \in Group(c, h)  BY <2>2 DEF Expected
  <2>5. e \in [command : c, host : {h}, strict : {TRUE}]  BY <2>4 DEF Group
  <2>6. g = e
    <3>1. g.command = e.command /\ g.host = e.host  BY <2>2 DEF Same
    <3>2. e = [command |-> e.command, host |-> e.host, strict |-> TRUE]  BY <2>5
    <3>3. g = [command |-> g.command, host |-> g.host, strict |-> g.strict]  BY <2>1 DEF Grants
    <3> QED BY <2>3, <3>1, <3>2, <3>3
  <2> QED BY <2>2, <2>6
<1> QED BY <1>2, <1>3

LEMMA VerifiedInstalled ==
  ASSUME Inv, NEW p \in Procs, ReportSetup(p), VerifyInstalled(report[p], policy[p]), FewEdits
  PROVE  held[p]
<1> USE DEF Inv
<1> DEFINE r == report[p]
<1>1. pc[p] = "after" /\ task[p] = "setup" /\ look[p] = 5
  BY LooksAre, TypeParts DEF ReportSetup, Audited, PhaseTyped
<1>2. r \in Reports /\ policy[p] \in Policies
  BY <1>1, TypeParts DEF ReportTyped, CommandTyped, PhasesOK, PhaseOK, Busy
<1>3. /\ Healthy(r) /\ r.receipt.build = policy[p].build /\ r.file["manifest"] = policy[p]
      /\ r.file["profile"].profile = policy[p].profile
  BY DEF VerifyInstalled
<1>4. r.receipt = policy[p]
  <2>1. r.receipt \in Policies
    BY <1>2, <1>3, Kinds DEF Healthy, Reports
  <2>2. r.receipt \in Known /\ policy[p] \in Known  BY DEF Known
  <2> QED BY <1>2, <1>3, <2>1, <2>2 DEF BuildsOK
<1>5. Signed(p)  BY <1>1, <1>4 DEF Signed
<1>6. SUFFICES ASSUME ~held[p] PROVE FALSE
  OBVIOUS
<1>7. CASE ~inTurn  BY <1>1, <1>3, <1>5, <1>6, <1>7 DEF SetupOK
<1>8. CASE inTurn
  <2>1. SeenAmiss(p) /\ \A a \in Configured : r.file[a] \in {policy[p], Unread} \cup Others
    BY <1>1, <1>5, <1>6, <1>8 DEF SetupOK, FewEdits
  <2>2. Managed(r) /\ r.file["profile"].is = "policy" /\ r.by = policy[p].account
    BY <1>3 DEF Healthy, ProfileMatches
  <2>3. \A a \in Configured : r.file[a] = policy[p]
    BY <1>3, <2>1, <2>2, Kinds DEF Others, Configured
  <2>4. r.listed /\ r.grants = Group({"live", "lpd"}, policy[p].host)
    <3>1. Exact(r)  BY <1>3 DEF Healthy
    <3>2. r.listed  BY <3>1 DEF Exact
    <3>3. r.grants = Expected(r)  BY <1>2, <3>1, ExactGrants
    <3> QED BY <1>3, <2>2, <3>2, <3>3 DEF Expected
  <2> QED BY <2>1, <2>2, <2>3, <2>4 DEF SeenAmiss
<1> QED BY <1>7, <1>8

LEMMA VerifiedGone ==
  ASSUME Inv, NEW p \in Procs, ReportRemoval(p), todo[p] = {}, VerifyRemoved(report[p], revoked[p]),
         FewEdits, FewRuns
  PROVE  held[p]
<1> USE DEF Inv
<1> DEFINE r == report[p]
<1>1. pc[p] = "after" /\ task[p] = "remove" /\ look[p] = 5
  BY LooksAre, TypeParts DEF ReportRemoval, Audited, PhaseTyped
<1>2. r \in Reports
  BY TypeParts DEF ReportTyped
<1>3. SUFFICES ASSUME ~held[p] PROVE FALSE
  OBVIOUS
<1>4. Verified(p) /\ ~Gone(p)  BY <1>1, <1>3 DEF Verified, HeldOK, Verifying
<1>5. /\ r.paths = "absent" /\ r.listed
      /\ \A a \in Artifacts : r.file[a] = None
      /\ Broad(r) \cup Extra(r) = {}
  BY DEF VerifyRemoved
<1>6. ~Seen(p)
  <2>1. \A g \in r.grants : g.command \notin {"other", "broad"}
    BY <1>2, <1>5, OthersInexact
  <2> QED BY <1>5, <2>1 DEF Seen, Artifacts, Configured, Ruled
<1>7. CASE inTurn  BY <1>1, <1>4, <1>6, <1>7 DEF InTurnOK, FewEdits
<1>8. CASE ~inTurn
  <2>1. runs <= 2  BY <1>8 DEF FewRuns
  <2>2. StaysGone(p)
    <3>1. StaysGone(p) \/ StaysThere(p)  BY <1>4, <1>8, <2>1 DEF BesideOK
    <3> QED BY <1>1, <1>6, <3>1 DEF StaysThere
  <2>3. Clear /\ \A a \in Ruled : file[a] = None
    BY <1>1, <1>5, <2>2 DEF StaysGone, Clear, LookAt, Artifacts, Configured, Ruled
  <2>4. Removing(p)  BY <1>1 DEF Removing, Busy
  <2>5. receipt = None  BY <1>8, <2>1, <2>3, <2>4, ReceiptShows
  <2>6. elsewhere = {}  BY <1>8 DEF EditedOK
  <2> QED BY <1>4, <2>3, <2>5, <2>6, NothingLeft
<1> QED BY <1>7, <1>8

(* Whatever runs beside it, setup reports success only for a policy whose  *)
(* manifest and receipt were in place together; in turn, up to two edits,  *)
(* only if its profile and exactly its rules in force were with them.      *)
THEOREM InstalledWasThereAlways == Spec => InstalledWasThere
<1>1. Inv => TypeOK  BY DEF Inv
<1>2. Inv /\ [Next]_vars => [\A p \in Procs : FewEdits /\ Becomes(p, "installed") => held[p]]_vars
  <2> SUFFICES ASSUME Inv, Next, NEW p \in Procs, FewEdits, Becomes(p, "installed") PROVE held[p]
    OBVIOUS
  <2> QED BY WhoReports, VerifiedInstalled DEF Inv
<1> QED BY <1>1, <1>2, Inductive, PTL DEF Spec, InstalledWasThere

(* Removal reports success only if files, directory and rules were gone at *)
(* one moment, and with them the receipt, unless it was there and the      *)
(* audit before the removal took it for absent: in turn, up to two edits,  *)
(* and with one other command beside it.                                   *)
THEOREM RemovedWasGoneAlways == Spec => RemovedWasGone
<1>1. Inv /\ [Next]_vars =>
        [\A p \in Procs : FewEdits /\ FewRuns /\ Becomes(p, "removed") => held[p]]_vars
  <2> SUFFICES ASSUME Inv, Next, NEW p \in Procs, FewEdits, FewRuns, Becomes(p, "removed") PROVE held[p]
    OBVIOUS
  <2> QED BY WhoReports, VerifiedGone DEF Inv
<1> QED BY <1>1, Inductive, PTL DEF Spec, RemovedWasGone

(* Removal takes the rules away before the manifest, and only a manifest   *)
(* of its account, whatever an administrator edited since the audit.       *)
THEOREM RevokesFirstAlways == Spec => RevokesFirst
<1> DEFINE Goal(p) == inTurn /\ Removes(p, "manifest") =>
       /\ file["sudoers"].is # "policy" /\ file["tombstone"] # Legacy
       /\ file["manifest"].is = "policy" => file["manifest"].account = report[p].by
<1>1. Inv /\ [Next]_vars => [\A p \in Procs : Goal(p)]_vars
  <2> SUFFICES ASSUME Inv, Next, NEW p \in Procs, inTurn, Removes(p, "manifest")
               PROVE  /\ file["sudoers"].is # "policy" /\ file["tombstone"] # Legacy
                      /\ file["manifest"].is = "policy" => file["manifest"].account = report[p].by
    OBVIOUS
  <2> USE TypeParts DEF Inv, CommandTyped
  <2>1. PICK q \in Procs : Acts(q)
    <3>1. ~Edit  BY EditCases DEF Removes, command
    <3> QED BY <3>1, StepKinds
  <2>2. q = p  BY <2>1, OthersKeep DEF Removes
  <2>3. Execute(p)
    <3>1. ~(InstallFile(p) \/ RecordReceipt(p) \/ OpenInstaller(p) \/ Closes(p) \/ Reviews(p) \/ Begins(p))
      BY DEF Removes, InstallFile, RecordReceipt, OpenInstaller, Closes, CloseInstaller, ExecutionEnds,
             Reviews, Begins, BeginSetup, BeginRemoval, Begin, command
    <3>2. ~(Look(p) \/ Ends(p) \/ Plans(p))
      BY DEF Removes, Look, Ends, Plans, machine, command
    <3> QED BY <2>1, <2>2, <3>1, <3>2 DEF Acts
  <2>4. PICK op \in todo[p] : First(op, todo[p]) /\ todo' = [todo EXCEPT ![p] = @ \ {op}]
    BY <2>3 DEF Execute
  <2>5. op = "manifest"  BY <2>4 DEF Removes
  <2>6. "sudoers" \notin todo[p] /\ "tombstone" \notin todo[p]
    BY <2>4, <2>5 DEF First, Place
  <2>7. task[p] = "remove" /\ pc[p] = "execute"
    BY <2>3 DEF Execute, PhasesOK, PhaseOK
  <2>8. /\ file["sudoers"] \in Others /\ file["tombstone"] \in Others
        /\ file["manifest"].is = "policy" => file["manifest"].account = report[p].by
    BY <2>6, <2>7 DEF RemovalOK, Artifacts
  <2> QED BY <2>8, Unalike, Kinds DEF Others
<1> QED BY <1>1, Inductive, PTL DEF Spec, RevokesFirst

(* Whatever runs beside them, and however many edits there are, setup and  *)
(* removal change a foreign file only if it appeared after they looked.    *)
THEOREM SparesForeignAlways == Spec => SparesForeign
<1> DEFINE Goal(p, a) ==
      file[a] = Foreign /\ (a \in written'[p] \ written[p] \/ Removes(p, a)) => a \in late[p]
<1>1. Inv /\ [Next]_vars => [\A p \in Procs, a \in Artifacts : Goal(p, a)]_vars
  <2> SUFFICES ASSUME Inv, Next, NEW p \in Procs, NEW a \in Artifacts, file[a] = Foreign,
                      a \in written'[p] \ written[p] \/ (a \in todo[p] \ todo'[p] /\ file'[a] = None)
               PROVE  a \in late[p]
    BY DEF Removes
  <2> USE TypeParts DEF Inv, CommandTyped, PhaseTyped
  <2>1. PICK q \in Procs : Acts(q)
    <3>1. ~Edit  BY EditCases DEF command
    <3> QED BY <3>1, StepKinds
  <2>2. q = p  BY <2>1, OthersKeep
  <2>3. pc[p] \in {"installer", "execute"} \/ Ends(p)
    <3>1. ~(OpenInstaller(p) \/ Closes(p) \/ Reviews(p) \/ Begins(p) \/ Plans(p))
      <4>1. Plans(p) => todo[p] = {}  BY DEF Plans, Audited, PhasesOK, PhaseOK
      <4> QED BY <4>1 DEF OpenInstaller, Closes, CloseInstaller, ExecutionEnds,
                          Reviews, Begins, BeginSetup, BeginRemoval, Begin, Plans, command
    <3>2. ~Look(p)  BY DEF Look, command
    <3>3. InstallFile(p) \/ RecordReceipt(p) \/ Execute(p) \/ Ends(p)
      BY <2>1, <2>2, <3>1, <3>2 DEF Acts
    <3> QED BY <3>3 DEF InstallFile, RecordReceipt, Execute
  <2>4. CASE pc[p] \in {"installer", "execute"}
    BY <2>4 DEF LateOK, Acting
  <2>5. ~Ends(p)
    <3>1. Ends(p) => file' = file /\ written'[p] = {}  BY DEF Ends, End, machine
    <3> QED BY <3>1, Unalike, Kinds
  <2> QED BY <2>3, <2>4, <2>5
<1> QED BY <1>1, Inductive, PTL DEF Spec, SparesForeign, Removes

================================================================================
