----------------------------- MODULE PrintingPolicy -----------------------------
(***************************************************************************)
(* Setting up and removing the printing policy of one machine              *)
(* (printing_setup/setup_workflow.mjs, printing_removal/cli.mjs).  Each    *)
(* process runs one command after the other for some account: it audits    *)
(* the machine in several looks, decides, lets Apple Installer or its own  *)
(* privileged commands change the machine, and audits it again.  Commands  *)
(* of several processes interleave, a process may die, Apple Installer     *)
(* may stop half way, and an administrator may edit what lies there.       *)
(***************************************************************************)
EXTENDS PrintingAudit

CONSTANTS
  Procs,
  MaxRuns,      \* bound: commands run one after the other
  MaxBeside,    \* bound: commands run when they may overlap
  MaxEdits,     \* bound: edits by an administrator, while commands do not overlap
  MaxTurns,     \* bound: edits and commands together, once there is an edit
  Historic      \* the machine starts with the historical rules

ASSUME BuildsAssumption ==
  /\ MaxRuns \in Nat /\ Builds = 1..MaxRuns /\ MaxBeside \in 0..MaxRuns
  /\ MaxEdits \in Nat /\ MaxTurns \in Nat
ASSUME HistoricAssumption == Historic \in BOOLEAN

VARIABLES
  inTurn,       \* no two commands are run at once
  file,         \* what lies at each path
  directory,    \* /private/etc/tm-u220: "absent", "safe" or "unsafe"
  receipt,      \* the policy whose package receipt is recorded
  elsewhere,    \* rules outside the managed paths, for every account
  pc, task,     \* what each process does, and for which command
  report, look, \* its audit, and the next thing to look at
  policy,       \* setup: the policy under review
  written,      \* setup: what Apple Installer has written of it
  todo, revoked,\* removal: commands to run, rules to be gone
  outcome,
  runs, edits,
  held,         \* history: what a process is verifying has been the case
                \* at some moment since it began to verify
  missed,       \* history: before its removal, it took a receipt for absent
  late          \* history: where a foreign file appeared after it looked

machine == <<file, directory, receipt, elsewhere>>
command == <<task, policy, written, todo, revoked>>
audit   == <<report, look>>
history == <<held, missed, late>>
vars == <<machine, command, audit, pc, outcome, runs, edits, inTurn, history>>

Tasks    == {"setup", "remove"}
Looks    == <<"configuration", "rules", "grants", "receipt">>
Outcomes == {"none", "installed", "removed", "stopped"}

NoReport == [by |-> None, paths |-> "absent",
             file |-> [a \in Artifacts |-> Unread], grants |-> {},
             listed |-> FALSE, receipt |-> Unread]

HistoricHost == CHOOSE h \in Hosts : TRUE

Init ==
  /\ file = [a \in Artifacts |->
       IF Historic /\ a \in {"sudoers", "tombstone"} THEN Legacy ELSE None]
  /\ directory = "absent" /\ receipt = None /\ elsewhere = {}
  /\ pc = [p \in Procs |-> "idle"]
  /\ task = [p \in Procs |-> "setup"]
  /\ report = [p \in Procs |-> NoReport] /\ look = [p \in Procs |-> 1]
  /\ policy = [p \in Procs |-> None] /\ written = [p \in Procs |-> {}]
  /\ todo = [p \in Procs |-> {}] /\ revoked = [p \in Procs |-> {}]
  /\ outcome = [p \in Procs |-> "none"]
  /\ held = [p \in Procs |-> FALSE] /\ missed = [p \in Procs |-> FALSE]
  /\ late = [p \in Procs |-> {}]
  /\ runs = 0 /\ edits = 0
  /\ inTurn \in BOOLEAN

--------------------------------------------------------------------------------
(* The machine.                                                            *)

(* What sudo lets the account do: a policy's rules name its account, the   *)
(* historical rules lie at two paths and are those of every account here,  *)
(* like the edited ones, the tombstone of a policy grants nothing, and no  *)
(* more does a foreign file.                                               *)
EditedRules ==
  UNION {file[a].grants : a \in {b \in {"sudoers", "tombstone"} : file[b].is = "edited"}}

Permitted(account) ==
  elsewhere \cup EditedRules
  \cup (IF file["sudoers"].is = "policy" /\ file["sudoers"].account = account
        THEN Group({"live", "lpd"}, file["sudoers"].host) ELSE {})
  \cup (IF file["sudoers"] = Legacy THEN Group({"live"}, HistoricHost) ELSE {})
  \cup (IF file["tombstone"] = Legacy THEN Group({"lpd", "1022"}, HistoricHost) ELSE {})

Installed(p) ==
  /\ file["manifest"] = policy[p] /\ receipt = policy[p]
  /\ inTurn => /\ file["profile"] = policy[p]
               /\ Permitted(policy[p].account) = Group({"live", "lpd"}, policy[p].host)

Gone(p) == /\ \A a \in Artifacts : file[a] = None
           /\ directory = "absent" /\ (receipt = None \/ missed[p])
           /\ Permitted(report[p].by) \cap revoked[p] = {}

(* A change of the machine: the file, and the directory it lies in.        *)
Put(a, content) ==
  /\ file' = [file EXCEPT ![a] = content]
  /\ directory' = IF a \in {"manifest", "profile"} THEN "safe" ELSE directory

--------------------------------------------------------------------------------
(* Beginning a command, and its end, which leaves nothing in memory.  What *)
(* earlier commands have reported is kept until the next one begins.       *)

End(p, how) ==
  /\ pc' = [pc EXCEPT ![p] = "idle"]
  /\ outcome' = [outcome EXCEPT ![p] = how]
  /\ task' = [task EXCEPT ![p] = "setup"] /\ policy' = [policy EXCEPT ![p] = None]
  /\ written' = [written EXCEPT ![p] = {}]
  /\ todo' = [todo EXCEPT ![p] = {}] /\ revoked' = [revoked EXCEPT ![p] = {}]
  /\ report' = [report EXCEPT ![p] = NoReport] /\ look' = [look EXCEPT ![p] = 1]

Goto(p, there) == pc' = [pc EXCEPT ![p] = there] /\ UNCHANGED outcome

(* A report is used once.                                                  *)
Forget(p) ==
  /\ report' = [report EXCEPT ![p] = [NoReport EXCEPT !.by = report[p].by]]
  /\ look' = [look EXCEPT ![p] = 1]

Begin(p, what, account) ==
  /\ pc[p] = "idle"
  /\ IF inTurn THEN /\ runs < MaxRuns /\ (edits > 0 => runs + edits < MaxTurns)
                    /\ \A q \in Procs : pc[q] = "idle"
               ELSE runs < MaxBeside
  /\ runs' = runs + 1
  /\ task' = [task EXCEPT ![p] = what]
  /\ report' = [report EXCEPT ![p] = [NoReport EXCEPT !.by = account]]
  /\ look' = [look EXCEPT ![p] = 1]
  /\ pc' = [pc EXCEPT ![p] = "before"]
  /\ outcome' = [q \in Procs |-> "none"]
  /\ UNCHANGED <<machine, written, todo, revoked, edits>>

(* The address and the profile are given, chosen in the assistant, or      *)
(* those of the installed policy.                                          *)
BeginSetup(p) ==
  \E account \in Accounts, host \in Hosts, profile \in Profiles :
    /\ Begin(p, "setup", account)
    /\ policy' = [policy EXCEPT ![p] =
         [is |-> "policy", account |-> account, host |-> host,
          profile |-> profile, build |-> runs + 1]]

BeginRemoval(p) ==
  /\ \E account \in Accounts : Begin(p, "remove", account)
  /\ UNCHANGED policy

Auditing(p) == pc[p] \in {"before", "after"}
Audited(p, when, what) ==
  pc[p] = when /\ task[p] = what /\ look[p] > Len(Looks)

(* The audit looks at the directory and the two files in it, at the two    *)
(* files with rules, at the rules in force and at the receipt.  The rules  *)
(* may fail to be listed, and count as unread; the receipt may fail to be  *)
(* read, and counts as absent.                                             *)
Observe(p, seen) ==
  LET r == report[p] IN
  CASE seen = "configuration" ->
         {[r EXCEPT !.paths = directory,
             !.file = [a \in Artifacts |->
               IF a \notin {"manifest", "profile"} \/ directory = "unsafe"
               THEN Unread ELSE file[a]]]}
    [] seen = "rules" ->
         {[r EXCEPT !.file["sudoers"] = file["sudoers"],
                    !.file["tombstone"] = file["tombstone"]]}
    [] seen = "grants" ->
         {r, [r EXCEPT !.listed = TRUE, !.grants = Permitted(r.by)]}
    [] seen = "receipt" -> {[r EXCEPT !.receipt = found] : found \in {receipt, None}}

Look(p) ==
  /\ Auditing(p) /\ look[p] <= Len(Looks)
  /\ \E r \in Observe(p, Looks[look[p]]) : report' = [report EXCEPT ![p] = r]
  /\ look' = [look EXCEPT ![p] = @ + 1]
  /\ UNCHANGED <<machine, command, pc, outcome, runs, edits>>

--------------------------------------------------------------------------------
(* Setup.                                                                  *)

Decide(p) ==
  /\ Audited(p, "before", "setup")
  /\ \/ Preflight(report[p]) = "refused" /\ End(p, "stopped")
     \/ Preflight(report[p]) # "refused" /\ Goto(p, "review") /\ Forget(p) /\ UNCHANGED command
  /\ UNCHANGED <<machine, runs, edits>>

(* The package cannot be built, or the user cancels the review.            *)
Cancel(p) ==
  /\ pc[p] = "review"
  /\ End(p, "stopped")
  /\ UNCHANGED <<machine, runs, edits>>

(* Apple Installer runs one installation at a time.                        *)
OpenInstaller(p) ==
  /\ pc[p] = "review" /\ \A q \in Procs : pc[q] # "installer"
  /\ Goto(p, "installer")
  /\ UNCHANGED <<machine, command, audit, runs, edits>>

InstallFile(p) ==
  /\ pc[p] = "installer" /\ directory # "unsafe"
  /\ \E a \in Artifacts \ written[p] :
       Put(a, policy[p]) /\ written' = [written EXCEPT ![p] = @ \cup {a}]
  /\ UNCHANGED <<receipt, elsewhere, task, policy, todo, revoked, audit, pc, outcome,
                 runs, edits>>

RecordReceipt(p) ==
  /\ pc[p] = "installer" /\ written[p] = Artifacts
  /\ receipt' = policy[p]
  /\ written' = [written EXCEPT ![p] = @ \cup {"receipt"}]
  /\ UNCHANGED <<file, directory, elsewhere, task, policy, todo, revoked, audit, pc,
                 outcome, runs, edits>>

(* Apple Installer was closed, having done all, some or nothing.           *)
CloseInstaller(p) ==
  /\ pc[p] = "installer"
  /\ Goto(p, "after")
  /\ UNCHANGED <<machine, command, audit, runs, edits>>

ReportSetup(p) ==
  /\ Audited(p, "after", "setup")
  /\ End(p, IF VerifyInstalled(report[p], policy[p]) THEN "installed" ELSE "stopped")
  /\ UNCHANGED <<machine, runs, edits>>

--------------------------------------------------------------------------------
(* Removal.                                                                *)

Plan(p) ==
  /\ Audited(p, "before", "remove")
  /\ IF Removable(report[p])
     THEN /\ todo' = [todo EXCEPT ![p] = Operations(report[p])]
          /\ revoked' = [revoked EXCEPT ![p] = Revoked(report[p])]
          /\ Goto(p, "execute") /\ Forget(p)
          /\ UNCHANGED <<task, policy, written>>
     ELSE End(p, "stopped")
  /\ UNCHANGED <<machine, runs, edits>>

(* What a command run as root does when it succeeds.                       *)
Effect(p, op) ==
  CASE op \in Artifacts ->
         /\ file[op] # None
         /\ file' = [file EXCEPT ![op] = None] /\ UNCHANGED <<directory, receipt>>
    [] op = "visudo" ->
         /\ \A a \in {"sudoers", "tombstone"} : file[a] # Foreign
         /\ UNCHANGED <<file, directory, receipt>>
    [] op = "forget" ->
         receipt # None /\ receipt' = None /\ UNCHANGED <<file, directory>>
    [] op = "rmdir" ->
         /\ directory # "absent" /\ file["manifest"] = None /\ file["profile"] = None
         /\ directory' = "absent" /\ UNCHANGED <<file, receipt>>

Execute(p) ==
  /\ pc[p] = "execute"
  /\ \E op \in todo[p] :
       /\ First(op, todo[p])
       /\ Effect(p, op)
       /\ todo' = [todo EXCEPT ![p] = @ \ {op}]
  /\ UNCHANGED <<elsewhere, task, policy, written, revoked, audit, pc, outcome, runs, edits>>

(* The first command that fails is the last; the rest stays to be done.    *)
ExecutionEnds(p) ==
  /\ pc[p] = "execute"
  /\ Goto(p, "after")
  /\ UNCHANGED <<machine, command, audit, runs, edits>>

ReportRemoval(p) ==
  /\ Audited(p, "after", "remove")
  /\ End(p, IF todo[p] = {} /\ VerifyRemoved(report[p], revoked[p])
            THEN "removed" ELSE "stopped")
  /\ UNCHANGED <<machine, runs, edits>>

--------------------------------------------------------------------------------
(* The surroundings.                                                       *)

(* The process is killed, or the reviewer cannot open Apple Installer.     *)
Die(p) ==
  /\ pc[p] # "idle"
  /\ End(p, "stopped")
  /\ UNCHANGED <<machine, runs, edits>>

(* An administrator deletes a file, or leaves another one: of rules, one   *)
(* that allows nothing with netcat, just what a policy does, or the same   *)
(* without its restrictions.                                               *)
Allowed ==
  {{}} \cup {[command : {"live", "lpd"}, host : {h}, strict : {s}] : h \in Hosts, s \in BOOLEAN}

Left(a) ==
  {None, Foreign}
  \cup (IF a = "manifest" THEN {} ELSE
        [is : {"edited"}, grants : IF a = "profile" THEN {{}} ELSE Allowed])

(* Or another rule appears, or the directory loses its owner or mode.      *)
Edit ==
  /\ inTurn /\ edits < MaxEdits /\ runs + edits < MaxTurns
  /\ edits' = edits + 1
  /\ \/ /\ \E a \in Artifacts : \E content \in Left(a) :
             file[a] # content /\ Put(a, content)
        /\ UNCHANGED <<receipt, elsewhere>>
     \/ \E c \in {"other", "broad"}, h \in Hosts :
          /\ elsewhere' = {[command |-> c, host |-> h, strict |-> TRUE]}
          /\ UNCHANGED <<file, directory, receipt>>
     \/ directory' = "unsafe" /\ UNCHANGED <<file, receipt, elsewhere>>
  /\ UNCHANGED <<command, audit, pc, outcome, runs>>

Setup(p) ==
  \/ BeginSetup(p) \/ Decide(p) \/ Cancel(p) \/ OpenInstaller(p) \/ InstallFile(p)
  \/ RecordReceipt(p) \/ CloseInstaller(p) \/ ReportSetup(p)

Removal(p) ==
  BeginRemoval(p) \/ Plan(p) \/ Execute(p) \/ ExecutionEnds(p) \/ ReportRemoval(p)

(* Keeps the history.                                                      *)
Verifying(p) == IF task[p] = "setup" THEN Installed(p) ELSE Gone(p)

Misses(p) ==
  pc[p] = "before" /\ look[p] = 4 /\ look'[p] = 5 /\ report'[p].receipt # receipt

LookAt(a) == IF a \in {"manifest", "profile"} THEN 1 ELSE 2

(* A process acts upon what its first audit saw until it audits again.     *)
Acting(p) == pc[p] \in {"before", "review", "installer", "execute"}
Planned(p, a) == Acting(p) /\ (pc[p] = "before" => look[p] > LookAt(a))

Appeared(p) == {a \in Artifacts : Planned(p, a) /\ file[a] # Foreign /\ file'[a] = Foreign}

Witness ==
  /\ missed' = [p \in Procs |-> pc'[p] # "idle" /\ (missed[p] \/ Misses(p))]
  /\ held'   = [p \in Procs |-> pc'[p] = "after" /\ (held[p] \/ Verifying(p)')]
  /\ late'   = [p \in Procs |-> IF Acting(p)' THEN late[p] \cup Appeared(p) ELSE {}]

Next ==
  /\ \/ \E p \in Procs : Look(p) \/ Setup(p) \/ Removal(p) \/ Die(p)
     \/ Edit
  /\ UNCHANGED inTurn
  /\ Witness

Spec == Init /\ [][Next]_vars

--------------------------------------------------------------------------------
(* Properties.                                                             *)

(* Every variable has its type.                                            *)
TypeOK ==
  /\ file \in [Artifacts -> Contents]
  /\ directory \in {"absent", "safe", "unsafe"}
  /\ receipt \in Policies \cup {None}
  /\ elsewhere \in SUBSET Grants
  /\ pc \in [Procs -> {"idle", "before", "review", "installer", "execute", "after"}]
  /\ task \in [Procs -> Tasks]
  /\ report \in [Procs -> Reports]
  /\ look \in [Procs -> 1..(Len(Looks) + 1)]
  /\ policy \in [Procs -> Policies \cup {None}]
  /\ written \in [Procs -> SUBSET (Artifacts \cup {"receipt"})]
  /\ todo \in [Procs -> SUBSET (Artifacts \cup {"visudo", "forget", "rmdir"})]
  /\ revoked \in [Procs -> SUBSET Grants]
  /\ outcome \in [Procs -> Outcomes]
  /\ held \in [Procs -> BOOLEAN] /\ missed \in [Procs -> BOOLEAN]
  /\ late \in [Procs -> SUBSET Artifacts]
  /\ runs \in 0..MaxRuns /\ edits \in 0..MaxEdits /\ inTurn \in BOOLEAN

Becomes(p, how) == outcome[p] # how /\ outcome'[p] = how

(* An audit is no single moment: three edits, or a third command, can keep *)
(* something in place at every moment and yet out of each look's sight.    *)
FewEdits == inTurn => edits <= 2
FewRuns  == ~inTurn => runs <= 2

(* Setup reports success only if, at some moment since Apple Installer was *)
(* closed, the reviewed manifest and the receipt of its package were both  *)
(* in place; and, when no command ran beside it and there were few edits,  *)
(* with them the reviewed profile, and rules in force for the account that *)
(* are exactly the policy's, whoever wrote them (verifyInstalledSetup).    *)
InstalledWasThere ==
  /\ []TypeOK
  /\ [][\A p \in Procs : FewEdits /\ Becomes(p, "installed") => held[p]]_vars

(* With few changes, removal reports success only if, at some moment since *)
(* its last command, files and directory were gone and no rule it set out  *)
(* to revoke was in force; and the receipt was gone with them, unless the  *)
(* audit before the removal took one that was there for absent             *)
(* (verifyRemoval, auditPackageReceipt).                                   *)
RemovedWasGone ==
  [][\A p \in Procs : FewEdits /\ FewRuns /\ Becomes(p, "removed") => held[p]]_vars

(* The documentation promises it without the exception: a removal is       *)
(* refused when the state of the receipt cannot be inspected, and complete *)
(* only when the receipt is verified to be absent.                         *)
RemovedForgot ==
  [][\A p \in Procs : inTurn /\ Becomes(p, "removed") => receipt = None]_vars

Removes(p, a) == a \in todo[p] \ todo'[p] /\ file[a] # None /\ file'[a] = None

(* When no other command is run beside it, removal takes the rules away    *)
(* before the manifest that says what they are, wherever it stops, and     *)
(* takes away only a manifest of the account it was called for.            *)
RevokesFirst ==
  [][\A p \in Procs : inTurn /\ Removes(p, "manifest") =>
       /\ file["sudoers"].is # "policy" /\ file["tombstone"] # Legacy
       /\ file["manifest"].is = "policy" => file["manifest"].account = report[p].by]_vars

(* A foreign file is replaced by setup or taken away by removal only if it *)
(* appeared after they had looked there: review, Apple Installer and the   *)
(* commands of a removal act upon that look, however old it is.  An edited *)
(* file that keeps its metadata has no such protection.                    *)
SparesForeign ==
  [][\A p \in Procs, a \in Artifacts :
       file[a] = Foreign /\ (a \in written'[p] \ written[p] \/ Removes(p, a)) => a \in late[p]]_vars

(* With nothing of a policy installed, as long as a historical rule at a   *)
(* managed path lets an account run commands as root, setup or removal     *)
(* accepts the machine: no one has to edit the rules by hand.              *)
Fresh(account) ==
  [by |-> account, paths |-> directory, file |-> file,
   grants |-> Permitted(account), listed |-> TRUE, receipt |-> receipt]

RemovalStaysAvailable ==
  \A account \in Accounts :
    /\ \A p \in Procs : pc[p] = "idle"
    /\ directory # "unsafe" /\ \A a \in Artifacts : file[a] \in {None, Legacy}
    /\ Permitted(account) # elsewhere
    => Removable(Fresh(account)) \/ Preflight(Fresh(account)) # "refused"

================================================================================
