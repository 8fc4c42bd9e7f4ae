----------------------------- MODULE PrintingAudit -----------------------------
(***************************************************************************)
(* The machine's printing policy as one audit reports it                   *)
(* (printing_setup/audit.mjs), and everything setup and removal decide     *)
(* from such a report: what is healthy, what setup may replace, what       *)
(* removal may remove, and when either may claim success.                  *)
(*                                                                         *)
(* A policy is the account, the printer's address and the profile it was   *)
(* made for, with the number of the setup run that built it: the time in   *)
(* the manifest and in the package version.  What lies at a path is the    *)
(* policy it was written for, the historical rules, or what else someone   *)
(* left there.  Of a file with rules the audit reads owner, mode, type,    *)
(* links and size, never the contents: sudo alone tells what they allow.   *)
(* So a foreign file shows, by its metadata (or as a manifest that does    *)
(* not parse), and an edited one, whose metadata and size are those of a   *)
(* policy's, does not.  The files of any two policies have the same size,  *)
(* and the historical rules have another.                                  *)
(***************************************************************************)
EXTENDS Integers, Sequences, FiniteSets

CONSTANTS
  Accounts, Hosts, Profiles,
  Builds         \* numbers of setup runs

ASSUME AccountsAssumption == Accounts # {} /\ Hosts # {} /\ Profiles # {}

Artifacts == {"manifest", "profile", "sudoers", "tombstone"}

Policies == [is : {"policy"}, account : Accounts, host : Hosts,
             profile : Profiles, build : Builds]
None     == [is |-> "none"]
Legacy   == [is |-> "legacy"]
Foreign  == [is |-> "foreign"]
Unread   == [is |-> "unread"]

(* A rule that lets the account run commands as root without a password:   *)
(* the group of netcat commands it names, for which address, and whether   *)
(* it has every required restriction.                                      *)
Commands == {"live", "lpd", "1022", "other", "broad"}
Grants   == [command : Commands, host : Hosts, strict : BOOLEAN]

Edited   == [is : {"edited"}, grants : SUBSET Grants]
Contents == Policies \cup Edited \cup {None, Legacy, Foreign}

Reports == [by : Accounts \cup {None}, paths : {"absent", "safe", "unsafe"},
            file : [Artifacts -> Contents \cup {Unread}],
            grants : SUBSET Grants, listed : BOOLEAN,
            receipt : Policies \cup {None, Unread}]

--------------------------------------------------------------------------------
(* What the audit derives from the manifest.                               *)

Managed(r) == r.file["manifest"].is = "policy"
Here(r, a) == r.file[a].is \notin {"none", "unread"}

Group(commands, host) == [command : commands, host : {host}, strict : {TRUE}]

Expected(r) ==
  IF Managed(r) THEN Group({"live", "lpd"}, r.file["manifest"].host) ELSE {}

Same(g, h) == g.command = h.command /\ g.host = h.host

Broad(r)   == {g \in r.grants : g.command = "broad"}
Missing(r) == IF r.listed THEN Expected(r) \ r.grants ELSE Expected(r)
Weak(r)    == {g \in r.grants : ~g.strict /\ \E e \in Expected(r) : Same(g, e)}
Extra(r)   == {g \in r.grants \ Broad(r) : ~\E e \in Expected(r) : Same(g, e)}

Exact(r) == r.listed /\ Missing(r) \cup Weak(r) \cup Extra(r) \cup Broad(r) = {}

(* The metadata of a file agrees with its place, and its size with the     *)
(* manifest, if there is one.                                              *)
Valid(r, a) ==
  r.file[a].is \in {"policy", "edited"} \cup (IF Managed(r) THEN {} ELSE {"legacy"})

ProfileMatches(r) ==
  Managed(r) => /\ r.file["profile"].is = "policy"
                /\ r.file["profile"].profile = r.file["manifest"].profile

(* collectAuditIssues finds nothing.                                       *)
Healthy(r) ==
  /\ r.paths # "unsafe"
  /\ Managed(r) /\ r.file["manifest"].account = r.by
  /\ \A a \in Artifacts : Here(r, a) /\ Valid(r, a)
  /\ ProfileMatches(r)
  /\ r.receipt.is = "policy"
  /\ Exact(r)

--------------------------------------------------------------------------------
(* setup_preflight.mjs: what setup finds before it builds a package.       *)

(* The historical policies: the live commands, with or without those for   *)
(* LPD, with or without the one on port 1022.                              *)
LegacyShapes(host) ==
  {Group(c, host) : c \in {{"live"}, {"live", "lpd"}, {"live", "lpd", "1022"}}}

IsLegacy(r) == \E host \in Hosts : Extra(r) \in LegacyShapes(host)

AllowedExtra(r) ==
  \/ Extra(r) = {}
  \/ Extra(r) = Group({"1022"}, r.file["manifest"].host)

Secure(r) ==
  \A a \in Artifacts : /\ r.file[a] # Unread
                       /\ Here(r, a) => Valid(r, a)

Stray(r)      == Here(r, "profile") /\ ~Here(r, "manifest")
Privileged(r) == Here(r, "sudoers") \/ Here(r, "tombstone")

(* Of the installed state, one of "active", "repair", "uninspected",       *)
(* "fresh" and "legacy", or else "refused".                                *)
Preflight_Unlisted(r) ==                                            \* fault
  IF r.paths = "unsafe" \/ Stray(r) THEN "refused"
  ELSE IF ~r.listed THEN IF Managed(r) THEN "repair" ELSE "uninspected"
  ELSE IF ~Secure(r) \/ Broad(r) \cup Weak(r) # {} THEN "refused"
  ELSE IF Managed(r) THEN IF Healthy(r) THEN "active" ELSE "repair"
  ELSE IF Privileged(r) THEN "legacy" ELSE "fresh"
Preflight(r) ==
  IF r.paths = "unsafe" \/ ~Secure(r) \/ Stray(r) THEN "refused"
  ELSE IF ~r.listed THEN IF Managed(r) THEN "repair" ELSE "uninspected"
  ELSE IF Broad(r) \cup Weak(r) # {} THEN "refused"
  ELSE IF Managed(r)
       THEN IF ~AllowedExtra(r) THEN "refused"
            ELSE IF Healthy(r) THEN "active" ELSE "repair"
  ELSE IF ~Privileged(r) /\ Extra(r) = {} THEN "fresh"
  ELSE IF Privileged(r) /\ IsLegacy(r) THEN "legacy"
  ELSE "refused"

(* setup_verification.mjs: the report shows the policy that was reviewed.  *)
VerifyInstalled_Healthy(r, policy) == Healthy(r)                    \* fault
VerifyInstalled(r, policy) ==
  /\ Healthy(r)
  /\ r.receipt.build = policy.build
  /\ r.file["manifest"] = policy
  /\ r.file["profile"].profile = policy.profile

--------------------------------------------------------------------------------
(* printing_removal: which state may be removed, by which commands, and    *)
(* when it is gone.                                                        *)

Removable(r) ==
  /\ Managed(r) => r.file["manifest"].account = r.by
  /\ r.receipt # Unread
  /\ \/ Preflight(r) = "active"
     \/ Preflight(r) = "legacy" /\ r.receipt = None

(* The commands to run as root, one after the other, in this order.        *)
Place_ManifestFirst(op) ==                                          \* fault
  CASE op = "manifest" -> 1 [] op = "profile" -> 2
    [] op = "sudoers"  -> 3 [] op = "tombstone" -> 4
    [] op = "visudo"   -> 5 [] op = "forget" -> 6 [] op = "rmdir" -> 7
Place(op) ==
  CASE op = "sudoers"  -> 1 [] op = "tombstone" -> 2
    [] op = "manifest" -> 3 [] op = "profile" -> 4
    [] op = "visudo"   -> 5 [] op = "forget" -> 6 [] op = "rmdir" -> 7

Operations(r) ==
  {a \in Artifacts : Here(r, a)} \cup {"visudo"}
    \cup (IF r.receipt = None THEN {} ELSE {"forget"})
    \cup (IF r.paths = "absent" THEN {} ELSE {"rmdir"})

First(op, todo) == op \in todo /\ \A other \in todo : Place(op) <= Place(other)

Revoked(r) == IF Managed(r) THEN Expected(r) ELSE Extra(r)

VerifyRemoved_RulesOnly(r, revoked) ==                              \* fault
  r.listed /\ r.grants \cap revoked = {}
VerifyRemoved(r, revoked) ==
  /\ r.paths = "absent"
  /\ \A a \in Artifacts : r.file[a] = None
  /\ r.receipt = None
  /\ r.listed
  /\ (r.grants \cap revoked) \cup Broad(r) \cup Extra(r) = {}

================================================================================
