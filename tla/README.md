# Formal models of tm-u220-formatter

tm-u220-formatter turns text jobs into ESC/POS bytes for an Epson TM-U220
receipt printer, previews them, and sends them to the printer over raw TCP, LPD
or a live session that waits for the printer after every step. It also installs
itself, keeps configuration and image profiles, and serves two local editors.

This directory holds TLA+ modules of the parts in which order, failure and
concurrency decide whether the program is right, TLC configurations that check
them on small instances, and TLAPS proofs for every value of the constants.
`PROJECT.json` is the index: components, runs, mutants, the source lines behind
every definition, hazards, findings and theorems.

    tlasany LiveSession.tla                              # parse
    tlc -config LiveSession.cfg MCLiveSession            # model-check
    tlapm LiveSessionProofs.tla                          # prove

## 1. Modules

| module | stands for | kind |
|---|---|---|
| `CheckpointDelivery` | what a live session promises about a job | abstract specification |
| `LiveSession` | `libexec/live_session/`, `libexec/tm-u220-live-session.mjs`, and the acceptance of its record in `transport/live_raw/process.lua` | specification |
| `LiveSessionProofs` | inductive invariant of `LiveSession`, its theorems, the refinement | proofs |
| `LpdSession` | `libexec/tm-u220-lpd-session` (several at once), the LPD server, and the verdict of `transport/lpd/process.lua` | specification |
| `LpdSessionProofs` | theorems of `LpdSession` | proofs |
| `ExclusiveLock` | what the installation lock promises | abstract specification |
| `InstallLock` | `install/lock.mjs`, several processes, deaths and errors | specification |
| `InstallTransaction` | `install/transaction.mjs`, `install/uninstall.mjs` and the inspections they rely on, under an `ExclusiveLock` | specification |
| `InstallerProofs` | theorems of `InstallTransaction` and of `InstallLock`, with its refinement of `ExclusiveLock` | proofs |
| `PrintingAudit` | what setup and removal of the printing policy decide from one audit report | operators |
| `PrintingPolicy` | the workflows of `printing_setup` and `printing_removal`, several at once, on one machine | specification, over `PrintingAudit` |
| `PrintingPolicyProofs` | theorems of `PrintingPolicy` | proofs |
| `PrintingPackage` | the package of a setup, from its parts to Apple Installer | specification |
| `DeviceProbe` | `printing_setup/device_probe.mjs` and the verdict of `status_cli.mjs` | specification |
| `PrintingSetupProofs` | theorems of `DeviceProbe` and of `PrintingPackage` | proofs |
| `PreviewService` | what a preview server promises about requests | abstract specification |
| `PreviewQueue` | `image_profile_editor/preview_queue.mjs` and the worker of `compiler.mjs` | part of a specification |
| `PreviewRefresh` | the preview of a page, `web/orchestration/preview-refresh.js` and `web/image_profile_editor/preview-refresh.js` | part of a specification |
| `Previews` | the composition of the two | specification |
| `PageDocument` | the receipt editor's document: `web/app.js`, `file-actions.js`, `web/server/document.mjs` | specification |
| `WebEditorProofs` | theorems of `PreviewQueue`, of `Previews`, with its refinement of `PreviewService`, and of `PageDocument` | proofs |
| `ProfileEditing` | pages of the image profile editor, its guarded saves, and other programs that write the file | specification |
| `ProfileEditingProofs` | theorems of `ProfileEditing` | proofs |
| `GlyphEditing` | `dev/glyph_editor`, pages and server | specification |
| `GlyphEditingProofs` | theorems of `GlyphEditing` | proofs |
| `MC...` | values of the constants for TLC | instances |

Definitions marked `fault` and named `X_Something` are variants of `X` as a
plausible mistake would write it. No specification uses them; they are there to
show that the properties notice the mistake (`mutants` in `PROJECT.json`).

The type invariant of every detailed specification is proved, as a theorem of its own or as
a conjunct of its inductive invariant, and most are also checked as a conjunct of one of the
run's properties (`OwnContent`, `ReportedWasStored`, `StaysReadable`, `VerifiedIsGenuine`,
`OwnPreview`, `InstalledWasThere`). Modules that one module of proofs joins have names
of their own for what they share: `LockSpec`, `ProbeInv`, `documentVars`.

## 2. The live session

### Parts and correspondence

`220 print --live` compiles the job, cuts it into checkpoint steps and starts
the Node controller with a plan. The controller opens `nc` through `sudo` from
one of the authorized source ports, switches the printer's automatic status
(ASB) off, asks four status queries, and releases the steps one at a time:
payload, then `GS r 1`, whose one-byte answer confirms the step. Three parties
run concurrently: the controller (one thread, interruptible only where it
awaits), the network with `nc`, and the printer.

| in the model | in the code |
|---|---|
| `pc = "open"`, `Connect`, `port` | the loop of `connect` over `plan.sourcePorts`, `openNetcat` |
| `pc = "opened"`, `AsbDisableWritten` | `await connection.write(ASB_DISABLE)` in `preflight` |
| `pc = "exchange"` / `"answer"`, `query`, `fault` | the two halves of `exchange`, and `deviceFailure` over the four answers |
| `pc = "check"` | `pendingUnexpectedByte` before a step |
| `pc = "response"` | `readFramedStatus` after `connection.write(checkpointRequest(...))` |
| `pc = "after"` | `pendingUnexpectedByte` after a valid answer |
| `confirmed`, `released` | `confirmedSteps`, and `releasedBytes` counted in steps |
| `cancelled` | `cancellation.requested` |
| `tail` | the progress of `consumeAsbTail` |
| `fromPrinter`, `buffered`, `received` | bytes under way, the part of them in the `ByteReader`, `receivedBytes() > 0` |
| `conn` | "up" until `nc` ends or its stdin breaks; "ended" once the controller can see it |
| `toPrinter`, `asb`, `printed` | commands under way and in the printer's buffer, its automatic status, its paper |
| `result` | the tab-separated record `writeResult` leaves for the Lua side |

Each host action runs from one await to the next, so bytes, the loss of the
connection and the user's key arrive only in `HostWaiting`: exactly the places
where the JavaScript event loop can run. `NextStep` looks at the cancellation
flag where the code does, at the loop head and not after the next await.
Bytes of the printer arrive in chunks of any length. A deadline may pass at any
moment at which the `ByteReader` is empty (`ReadFails`). After
`LoseConnection` the printer still carries out whatever is in `toPrinter`, or
none of it, at any later time.

The printer is external. It is modelled from how the controller talks to it:
`DLE EOT` is answered at once, everything else
in order; `ESC @` restores automatic status and `GS a 0` ends it; while it is on,
four-byte frames may be sent at any time. `SendStrayByte` adds bytes nobody
asked for, for which `LIVE_UNEXPECTED_STATUS` exists.

### Properties

- `ResultTellsTruth`: the record is right about the paper for good, also about
  what the printer may still do after the record is written.
- `CheckpointAnswerIsOwn`: the byte taken as the answer of a checkpoint is the
  printer's answer to that checkpoint, not a byte of a status frame or an
  earlier answer. This is what the drain before and after each step is for.
- `CancelStopsRelease`: after a cancellation was seen no further step is released.
- `Termination`: the session ends, also when the printer answers late, wrongly or not at all
  and when the network breaks, as long as only `MaxAsb` frames and `MaxStray` bytes come
  unasked. Each read of a frame has a deadline of its own (`framing.mjs:21`), so a printer
  that never stops sending frames does hold the session; no property excludes that.
- `ImplementsDelivery`: with `outcome` computed from the record, the session
  refines `CheckpointDelivery`, which knows only the three counters.

Theorems, no longer part of the run because the refinement and the others rest on
them: `PrintedOnceInOrder`, `ConfirmedWasPrinted` (nothing is printed twice or out of
order, and a confirmed step is on paper), `AsbOffAtCheckpoint` (why
`checkpointRequest` puts `GS a 0` after every `ESC @`), `ResultIsAccepted` (`parse_result`
refuses no record the controller writes), `RotatesOnlyBeforeAnswer`.

### Runs

`live_session`: three steps (the first and third contain an `ESC @`), two ports,
two automatic frames, one stray byte, cancellation and connection loss anywhere.
Three steps are needed for a step with a confirmed one before it and another
after it; two ports for one rotation and the exhaustion of the list; two frames
so that one can stand before an answer while another is being skipped. Frame
tails look like a paper status, the only value that could be taken for an answer.

`LiveSessionLostDrain.cfg` and `LiveSessionLateCancel.cfg` check properties that do not
hold, see Findings.

Fairness is `WF(Host)`: the controller's process runs, every single read has a deadline
(`ByteReader.read`), and a write completes or fails with `nc`, which has
`-w timeout`. Nothing is assumed of the printer, the network or the user but the bound on unasked bytes.

### Proofs

All safety properties above and the refinement are proved for every number of
steps, every number and place of `ESC @`, every port list and every bound on
frames and stray bytes, under one hypothesis, `CleanLine`: no stray byte looks
like an ASB header. Without it the framing really can slip (see Findings), and
`CheckpointAnswerIsOwn` would be about three bytes nobody can tell apart.

The inductive invariant `IInv` is needed because none of the properties is
inductive. Its parts: `Framed` (the stream is whole frames and single bytes, cut
at most in the first frame, by as many bytes as `tail` says), `Answered` (at most
one byte under way looks like an answer, and it belongs to the step in flight,
which is printed by then), `Queued` (every `ESC @` in the queue is followed by
its disable; the output of the released step stands before the last command,
its `GS r 1`), `AsbGuarded` (automatic status is on only while a disable is on
its way), and the relation of the counters to the paper at each `pc`. The proof
has one lemma per part, each with one step per action.

## 3. Whole-job printing over LPD

### Parts and correspondence

`transport/lpd/process.lua` runs the Perl helper `tm-u220-lpd-session` with the
payload on its standard input and reads one record from its standard output. The
helper starts at a port given by its process id, opens `nc` from that port and
sends `receive_job`; a failure without an answer moves on to the next port. Then
it sends control header, control file, data header and data file, each after the
acknowledgement of the one before. Several users may print at the same time, so
helpers compete for the ports.

| in the model | in the code |
|---|---|
| `Jobs`, `Offset`, `Port` | processes, `$$ % @source_ports`, the port of a turn |
| `OpenConnection`, `OpenFails` | `open3` in `open_connection`; `nc` failing to bind or connect is seen only later |
| `WriteStage`, `WriteFails` | `try_write_all` |
| `ReceiveAck`, `ReceiveNack`, `AckFails` | the outcomes of `try_receive_ack` |
| `Ambiguous`, `Rotate` | the failure branches of `begin_job`, of the port loop and of the stage loop |
| `Stop`, `record` | `stop` and the final `ok` line |
| `CloseConnection` | `close_connection`: what was written may still be delivered |
| `AnswerStage`, `queued` | the LPD server (external): one answer per stage, the job is queued with the last |
| `EndConnection` | the connection breaks, or a closed one comes to its end and frees its port |
| `Acceptance` | `parse_success` and `parse_failure` of `process.lua` |

A write is modelled without a deadline because it has none: `syswrite` to the
pipe of `nc` blocks while the printer does not read. The four small stages fit into
the pipe; the payload may not. `Stalled` names this state.

`transport/lpd/session_submit.lua`, `protocol.lua` and `init.lua` speak the same
protocol through an adapter that only the tests supply; they are not modelled
separately.

### Properties

- `QueuedAtMostOnce`: no job is printed twice, whatever is lost or late.
- `VerdictIsTrue`: what the caller is told holds of the printer, including what
  is still in a closed connection.
- `EveryPortTried`: the helper gives up only when all ports were tried, from
  whatever place it starts.
- `EndsUnlessStalled`: a helper ends or hangs in the write of its payload.

Theorems besides: `FilesOnOneConnection`, the reason for the first (only `receive_job`
is repeated), and `AckCountIsTrue` (the count in the record is that of the bytes read).

### Run

`lpd_session`: two helpers and two ports, starting at different ports. Two helpers are
needed for a port that is in use or not yet free again; two ports for a rotation
that succeeds and one that exhausts the list. All five stages are kept, since
the verdict depends on the stage.

Fairness: `WF(Helper(j) /\ ~Stalled(j))` for each helper. Acknowledgements have a
deadline of six seconds, the small writes complete, and `nc` ends by its timeout.
Nothing is assumed of the printer, the network or the users.

### Proofs

`TypeOK`, `FilesOnOneConnection`, `QueuedAtMostOnce`, `VerdictIsTrue`,
`AckCountIsTrue` and `EveryPortTried` are proved for every set of helpers, every number of
ports and all offsets. The inductive invariant says that the helper's stage is the number
of answers it read from its present connection plus one (`HelperShape`), that
connections it left carry at most `receive_job` (`SentShape`), that the printer
is at most one answer ahead of the helper (`AnswerShape`), and that a queued job
has used up the present connection (`QueuedShape`), so that it cannot be queued
again. `EveryPortTried` needs `TriedShape` besides: every turn up to the present one has
used its connection, and only the last turn records that no port was left. That as many
turns as ports reach every port, from whatever offset, is arithmetic modulo the number of
ports (`FullTurn`). Liveness stays with TLC.

## 4. The installation lock

### Parts and correspondence

Install and uninstall run under a lock directory `.tm-u220-install.lock` with one
file that names the owner's pid and a nonce. A process that finds a lock whose
owner is dead makes a recovery directory, looks again, renames the lock to a
quarantine named for the owner's nonce, looks at it there, removes it and tries
once more. Residues of a recovery stop every later install.

Every file system call is an action (`MakeLock`, `CreateOwner`, `WriteOwner`, `Look`,
`MakeRecovery`, `Relook`, `RenameLock`, ...), since other processes run between any
two of them. A process may die before any call (`Crash`), calls may fail, and
`ProcessActive` may take the pid of a dead process for alive, because another one has
it by now. `lock` and `quarantine[p]` hold "missing", "empty", "partial" (a file
not written completely) or the process whose complete owner file is there.
The work under the lock is the single place "hold".

### Properties, run and proofs

`RecoveryIsAttended` (recoveries exclude one another and always take their directory
away unless they die or the removal fails) and `NothingLeftBehind` (when all have ended
or died and none met an error, whatever blocks the next install is the work of a death
at that very place). `ImplementsLock`: with the processes between acquisition and release
as holders, the lock refines `ExclusiveLock`, which is all that `InstallTransaction`
knows of it. Theorems besides: `MutualExclusion`, `OwnershipNeverChanges` (release never
finds a foreign lock), `QuarantineIsDead`.
`install_lock` checks them with four interchangeable
processes, enough for a dead owner, a recoverer, a process acting on an outdated
report and a newcomer; symmetry is sound because there is no liveness property.
There is no fairness: each of these is a safety property, and a dead process need
not move.

All of them are proved for every set of processes (`Runs`; where one is in the code is
`call`, what it came to `ending`). The argument: only the
process that made the lock directory, while it runs, and the one process in
recovery change the lock; a recovery is about a lock whose owner is dead, and a
dead owner changes nothing, so what the recoverer saw the second time is what it
renames. The invariant records, for each place in the code, what the process knows
there, and for everything left on disk who answers for it.

## 5. The installation transactions

### Parts and correspondence

`installRelease` makes the directories, stages a release, renames it into place and
renames three links to it: `current` and the launchers `220` and `tm-u220-install`.
Every failure is undone by the rollback of `activateLinks` and the `finally` clauses.
`uninstall` moves the tree and both launchers to reserved names and then deletes
them. As long as nothing is deleted a failure moves them back; after that the reserved
names stay and block every later install. Both run under the lock.

| in the model | in the code |
|---|---|
| `root`, `moved` | `lib/tm-u220` and the tree an uninstall moved aside: releases "none", "part" or "whole", the stage, the target of `current`, temporary links beside it |
| `links` | the launchers in `bin` and their backups under reserved names |
| `prior` | the links `activateLinks` read, the releases `uninstall` confirmed |
| `created`, `activated` | `createdDirectories` and `createdRelease`; the loop counter |
| `Residues`, `Healthy`, `Acceptable`, `Intact` | `inspectRemovalResidues`, `inspectInstallation`, `validatePriorState` with `enforceVersionTransition`, `quarantineIsIntact` |
| `outcome` | "failed" for the error met first, "unrestored" for an `AggregateError`, "error" for an error of a `finally` clause that replaces the other, "stopped" for "uninstall stopped after payload deletion began" |

Every call that changes the disk is an action and may fail; a process may die before
any of them (`Die`), and the next command starts from what is there. A release is
written and deleted file by file; the model has two steps, since any part of a release
is unhealthy. Temporary links in `bin` are noticed by no inspection and left out.
A failed `release()` of the lock belongs to `InstallLock`; here other commands may
be refused the lock at any time (`LockRefused`).

### Properties and runs

- `CurrentIsWhole`: `current` points to a complete release at every moment.
- `OnlyUninstallStops`: once `220` can be run, upgrades, failures, rollbacks and deaths
  never take it away, not even between two steps.
- `FailedChangesNothing`: an install or uninstall that ends with the error it met, also
  "the prior installation was restored", left links, releases and trees as they were,
  but for empty directories.
- `SuccessIsComplete`: a successful install is healthy and no downgrade, although its
  first checks were made before it had the lock; a successful uninstall leaves nothing.

`install_transaction`: two processes, two releases, four commands in all. Two
processes are needed for checks that are outdated once the lock is held; two releases for an
upgrade, a downgrade and a deletion that fails after the first release; four commands
for an install, an upgrade that dies, and the two commands after it. `InstallActivation.cfg`
checks a property that does not hold, see Findings. No fairness: all of it is safety.

### Proofs

All four properties, `TypeOK` and `NoInstallBesideResidue` (nothing is installed beside a
tree that was moved aside; only the second look under the lock makes this so) are proved for
every set of processes and every number of releases and commands. The invariant `IInv` has
three layers. `LockOK`: a process is a holder exactly from `Acquire` to the end, and there is
one. `DiskOK`: what is true of the disk whoever holds the lock, also after a death.
`HolderOK`: for each place of a command, what it knows of the disk compared with `prior`, which is
what it found: `Accepted` is what `Validate` established, `Published`, `Activated` and `Deactivated`
follow the release and its links through `activateLinks` and its rollback, `Aside`, `Deleting` and
`Resemble` follow the tree an uninstall moved. It is needed because a property such as
`FailedChangesNothing` speaks of the end, and only the place says how much is undone by
then. Only the holder's facts can be disturbed, and only by the holder (`HolderKeeps`,
`OtherStep`, `HolderStep`); so the proof has one lemma per action, each with one step per layer.
`OnlyAnUninstallStops` uses of the invariant that the rollback of an upgrade restores a link
that was there (`Accepted`), and that a tree is deleted only after it was moved.

## 6. The printing policy

### Parts and correspondence

`220 setup-printing` gives an account rules for running `nc` from privileged ports without a
password. It audits the machine, builds a package, lets the user review it, waits for Apple
Installer and audits again. `220 remove-printing` audits, plans commands for root, runs them
until one fails and audits again. Machines of an earlier version have two files of historical
rules, which setup replaces and removal takes away.

| in the model | in the code |
|---|---|
| `file`, `directory`, `receipt`, `elsewhere` | manifest, profile and the two files of rules; `/private/etc/tm-u220`; the package receipt; rules elsewhere |
| a policy `[account, host, profile, build]` | what the manifest says, with the time it was built |
| `report`, `look`, `Look` | the audit, which looks at one thing after the other (`audit.mjs`) |
| `PrintingAudit`: `Preflight`, `Removable`, `Operations`, `VerifyInstalled`, `VerifyRemoved`, `Healthy` | `setup_preflight.mjs`, `classification.mjs`, `plan.mjs`, `setup_verification.mjs`, `verification.mjs`, `audit/issues.mjs` |
| `InstallFile`, `RecordReceipt`, `CloseInstaller` | Apple Installer (external): any order, and it may stop half way |
| `Execute`, `Effect`, `todo` | the commands of `executor.mjs` and what they do; `todo` is the set of those left, in the order `Place` gives them |
| `Edit`, `Die` | an administrator; a killed process |
| `inTurn` | commands follow one another, or overlap |
| `held` | history: what a process verifies has been the case since it began to |
| `missed`, `late` | history: before its removal a process took a receipt for absent; where a foreign file appeared after it had looked |

The rights sudo grants are computed from the files (`Permitted`), never stored.

What a look tells is what the code reads. Of a file with rules that is owner, mode, type, links and
size, never the contents (`audit/files.mjs`, `setup_preflight.mjs:23`): a *foreign* file
shows, while an *edited* one, with the metadata and the size of a policy's, passes `Valid`
whatever it allows, and only the listing of `sudo` can betray it. That listing may fail and then
counts as unread; a query of the receipt may fail or time out and then counts as *absent*
(`receipt.mjs:17`), and so does `Observe`.

### Properties and runs

- `InstalledWasThere`: setup only reports success if at some moment since Apple Installer was
  closed the reviewed manifest and its package's receipt were in place together; when commands follow
  one another and at most two edits were made, also the reviewed profile, and rules in force
  that are exactly the policy's. Who wrote those rules the code cannot tell, and the property does
  not say.
- `RemovedWasGone`: removal only reports success if at some moment since its last command files
  and directory were gone, no rule it set out to revoke was in force, and the receipt was gone too
  unless the audit before the removal had taken it for absent. Up to two edits when commands follow
  one another (`FewEdits`), two commands when they overlap (`FewRuns`). What the documentation says of the receipt
  is `RemovedForgot`, which does not hold, see Findings.
- `RevokesFirst`: as long as commands follow one another, removal takes rules away before the
  manifest that says what they are, wherever it stops, and only takes the manifest of its own
  account away, although an administrator may have edited any file since the audit.
- `SparesForeign`: a foreign file is replaced by Installer or removed by root only if it appeared after the
  command had looked at that path. That it may then be replaced is so: the review has no deadline, and
  nothing looks again before Installer is opened or a command is run. Nor is an edited file protected;
  the property does not claim it.

An audit makes four looks and is no single moment, so the first two do not follow from what it
saw. The limits are real. With three edits by an administrator in turn, or a third command
beside, something is in place at every moment and yet out of the sight of each look, and
removal reports a machine as clean that never was. Four overlapping commands can do the same to a
setup: manifest and receipt are its own and the rules are those of another package of the
same contents. None of these needs a step the code forbids; no command holds a lock.

`printing_policy`: two processes and two accounts; in turn four commands, or three commands and edits in
all once there is an edit, at most two of them edits (`MaxRuns`, `MaxTurns`, `MaxEdits`); two
that overlap (`MaxBeside`); from a machine with the historical rules. Three commands are the fewest for an
upgrade of the historical rules, a command that stops half way, and one that has to deal with what
it left; the fourth is needed for a receipt that is left by the first and overlooked by the last.
Processes and accounts are interchangeable. `printing_stranded` is a violation, see
Findings. No fairness: all of it is safety.

### Proofs

All four are proved for any number of processes, accounts, commands and edits, within the limits
the properties state (`SparesForeign` has none, `RevokesFirst` only that commands follow one another). `Inv` has the types and

- what a command knows at each place (`PhasesOK`), that what is to be verified is not the case now
  unless `held` says so (`HeldOK`), that two packages never have the same build and that overlapping
  commands are counted (`BuildsOK`, `NumbersOK`, `CountOK`);
- who may have changed what: `WrittenOK`, `EditedOK`, `ManifestOK`;
- `SetupOK`, the argument for setup: if the policy was never whole since its receipt was recorded,
  then something was amiss that a look has seen or is bound to see;
- for removal in turn: only an administrator changes what was looked at, and two edits are not enough
  to hide a file from one look and a rule from the next (`BeforeOK`, `RemovalOK`, `InTurnOK`,
  `ReceiptOK`);
- for removal beside one other command (`BesideOK`): either that one only removes and what is gone
  stays gone, or it is a setup and what is there stays there;
- `LateOK`: at a path a command acts upon there is no foreign file that its look did not meet, unless
  `late` says so.

The invariant was found with TLC's counterexamples to stronger statements, which are the limits above.

## 7. The package and its review

`PrintingPackage` is the part of a setup between its two audits. The terminal builds a
bill of materials, an archive and a package, inspects the package with five tools between two
snapshots (`package_validation.mjs`), embeds it in an application, compares the copy, signs
the application, starts it and waits. The application shows the review, compares the hash of the
package beside it with the one in a file of its own and opens Apple Installer. A package is known by
the aspects in which it differs from the contract (`wrong`) and by a number for its bytes.
Every tool may fail or spoil one aspect; another program may replace the package, or its
copy, between any two steps, also by what was there before (`Change`); the application and the
terminal may be killed. The hash the application compares with (`reviewer.js:55`) lies beside the package in it and is
covered by its signature only when it is launched: the model leaves it as it was sealed, so a package and a
hash exchanged together are not excluded.

- `PassedIsRight`: what passed differs from the contract in nothing. Each tool reads the file anew,
  so it is only the second snapshot with its stat that joins what they found.
- `OpenedWasReviewed`: Installer is opened only after the review was shown and for a package
  that, when last looked at, was the one that passed.
- `OutcomeIsTrue`: "no system change was requested" is said only if Installer was never opened, and
  the final audit waits for its end.

`printing_package`: three changes, so that a package can be replaced, replaced again and
restored. All three properties are proved for every number of changes
(`PrintingSetupProofs`). The invariant says that a file which was replaced has a stat never
seen before (`StampsOK`), so that while the package equals the first snapshot, what each
tool found holds of that snapshot (`InspectionOK`); `ReviewOK` and `ResultOK` relate the application,
its result file and the terminal.

## 8. The probe of the printer

`DeviceProbe` follows `probeDevice`: six queries, each written only after the answer of the one
before; `nc` is ended by closing its input, then by SIGTERM, then by SIGKILL. The device is
genuine or not, may stop in the middle of an answer or stay silent, may send automatic status frames,
and its bytes arrive in chunks of any length; `nc` may exit at any time with an error of either
class. Bytes are the classes the code distinguishes; a model name is one token, into which no frame falls,
while frames may fall between the framing byte, the name, its terminator and all other answers. Of a frame nothing is
assumed but the fixed bits of its first byte (`FrameAssumption`, `status.mjs:23`): the bytes after it may be terminators,
printable, the number of the model or a status.

- `VerifiedIsGenuine`: only a device that gave both answers of a TM-U220 is called verified.
- `HealthyIsReady`: `printing-status` says healthy only if all four status answers, and not
  bytes of something else, said so.
- `ProbeEnds` under `WF(Probe)`: each read has a deadline, each wait for `nc` a bound.

`device_probe`: a name limit of six bytes instead of 82, so that a name can be too long with a
frame in it or without; two frames out of three: an idle printer's, whose tail is zero; one that is printable
and ends a name; and one whose tail looks like the number of the model and two good statuses.
`DeviceProbeExit.cfg`: see Findings.

`VerifiedIsGenuine` and `HealthyIsReady` are proved for every limit, every set of frames and any number of them
(`PrintingSetupProofs`). The invariant `ProbeInv`: every byte on its way is the device's own or
belongs to a frame behind its first byte (`OwnBytesOK`); the query the probe is at says what the device has answered
to the earlier ones (`IdentityOK`); what can be taken for a status answers the query that waits (`AnswersOK`), which
holds because nothing is written before an answer is read and because a frame's first byte is refused wherever an answer
is due; and the report says no more than what was answered so far (`ReadyOK`).

## 9. Previews

### Parts and correspondence

Both editors keep a preview of what is edited. An edit raises the revision, aborts the
request in flight and starts a timer; when it fires a request is sent with the revision as its
token; an answer counts if its token is the revision (`PreviewRefresh`). The server of the image
profile editor runs one Lua worker at a time. A newer request takes the place of the waiting one and
aborts the running one; a worker that is to stop gets SIGTERM, after a quarter of a second
SIGKILL, and is waited for (`PreviewQueue`). `Previews` joins the two: the page's requests arrive,
are answered, hung up and dropped.

| in the model | in the code |
|---|---|
| `receipt` | which of the two editors; they are written alike |
| `revision`, `timer`, `flights` | the revision token, the debounce timer, the requests not settled, with or without a controller |
| `current`, `lastValid`, `drawn`, `stale`, `metrics` | the preview views (`preview/receipt.js`, `image_profile_editor/preview.js`) |
| `linked`, `status` | linked scrolling; the render state |
| `active`, `pending`, `aborted`, `gone` | `preview_queue.mjs`; the signal of the HTTP request |
| `worker`, `failure` | the child process of `compiler.mjs`, and why it was told to stop |
| `answer` | what each request's promise came to |

### Properties, run and proofs

- `LinkedIsCurrent`: editor and preview scroll together only if the preview is that of the text.
- `VerdictIsCurrent`: "ready" and "errors" are said of the present text, with its preview.
- `OwnPreview`: no document is shown with the preview of another, not even as the last valid one.
- `CurrentIsServed`: the server never drops the request for what is being edited, although page
  and server count requests apart.
- `VerdictFollows`: when editing stops a verdict follows and stays.
- `ImplementsService`: the queue implements `PreviewService`, in which each request is answered
  once and only the newest, while its page listens, gets a preview.

`previews`: three edits of three texts, one of them wrong; every request is one of the three. Three
requests are needed for one that runs, one that waits and one that replaces it. Fairness: the
timer fires; the present request arrives; answers are delivered; a worker is started,
overruns its deadline, is killed and ends. The receipt editor's server starts a worker per
request without a deadline (`web/server/compiler.mjs`) and is taken to answer: with a worker that hangs
`VerdictFollows` would not hold there. Requests are taken to reach the server in the order in which
they were made (`InOrder`), which the browser does not promise over several connections:
with `InOrder = FALSE` `CurrentIsServed` is violated, and the page shows an error for a
text nobody compiled until the next edit.

`WebEditorProofs` proves all of these but `VerdictFollows`, for every set of texts and requests and any
number of edits; `CurrentIsServed` under `InOrder`. The queue alone has an invariant of its own (`QueueInv`: one
worker at most, jobs in their places, no open request forgotten) and implements `PreviewService` whatever a page
does; every step of `Previews` is a step of the queue or leaves it alone, so that the refinement carries over. The page's properties
rest on `RevisionsOK` (every change of what is edited has a revision of its own, and the request of the present one
is for what is being edited), `DrawnOK` and `RedrawOK`. `CurrentIsServed` needs both sides: requests
arrive in the order of their revisions (`ArrivalsOK`), so what the queue drops or aborts is older than the present one.

## 10. The document of the receipt editor

`PageDocument` has the page's document (`editorText`, `saved`, `origin`, `handle`, `documentRevision`), what it waits for
(`loading`, `openings`, `asked`), the saves the server works on (`puts`) and the files. Loading of the
session, opening files with or without a writable handle, several at a time (`app.js:107` does not exclude it), edits and saves interleave; a save
fails, or its answer is lost while the server goes on with it.

- `OwnContent`: no file ever holds what was written for another document.
- `CleanWasStored`: the page calls a document saved only if its file has held that text. Not that it
  still does: a save whose answer was lost may rename after the one that followed it.

`page_document`: two files besides the session's and four steps of the user: open, edit, save,
and another opening while the save or a first opening is under way. No fairness: safety.

Both are proved for every set of files and contents and any number of steps (`WebEditorProofs`, `DocumentInv`):
every content says for which document it was written, and files, the editor, what is being read and what
is being saved all keep to it (`StoredOK`, `HeldOK`, `LoadingOK`, `OpeningOK`, `PutsOK`). `AskedOK` is why late
answers do no harm: while the revision is still that of the request, the editor holds the same document.

## 11. The image profile editor's saves

`ProfileEditing`: pages edit a draft, save it with the revision it was based on, revert and
reload; the server queues saves, looks at the file, compares its revision, writes a temporary
file, looks at it again, renames and reads it back (`profile_store.mjs`, `fixed_file.mjs`); other
programs write the file at any time, every step may fail. A revision is the hash of the content, so a
content stands for its own revision; `version` stands for what `lstat` tells.

- `BaseConfirmed`: when a save is about to rename, the profile last looked at was the one its
  page had been shown.
- `ReportedWasStored`: what a page calls saved did replace the profile. A temporary file may stay, because
  closing or removing it in the `finally` clause fails (`fixed_file.mjs:90`), but only of a save that
  neither replaced the profile nor was called saved.
- `NewerEditsKept`: a save ends, and its answer discards no edit made after it.

`profile_editing`: two pages, so that the saves of one overtake the other's base; four steps; one
change by another program. `WF(Server)`: file operations complete or fail. `ProfileOverwrite.cfg`: see Findings.

`ProfileEditingProofs` proves the first two, and that no answer discards a newer edit, for any number of pages, values,
steps and changes by others. The invariant: the temporary file of a save becomes the profile or stays what it is (`FilesOK`);
what it saw is the file's content as long as `version` is what its look was told (`LooksOK`); a page shows as saved what its revision
stands for (`PagesOK`); what was reported did replace the file. That a save ends is left to TLC.

## 12. The glyph editor

`GlyphEditing`: pages draw the masks of bytes and save them one at a time. The server keeps them in two
sources, one with every printable ASCII byte and a sparse one; a save reads its file, replaces or inserts
an entry and renames. Readers and other programs do not wait for the queue.

- `StaysReadable`: whatever is saved in whatever order the sources can be parsed, and what a
  page shows as saved has been in them.
- `DotsStay`: a save ends, and no answer, early, late or lost, changes a dot on the screen.
- `OnlySelectedAlone`: a save changes nothing but its byte while no other program changed the file; with other
  programs it may (`OnlySelected`, see Findings).

`glyph_editing`: an ASCII byte and two others (an insertion has a place between two entries), two
pages, three steps, one outside change. `WF(Server)` as above. `GlyphLostUpdate.cfg`: see Findings.

`GlyphEditingProofs` proves `StaysReadable`, `OnlySelectedAlone` and that no answer changes a dot, for every contiguous
range of ASCII bytes, all other bytes and masks, any number of pages, saves and outside changes. It rests on lemmas about a file of
entries: a byte that is new has exactly one place (`PlaceIsThere`), a replacement or an insertion keeps the order
and every other entry (`ReplaceChanges`), so the file parses again (`ReplaceParses`) and shows the same mask of
every other byte (`OthersKeepTheirMask`). The invariant `GlyphInv` adds that entries a page was given were in a
file (`WasThere`), that a page which loads waits for nothing (`LoadsAnew`), and that only the first save has read
its file, which is unchanged while no other program was there (`SourceOK`). That a save ends is left to TLC.

## 13. Findings

`printing_stranded` is a run of the project. The others are properties of their modules that
quote a document and do not hold; `tlc -config X.cfg MC...` shows each.

1. `printing_stranded`, `RemovalStaysAvailable`. Removal stops at the first command that fails
   (`executor.mjs:48`). When the historical live rules are gone and the LPD rules are not, neither setup nor
   removal accepts what is left, where `docs/printing-authorization-rationale.md:34` says that removal must
   remain available without editing sudoers by hand.
2. `LiveSessionLostDrain.cfg`, `EveryFailureIsAccounted`. The checks for pending bytes
   (`session.mjs:89`, `:142`) stand outside every `try`. When one fails after a step was released, the record
   says `LIVE_SESSION_FAILED` with zero confirmed, zero released and no unknown outcome, where
   `docs/live-printing.md:49` promises that one operation is reported as unknown. `ResultTellsTruth` and
   the abstract verdict "unreported" leave this case out by name.
3. `LiveSessionLateCancel.cfg`, `CancelSendsNothingMore`. A cancellation that arrives during the check
   before the first step does not stop that step. Later steps are safe (`CancelStopsRelease`), because by
   then automatic status is off and the check has nothing to wait for.
4. `InstallActivation.cfg`, `ActivatesAtomically`. `activateLinks` renames three links one after the other
   (`transaction.mjs:50`). A first install that dies after the first leaves `current` without the launchers,
   where `README.md:94` says that a release is activated atomically. The state is reported as
   unhealthy, and install and uninstall both refuse it. Upgrades are atomic: only `current` changes.
5. `DeviceProbeExit.cfg`, `IdentitySurvives`. `docs/printing-policy.md:83` says that an unavailable
   status does not erase a valid identity. It does when `nc` exits with an error of the class "probe_error"
   after the model was identified.
6. `ProfileOverwrite.cfg`, `OnlyOverBase`. `docs/cli-contract.md:98` says that stale revisions are never
   overwritten. Another program that writes between the second look and the rename is
   (`fixed_file.mjs:84`); `BaseConfirmed` is what does hold.
7. `GlyphLostUpdate.cfg`, `OnlySelected`. `dev/glyph_editor/README.md:12` promises that a save changes
   only the selected byte. An entry another program writes between a save's read and its rename is lost.
8. `PrintingPolicyReceipt.cfg`, `RemovedForgot`. `docs/printing-policy.md:198` says that a removal is refused
   when the state of the receipt cannot be inspected, and `:225` that a complete result requires it to be verified
   absent. A query of `pkgutil` that fails or times out is reported as `queried: true, found: false`
   (`receipt.mjs:17`), which is "absent": a removal then plans no `--forget` and reports success with the receipt
   there. `RemovedWasGone` is what does hold.

Observed while reading, and true of the code, but outside the properties: a process that looks at the lock
while it is made or released may be told that manual inspection is needed (`install/lock.mjs:120`); an error
in a `finally` clause replaces the report that links could not be restored (`install/transaction.mjs:66`, outcome
"error"); text typed while a file is being read is replaced on its arrival (`web/app.js:111`); a terminal killed while
the application is open leaves it running (`setup_workflow.mjs:99`); a resize redraws the last receipt after a
placeholder was shown (`web/preview/receipt.js:179`); the receipt server bounds neither number nor time of its
workers (`web/server/compiler.mjs:19`); removal plans for the account that calls it, also when the policy is
another's (`printing_removal/cli.mjs:102`), and refuses.

## 14. What is proved, and what is not

| module | proved for every value of the constants | only model-checked |
|---|---|---|
| `LiveSession` | safety and refinement, under `CleanLine` | `Termination` |
| `LpdSession` | safety | `EndsUnlessStalled` |
| `InstallLock` | everything, with the refinement | |
| `InstallTransaction` | everything | |
| `PrintingPolicy` | everything but the findings | |
| `PrintingPackage` | everything | |
| `DeviceProbe` | safety | `ProbeEnds` |
| `Previews`, `PreviewQueue` | safety (`CurrentIsServed` under `InOrder`) and refinement | `VerdictFollows` |
| `PageDocument` | everything | |
| `ProfileEditing` | safety, with the step part of `NewerEditsKept` | that a save ends |
| `GlyphEditing` | safety, with the step part of `DotsStay` | that a save ends |

Liveness is out of the prover's reach. The theorems rest on the assumptions the modules name (`ASSUME`), which
TLC evaluates for the instances of the runs.

Not modelled: byte counts, terminal drawing, log texts, file permissions and owners (a file is safe or it
is not), the texts of plans, policies and manifests. The printers, `nc`, Apple Installer, the package tools, browsers and
other programs are external and modelled as what the code takes them to do, at their worst. The
components listed as not modelled in `PROJECT.json` are functions of their input or single sequential
passes: the job language, formatter, codec, character sets, images, rendering and profiles have no state that
outlives a call, no second actor and no failure they recover from; a model of them would restate them, and
their tests compare outputs byte by byte.

## 15. Inventory

Per component: state, operations, interactions, what is hard, and what makes it
correct. The components are those of `PROJECT.json`.

**Live session controller** (`libexec/live_session`, `tm-u220-live-session.mjs`) and
**its terminal view and plan loader**: section 2. The view draws events and attaches
the keys; the loader checks plan and payload files before anything is sent.

**Live transport, Lua side** (`transport/live_raw`). State: a temporary directory
with manifest, payload and result file. Writes them, runs the controller, parses its
record. Hard: the record is the only thing known about a session that died half
way. Correct: no record of the controller is refused, a missing or torn one is not
taken for success.

**Checkpoint plan** (`live/checkpoint_plan.lua`). Pure: the compiled nodes, their
boundaries and preview lines become steps. Hard: offsets of `ESC @` inside a
payload, boundaries that end nothing, a trailing remainder. Correct: the payloads
concatenate to the job, each ends at a boundary, each preview line belongs to the
step that prints it, and every `ESC @` is found.

**LPD transport** (`transport/lpd`, `tm-u220-lpd-session`): section 3.

**Raw TCP transport** (`transport/raw_tcp.lua`, `transport/netcat.lua`). One connection, one
write, no answer. Correct: an interruption is reported as ambiguous, never retried.

**Application services** (`app/`). `job_compiler` runs a parsed job through the
formatter: initialization first, finish last, a final line feed if the paper is not
at the beginning of a line. `print_service` chooses the transport, `job_service` and
`input_resolver` find files. Sequential. Correct: nothing is sent unless all of the
job compiled; boundaries match what was emitted.

**Job language** (`job/`). The parser reads lines into blocks (tables, key-value
lists, chains of directives) with an open-block state. Hard: blocks closed by the wrong
directive or by the end of the file. Correct: an open block is never lost.

**Formatter** (`format/`). State: horizontal position, code table, character style,
frozen table signature, nodes, boundaries, preview lines. Hard: the state that a
line feed restores, a cut allowed only at the beginning of a line, tables whose
columns freeze at their first row. Correct: state at the printer equals the
formatter's, boundaries fall only where the paper is at rest.

**ESC/POS codec and printer specification**, **character sets**, **print head images**,
**printer profiles and discovery**, **configuration, rendering and command line**,
**image assets**: functions from input to output, or
sequential reading of fixed files. No state survives a call.

**Printing setup and removal** (`libexec/printing_setup`, `printing_removal`) and **printing policy and
manifest** (`libexec/printing_policy`): sections 6, 7 and 8. State: package and policy files owned by root.
Hard: what a failure in the middle leaves, a file that changed between audit and
removal, bytes of a printer that are nobody's answer. Correct: nothing is removed that was not verified,
and success is claimed only after a second look.

**Installer** (`install/`): sections 4 and 5.

**Configuration store** (`libexec/configuration`). Seeds files by exclusive creation, which the file system
makes atomic, and opens an editor. Correct: no existing file is overwritten.

**Image profile editor** (`libexec/image_profile_editor`, `web/image_profile_editor`): sections 9 and 11.

**Web editor** (`web/`): sections 9 and 10. Scrolling and highlighting are drawing.

**Development tools** (`dev/`): the glyph editor is section 12; generators are batch programs.
