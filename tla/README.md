# Secure Hibernate Kernel: verification project

TLA+ models of the programs in `scripts/`, `config/` and `manager/`, the TLC
runs that check them on small instances, and theorems that TLAPS proves for
every value of the constants.  A module names the source it models in its
header; `PROJECT.json` maps every definition to the lines it stands for.

## 1. The system

The repository builds and ships a signed Ubuntu kernel that may hibernate under
lockdown, and the software that keeps a machine on it:

| Component | State it keeps | Operations | Talks to |
|---|---|---|---|
| **Local updater** `scripts/update-local.py` | `/var/cache/s4lockdown-update` (`.partial.<tag>`, `staged/`, `check-state.json`), `/var/lib/s4lockdown-update` (`.incoming.<pid>`, `.available.retired.<pid>`, `available/`, `state.json`, `update.lock`) | `check` (unprivileged: resolve, download, verify, stage), `install` (root: copy, verify again, keep or install, prune, record), `status` | GitHub releases, dpkg, the package tool, GRUB, `/run/reboot-required` |
| **systemd units** `config/systemd` | unit states, the timer | timer -> check -> install; Manager's own check unit | starts the updater |
| **Package tool** `install-signed-packages.sh`, `set-default-kernel.sh` | dpkg database, `/etc/default/grub.d/99-s4lockdown.cfg`, `grub.cfg` | verify, `--install-only`, select top-level entry, restore on failure | called by the root stage |
| **Manager helper** `scripts/manager-helper.py` | `s4lockdown-manager.lock`, stored MOK password, `/etc/fstab`, `/etc/crypttab`, initramfs, LUKS tokens | start/pause check, install update, set policy and retention, remove kernel, repair swap, MOK, TPM, recovery | systemd, updater, dpkg, firmware |
| **Manager application** `manager/lib` | preferences, setup checkpoint, snapshot, check monitor | pages, wizard, actions through the helper | helper over pkexec, status files |
| **Desktop notification** `desktop-update-notify.py` | `notifications.json` under a lock | publish a notification once per version | status files |
| **Resume entry** `s4lockdown-grub-reboot` | GRUB environment | select the running kernel for the next boot | systemd-hibernate |
| **Release production** `release-*.py/sh`, `manager-release.py`, `.github/workflows` | the directory of a release (packages, `SHA256SUMS`, Manifest, signature), drafts and releases on GitHub | decide, build, describe and sign, verify, publish | the updater and the Manager release check read what it publishes |
| **Deployment and build** `install-*.sh`, `deploy-system.sh`, `build-kernel.sh`, `sign-packages.sh`, `build-deb.sh` | files they create | straight-line installation | everything above |

### What is hard, and what makes each part correct

*Updater.*  Two kinds of process under two accounts, started by the timer, by
the administrator and by the Manager, share a lock, two directory trees and two
JSON files; every one can be killed or lose power between any two system calls;
the release list they consult may be unreachable and then answers differently.
Correct means: what was verified is what is installed; the machine can always
boot what runs and what GRUB starts; GRUB never moves to an older kernel than
one installed; the record is backed by dpkg and never forgets; interrupted runs
do not pile up directories; and the newest release does arrive.

*Helper.*  A second lock, not the updater's, around operations on kernels, swap,
initramfs and LUKS.  Correct means: each operation either happens or leaves the
machine as it was, also when a command fails or times out after it has had its
effect, and no removal races the updater.

*Manager application.*  One isolate with many awaits.  Correct means: a state
read before an await is not acted upon when stale, one monitor at a time, and a
setup checkpoint that survives the restart it is for.

*Reports.*  `check-state.json` is written by every check and by pause-check,
whoever started them, and read by an operation of the helper that waits for one
of them.  Correct means: what the helper acts upon is a report of now, and no
wait outlives the program it waits for.

*Delivery.*  A release passes through a directory, an artifact store, a draft,
block by block through a network, and a partial directory that interrupted
checks leave to the next.  Correct means: what is published is what was signed,
every block ends in its place, an interruption costs nothing but time, and the
user hears of a Manager release once.

## 2. The modules

| Module | What it is | Code |
|---|---|---|
| `UpdateController` | both stages of the local updater, one action per step between which the process can be killed or another process can run | `scripts/update-local.py` (`check_command`, `install_command` and what they call), `install-signed-packages.sh --install-only`, `set-default-kernel.sh` |
| `UpdateSchedule` | the same steps under systemd: timer, check unit, root unit, AC power, with a bounded number of disturbances and fairness | `config/systemd/s4lockdown-update*.{timer,service}` |
| `KernelPromise` | the abstract specification: what happens to the machine's kernels, with no stages, locks or crashes | - |
| `UpdateRefinement` | two refinement mappings from `UpdateController` to `KernelPromise`, with the record and without it, and the invariants their proofs need | - |
| `UpdateControllerProofs` | the theorems about `UpdateController` | - |
| `KernelRetention` | the two programs that remove kernels, each under its own lock | `manager-helper.py` (`prune_project_kernels`, `action_set_kernel_retention`, `action_remove_kernel`), the updater's installation from an accepted target on |
| `SwapRepair` | the swap repair and its rollback | `manager-helper.py` (`action_repair_swap`, `write_atomic`) |
| `TpmBoot` | TPM enrollment, crypttab and initramfs replacement with their rollbacks | `manager-helper.py` (`action_enroll_tpm`, `configure_tpm_boot`, `rebuild_encrypted_root_initramfs`) |
| `MokEnrollment` | the request for the Machine Owner Key and its stored password | `manager-helper.py` (`action_prepare_mok`, `action_inspect_mok`, `action_cancel_mok`) |
| `ManagerHelper` | both enrollments under the helper's lock, with `verify-tpm`, `startup-refresh` and what the Manager remembers of the answers | `manager-helper.py` (`helper_lock`, `action_verify_tpm`, `action_startup_refresh`), `native_backend.dart` |
| `UpdateRequests` | `start-check`, `pause-check`, `install-update` and `set-policy` against the timer's and the Manager's runs of the updater, through `check-state.json` and `state.json` | `manager-helper.py` (`action_install_update`, `recover_verified_release`, `mark_check_paused`, `action_set_policy`), `update-local.py` (every report) |
| `ReleaseProduction` | the two workflows from the decision to build to the published release | `release-manifest.py`, `manager-release.py`, `build.yml`, `manager-release.yml` |
| `ReleaseDownload` | the download of a published kernel release, block by block | `update-local.py` (`download_asset`, `download_github_release`) |
| `UpdateNotices` | the Manager release check, the path unit and the notifiers | `update-local.py` (`check_manager_release`), `desktop-update-notify.py`, `secure-hibernate-update-notify.path` |
| `ReleasePromise` | the abstract specification of releases: what is out, staged and announced, with no workflows, files or notifiers | - |
| `ReleaseDelivery` | the composition of the three: each follows the releases the first publishes; its refinement mapping to `ReleasePromise` | - |
| `*Proofs` | the theorems about the module they are named after | - |
| `MC*` | the instances for TLC, with symmetry where it is sound | - |

Definitions whose comment begins with "Mutant" are not part of any
specification: each is a definition of the module changed the way a bug would
change it, and the property named in `PROJECT.json` must fail with it.

### Correspondence of `UpdateController` to the code

| Variable | In the program |
|---|---|
| `published`, `policy` | the GitHub releases; `/etc/s4lockdown-update.conf` |
| `lock` | the `flock` on `update.lock`: freed when its holder returns, raises or dies |
| `pc`, `target`, `floor`, `snap`, `mayInstall` | a process's place in the code and the locals that outlive a step: the release it works on, the source versions it found installed, the copy of `state.json` it read, policy or `--force` |
| `partials`, `staged` | `.partial.<tag>` and `staged/` in the check stage's cache |
| `incoming`, `retired`, `available`, `damaged` | `.incoming.<pid>`, `.available.retired.<pid>`, `available/`, and whether an interrupted `rmtree` left `available/` incomplete |
| `doc` | `state.json`: recorded source version and kernel, offered release |
| `packages`, `grubTop`, `running`, `marker` | dpkg, the top-level GRUB entry, `os.uname`, `/run/reboot-required` |

A release is its source version and its patch variant, ordered as dpkg orders
the kernel release string.  `Check...` and `Install...` actions are the segments of `check_command` and
`install_command` between two points where something can intervene: taking or
releasing the lock, a rename, a run of dpkg or GRUB, a read of `state.json` and
its write.  Early returns, `LockBusy` (75) and the `except` clause are actions of
their own; `...Fail`, `...Error`, `...Reject` are the failures of the code's
calls.  `Killed` ends one process at any point, `Reboot` all of them.

Two details decide most of what can go wrong and are modelled as the code has
them.  First, `record_install_progress("preparing")` (update-local.py:1542) and
the failure record (:1750-1762) read and rewrite `state.json` *without* the
lock, so a copy read before another run's commit may be written after it.
Progress records made under the lock rewrite what the holder itself just read;
together with another process's unlocked write, either may win (`WriteBack`).
Second, each stage resolves its target for itself from a list that may fail, and
then falls back to the HWE source version (`Resolvable`).

### What is abstracted

* Signatures, hashes, Manifest fields and package metadata: `verify_release`
  either accepts (the tag is the resolved one, not older than what is installed,
  complete) or rejects.  Verification may also fail for no modelled reason.
* Removing `staged/`, partial, incoming and retired directories is one step
  (the next run removes what is left of them unconditionally); removing
  `available/` is not, because what is left of it counts (`damaged`).
* A dpkg transaction is one step that happens or does not; a failure after its
  effect is a step of its own.
* Variants of one source version are published in increasing order.
* `UpdateController` leaves out the fields of `state.json` that only report
  (`last_check_status`, `install_phase`, dates, commits) and `check-state.json`:
  nothing in the updater acts upon them.  `UpdateRequests` has the ones that the
  helper acts upon, and in turn reduces a stage to what its reports tell apart:
  there a release is its place in the order of releases, and the release list
  answers, so that no check turns to an HWE version and none refuses a downgrade.
  Neither has a clock: a timeout is a step that may come whenever the code looks
  at the time.
* In `UpdateRequests` phases and percentages are left out: between `indexing`
  and the end of a check the helper treats all of them alike (`Working`).
* In `ReleaseDelivery` an asset is a sequence of blocks, each in its place or
  `Damaged`; metadata is what it describes (one of two contents of the
  packages); a behaviour follows the kernel's releases or the Manager's, which
  share neither tags nor files.  Ubuntu's version, which a check turns to when
  the list is empty or cannot be read, is any tag, published or not
  (`StartFallback`).  Nothing is installed or offered on the machine, so a check
  neither refuses what is older nor ends early for what is: `UpdateController`
  has both.
* The Manager's version and its releases are numbers in the order of
  `parse_manager_version`, and `dpkg` answers.
* Kernel releases of other flavours and the official Ubuntu kernel
  (`NoRelease`, `Official`) are never touched by either program and always there.
* `KernelRetention` starts from an accepted target that is not older than any
  installed project kernel, which is what `NoDowngrade` establishes for
  `UpdateController`; and the release list names the newest release.
* `SwapRepair`: Linux refuses to unlink a file it swaps to or to rename over it.
  Files are identities; sizes and priorities are left out.
* `TpmBoot`: an initramfs is the crypttab entry in it and whether it is
  complete; dracut copies the crypttab it finds.
* `MokEnrollment`: requests for other keys make every operation refuse.

## 3. The runs

Every passing run explores its instance completely.

| Run | Instance | What it shows |
|---|---|---|
| `UpdateSafety` | one check, one install, two source versions with one more variant, HWE answer 1, automatic-install | what is verified is what is installed; the record never regresses; GRUB never moves to an older source version; `UpdateController` implements `KernelPromise` |
| `UpdateContention` | one check, the timer's install and the Manager's, one release, policies check-and-notify and automatic-install, unbounded failures | whatever document is written back before the lock, a record is backed by dpkg, a run about to record has its packages and its GRUB entry, and the recorded source version goes back only when a run writes a copy that the file no longer holds |
| `UpdateProgress` | the timer's programs and the Manager's, two disturbances, policies check-and-notify and automatic-install | the inductive invariant of the proofs, which bounds the directories of each kind; two root stages together keep what `KernelPromise` says of the machine; the newest release is eventually offered, and eventually installed and recorded while the policy says so |
| `UpdateRequests` | four programs, two releases, policies manual and automatic-install, three disturbances | the inductive invariant of its proofs; an install-update fails only for a reason, succeeds only with the newest release, and always ends, also when its check never gets the lock; `check-state.json` does not stay at a phase of work |
| `ReleaseDelivery` | two versions of either kind, two assets of two blocks, two disturbances and any number of interruptions | what is published was verified; the composition implements `ReleasePromise`; a version is published unless a draft stands in its way; every block has its place, and a download completes, also after the list has failed and sent a check to another tag; a Manager release is announced, and once |
| `RetentionSafety` | four kernels, histories 1 and 2 | the running kernel and the one being installed survive the helper and the updater together; the setting is applied |
| `SwapRollback` | four swap files | the previous file is never lost; a clean rollback is complete; success is complete |
| `HelperSetup` | two token slots, three passwords | there is always a complete boot image and, until success, the previous one; no needless or unsaved header change; a request whose password is known is kept and no password outlives a reported end; what the Manager shows as verified works |

Why the bounds are enough.  Each process of `UpdateController` handles one
release at a time and compares it with the newest installed one: two source
versions give every comparison (older, equal, newer), and two variants of each a
variant and its successor, and pruning, with a history of one, something to
remove besides the running and the target kernel.  `UpdateProgress` has no
second variant: with one the newest release need not arrive, which is what
`StaleCandidate` shows, so `NewestInstalled` and `NewestOffered` speak of source
versions only.
A third install process adds nothing to a lock that two
contend for.  Four kernels let the helper see a kernel, the updater install a
newer one, and both prune.  Four swap files are the one in place, the new one
and what two killed runs left behind; a run sees only its own two.  Two slots
allow an enrollment beside a token that has stopped working.  Three passwords
allow three requests in a row, and a stale password needs two.  In
`UpdateRequests` two releases are the one that was asked for and one that
overtakes it; three disturbances are the request and two events that disturb it,
such as a killed check whose report stays and a root stage that takes the
candidate; `Tolerance` (20 polls in the code) counts polls between which
anything may happen.  In `ReleaseDelivery` two tags are a release and one that
replaces it half-way, two blocks are the least that can be resumed, and two
assets the least of which one is complete; interruptions and new versions are
no disturbances and come at any time.  TLAPS lifts the bounds for what is proved
(section 5).

Passing runs use `CHECK_DEADLOCK FALSE`: with everything published and
installed under a manual policy, or no swap file left to create in the bounded
set, the models may rest, as the programs do.

### Fairness

`UpdateSchedule` assumes weak fairness only, of two kinds: a unit whose turn has
come is started, because `s4lockdown-update.timer` activates three times a day
and after each boot (`OnBootSec`, `OnCalendar`, `Persistent`); and a stage that
runs takes its next step, because the programs are sequential and every external
call has an end.  Nothing is assumed of failures, of the Manager's processes
starting, or of the administrator; disturbances are bounded by
`MaxDisturbances`, since no updater makes progress under endless failure.  A
disturbance may come at any step.  The order check, then root stage, is that of
`Requires=` and `After=`: a failed check ends the activation.

`UpdateRequests` assumes the same of the timer, of what runs and of the helper,
weak fairness of each, and nothing of who gets `update.lock`.  The Manager's
check (`--wait-for-lock`) tries `LOCK_EX | LOCK_NB` every half second
(update-local.py:505-513) and has no place in a queue, so the timer's programs
may keep it from the lock for ever; what ends its wait is its own two hours
(`LockTimeout`, a step that is possible whenever it finds the lock taken), after
which it writes `check-failed`.  Weak fairness of a check's step therefore says
that it gets the lock or its time is over.  The helper's two hours
(`Deadline`, manager-helper.py:293-338) are possible at every poll and bounded by
nothing; the code lets them end the wait for certain, but no fairness is assumed
of them: `RequestEnds` holds without, so that no answer has to wait them out
where the reports, the polls of the unit or the check's own timeout give one.

`ReleaseDelivery` assumes that `build.yml` is begun again by its daily schedule
and goes on when begun; not so `manager-release.yml`, which runs when someone
pushes or asks.  Interruptions of a download are not bounded: strong fairness of
each kind of step of the download says that not every attempt ends at the same
point, as with a network that is there now and then.  Checks are hours apart
(the timer), a notifier lives twenty seconds: the path unit gets to start it
while a release is offered.  Nothing is assumed of the application's notifier
starting, of failures or of releases.  A check that cannot read the list while
something is published is a disturbance: were the list to fail for ever, each
such check could throw away what the last one has fetched.

### Disagreements with the documentation

Four runs state what the repository says of itself and find an execution that
contradicts it.

* `StaleCandidate`: a newer patch variant of the offered source version is
  published.  The check compares only `available_source_version`
  (update-local.py:1199) and answers already-staged; the root stage resolves the
  new variant and rejects the kept candidate.  Neither stage changes anything,
  until another source version appears.
* `LostRecord`: two install processes; the second reads `state.json` before the
  lock, the first commits, the second writes its copy back and exits with 75.
  The installation is no longer recorded (dpkg still has it, so nothing is
  downgraded: `NoDowngrade` and `RecordBacked` hold all the same).
* `RetentionTopLevel`: the helper protects the GRUB entry that
  `set-default-kernel.sh` has just written; update-grub fails, the script
  restores the previous entry, and the helper removes that kernel.
* `EmptyPart`: a check ends after it has opened an asset's `.part` file and
  before the first block.  The next check finds a partial file of length 0, asks
  for the asset without a Range and opens the file with `"xb"`
  (update-local.py:766), which raises `FileExistsError`; the partial directory
  is kept, so every later check of this release fails in the same way, unless one
  turns to another tag in between and removes the directory.

More executions of the models are worth knowing.  No property excludes
them, and none of the properties that are checked depends on their absence.

* A kill during `rmtree(available)` (update-local.py:1717) leaves an incomplete
  candidate beside an offer in `state.json`; the check trusts the offer, the root
  stage cannot verify it, and nothing removes it while the source version stays
  the same.  `NewestInstalled` and `NewestOffered` except exactly this
  (`CandidateDamaged`).
* `remove-kernel` requires that "at least one other project kernel must remain
  installed" (manager-helper.py:1319-1320) when it is asked.  A removal asked for
  while the updater installs and prunes under its own lock can still be the one
  that removes the last.  The running kernel stays (`RunningKept`).
* `remove-kernel` compares its argument with the running and the selected kernel
  (manager-helper.py:1301-1304), then lists the packages, then runs dpkg.  When
  the updater selects that kernel in between, the helper removes the kernel that
  GRUB has just been configured to start.  `TopLevelKept` excepts it (`asked`).
* When `write_atomic` raises after it has replaced `/etc/crypttab` (its directory
  sync fails), `crypttab_changed` was not assigned (manager-helper.py:1063) and
  the new crypttab stays, while the message at :1173 says that the previous one
  was preserved.  The boot image is complete all the same (`BootImage`).
* MokManager drops a request, whose state file stays; a new request is imported
  and the helper stops before it writes the new password
  (manager-helper.py:597-603).  The next prepare shows the old password for the
  new request; after a restart the user has to cancel and prepare again.
* The Manager's check reports "verified", and before the helper polls, the
  timer's check writes "indexing" over it and stops: the helper counts inactive
  polls and answers "stopped without a verified Release", with the release in
  `staged/` (manager-helper.py:331-334).
* The timer's root stage takes `staged/` between the helper's poll and its
  `install --force`, and installs or offers the candidate: install-update fails
  although the release is there.
* dpkg is busy, so `install --force` defers, records `package-manager-busy` and
  exits with 0.  Before the helper reads `state.json` (manager-helper.py:442-444)
  another root stage overwrites the status: install-update reports an older
  installation as its own.  `SuccessIsNewest` excuses exactly this.
* A candidate in `available/` that is no longer the newest makes install-update
  fail at once, without a check (manager-helper.py:439); the next check by the
  timer or the user stages the newest.
* An install-update that joins a check which has reported but not yet exited
  (`systemctl start` of a unit that runs) waits for a report that never comes
  (manager-helper.py:290-292), and fails after its inactive polls.
* `set-policy` puts the configuration back when `systemctl` fails
  (manager-helper.py:530-534), but not the timer: one that was disabled by a
  command that then timed out stays disabled under an automatic policy.
* A workflow that ends between `gh release create --draft` and `gh release edit`
  leaves a draft, and every later run of this version refuses to modify it
  (build.yml:269-278).  Someone has to delete it.
* `PathChanged=` does not see a report that is written while the notifier it has
  started still runs.  The version is announced with a later report.
* The application's notifier was started for a version, waits for the lock, and
  shows it after the path unit has shown a newer one; then the newer one is
  shown again (desktop-update-notify.py:276 compares with the last one only).
* The release list fails once: the check turns to the HWE tag, deletes the newest
  release's partial directory (update-local.py:1148-1150) and its staged copy
  (:1244-1245), and may find that the HWE tag has no release.  A gigabyte is
  downloaded again by the next check that can read the list.
* `check_manager_release` reads the 30 latest releases (update-local.py:651),
  kernel and Manager together: a Manager release with 30 later kernel releases is
  no longer found.

## 4. The abstract specification

`KernelPromise` has five variables (published releases, packages, GRUB entry,
running kernel, recorded installation) and six actions, none of which mentions a
stage, a directory or a lock.  `UpdateRefinement` maps `recorded` to
`doc.kernel` and the rest to the variables of the same name; every step of
`UpdateController` is then a step of `KernelPromise` or a stutter.  In
particular a commit (`InstallCommit`) maps to `Record`, which requires that the
release recorded is the one GRUB starts, and each half of a package transaction
maps to an action of its own.  With two root stages at a time the record can be
lost (`LostRecord`), so this refinement fails there, as it should: `UpdateSafety`
checks it with one install process, and it is proved for any number of them as
long as each is alone (`UpdaterKeepsPromise`, section 5).

The machine itself is not lost.  A second instance of the same specification
(`Machine`) maps `recorded` to `NoRelease` for ever, which leaves out `Record`
and keeps everything that is said of packages, GRUB and the running kernel.
`UpdateController` implements it whatever runs at the same time:
`KeepsMachinePromise`, checked with two root stages in `UpdateProgress` and
proved for any number (`UpdaterKeepsMachinePromise`).  `KernelRetention`
implements the same instance as long as nothing is undone
(`RetentionKeepsMachinePromise`): the helper's removals break no promise of the
updater's.

`ReleasePromise` has three variables and four actions: a release comes out, the
machine stages a release that is out where nothing is staged, what is staged is
given up, the user hears of a release that is out.  It does not say that the
machine only goes forward: a check that cannot read the list turns to the HWE
version, removes a staged newer release and stages that one
(update-local.py:484-488, 1230-1245, 1343).  What is *installed* does not go back
for that (`NoDowngrade`).  `ReleaseDelivery` maps `released` to the tags
whose release is published, and `announced` to `seen`; the drafts, metadata
files, blocks and notifiers in between are stutters (`KeepsReleasePromise`).

## 5. The proofs

All theorems hold for every value of the constants that satisfies the named
assumptions of the module (`ProcsAssumption`, `ReleaseAssumption`,
`ConfigAssumption`; `RetentionAssumption`; `SwapAssumption`; `TpmAssumption`;
`MokAssumption`; `RequestAssumption`; `ProductionAssumption` and
`DownloadAssumption`): disjoint sets of processes, at least
one source version, a history of at least one, special values that are no
releases, files or images, and a `Tolerance` of at least two polls (20 in the
code).

*`UpdateControllerProofs`.*  `IndInv` is inductive (`InvInit`, `InvStep`, and
`Invariance`).  `CommitBacked` alone is not: that a run about to record has its
packages needs to know that nobody else runs dpkg (`LockHeld`: the lock is held
by exactly the process inside), that pruning keeps the target, and what the run
knew of its target since it verified it (`TargetKnown`).  `RecordBacked` needs
`CopiesBacked`: a stale copy that is written back must be backed as well.
`DirectoriesBounded` needs `IncomingSwept`.  The step proof has one lemma per
stage and conjunct (`InstallKnows`, `InstallRecords`, `InstallKeepsDirectories`,
...), one step per action, and frame lemmas for the processes that do not move.
`CandidateIsStable`, `MachineStaysBootable`, `RecordIsBacked`, `CommitIsBacked`,
`DirectoriesStayBounded` and `MutualExclusion` are its consequences, and
`NeverDowngrades` is the action property: only `InstallGrub` moves the entry,
and `TargetKnown` says its target is not older than any package.

The refinements come in the same module, in the order of what they assume.
`OnlyProjectReleases` needs nothing but `IndInv`: what is staged, kept or chosen
was published (`FromProject`), though the resolver may name an HWE version that
never was.  From it and `TargetKnown` follows `DecidedIsForward` (what a run is
about to install is published and behind nothing that is installed), and from
that each step's counterpart in `Machine`: `UpdaterKeepsMachinePromise`.
`InstalledFromProject` and `GrubMovesForward` are then proved of `KernelPromise`
alone, and hold of the updater because it implements it.
`UpdaterKeepsPromise` and `RecordStays`, which add the record, have the
hypothesis `[]Alone`: root stages do not run at the same time (one of them idle
whenever the other is not).  There the copy of `state.json` that a run works
with is still the document (`RecordOwned`), and what it goes on to install is
later than what is recorded (`DecidedIsLater`).  The hypothesis is about the
behaviour and not about the constants: the timer's and the Manager's units may
both exist.  How much depends on it is what `SourceLostByWriteBackOnly` says:
without it, a step that takes the recorded source version back writes a copy,
read without the lock before `preparing` or after a failure, over a document that
has changed since.  No other path does: no commit and no offer.

`PackagesStayPruned` bounds the installed kernels after a run by
`PROJECT_KERNEL_HISTORY` + 2.  That `Historical` has at most `History` members
is a fact about sets of any size, and is proved without induction: if one had
more, its oldest member (`WellFoundedInduction`, releases being ordered by a
pair of numbers) would have `History` newer ones in it, so it would not belong.
The same least-element argument proves `RetentionIsApplied` in
`KernelRetentionProofs`.

`ScheduleRefines` says that the timer, the units, AC power and the bound on
disturbances only restrict the updater's behaviours, so that every theorem above
holds of what `UpdateProgress` explores; `ScheduleIsSafe` collects them.

*`UpdateRequestsProofs`.*  `RequestInv` relates the helper's request to the
programs it started and to the files they left: who is inside `update.lock`,
that record, packages and publications are in that order and what a program that
holds a release knows of them (`Ordered`), what a report says about `staged/` (`Reported`), and for each point
of `action_install_update` what has been seen since it began (`Awaited`,
`Waiting`, `Run`, `Running`): that the unit it waits for is still at work, or has
left a candidate, or somebody has interfered in a way that excuses a failure.
From it follow `EveryFailureHasAReason` and `SuccessInstallsTheNewest`.
`Tolerance` must exceed one because a check may report and end between the
helper's look at `check-state.json` and its look at the unit: one inactive poll
then precedes the poll that sees the report.

*`KernelRetentionProofs`.*  `RetentionInv` adds to the properties what each
program's plan spares: the running kernel is in neither plan
(`PlansSpareRunning`), the target in none (`PlansSpareTarget`), and everything
the helper listed has a newer kernel installed (`NewerStays`), which is why the
newest of the kernels it does not protect, kept by a history of at least one,
covers a target installed after the listing (`TargetIsNewest`,
`NewerThanDropped`).  `RetentionIsApplied` is about the removal: it leaves at
most `history` kernels beside the protected ones, since what is doomed was
everything else (`ChoiceApplies`).  `TopLevelStays` is the positive side of the
violation that `RetentionTopLevel` finds: in behaviours where the updater takes
no selection back (`[][~Unselect]_vars`) the kernel that GRUB is configured to
start stays installed, because a selection that the helper did not see is newer
than all it has listed (`SelectionSpared`).  A failed update-grub is therefore
the only cause.  `RetentionKeepsMachinePromise` uses the same argument to show
that the two programs side by side implement `KernelPromise` (without the
record), a kernel's rank being its source version: a removal by either is `Leave`.
Its two hypotheses (`NothingUndone`) are needed: TLC finds a step outside the
promise when either is dropped, and section 3 describes both executions.

*`SwapRepairProofs`.*  In two layers: `FilesInv` says where the old and the new
file are at each step; on top of it `SwapInv` says what is active and listed,
and that a rollback without errors has restored each part.

*`TpmBootProofs`.*  `TpmInv` says what each step may rely on; `BootImageStays`,
`PreviousImageStays`, `SuccessIsConfigured` and `EnrollmentIsJustified` follow.

*`MokEnrollmentProofs`.*  `MokInv` adds to the properties the shape of the file
at each step of an operation (`MokShape`): which passwords may be on file while
a request is revoked or imported.

*`ManagerHelperProofs`.*  Every step of the helper is a step of each enrollment
or leaves it alone (`HelperSteps`), so the composition implements both
specifications (`HelperImplements`) and their theorems hold of it.  That a token
shown as verified works (`VerifiedIsTrue`) needs two facts of the enrollment: no
step takes a sealed token away (`SealedGrows`), and success has left one.

*`ReleaseDeliveryProofs`.*  `DeliveryInv` is a conjunction of one invariant per
part, each proved against the steps of its part alone: a frame lemma says that
the others leave it untouched (`ProductionKept`, `DownloadKept`, `NoticeKept`).
`PublishedVerifies` needs that a job which has passed verification has a
directory that verifies, so that its tag is `sound` while it uploads and edits
the draft.  `InPlace` needs that while a response is read,
the next block is the one after the last of the `.part` file
(`FileIsThere`, `AppendInPlace`); this is what the answer 206, the removal of the
file otherwise, and the first byte of the Range together establish.  `ShownOnce`
needs that one notifier at a time is showing, and that what was shown last is
recorded unless that notifier still runs or has died.
On top of these, `OnlyPublished` says what passes from one part to the next: a
run that uploads or edits does so to the draft it has created (so that it takes
no published release back), what the updater receives, verifies or has staged is
out, whichever tag it resolved, and nothing is staged while it works, and what a
notifier was started for is out.  One lemma per
part gives its counterpart in `ReleasePromise` (`ProductionGrows`,
`DownloadStages`, `NoticeAnnounces`), and `DeliveryKeepsPromise` combines them.

Only model-checked: the liveness properties of `UpdateProgress`,
`UpdateRequests` and `ReleaseDelivery` (`NewestInstalled`, `NewestOffered`,
`RequestEnds`, `ProgressEnds`, `VersionPublished`, `DownloadCompletes`,
`NoticeGiven`: liveness under fairness is outside the prover's reach), and the
violations.  Every invariant and every action property of the passing runs is
stated by a theorem.

## 6. Not modelled

See `components` in `PROJECT.json` for every part.

* Cryptography and file formats: a signature or a hash either matches or does
  not.
* The Manager application (`manager/lib`): its widgets, wizard and monitor.  It
  reads what the modelled programs write, and asks for the helper's operations,
  which the models start at any time and in any order; what it remembers of the
  answers is in `ManagerHelper`.
* Notifications of kernel releases, which differ from the Manager's in where the
  candidate is read.
* `s4lockdown-grub-reboot` and `11_s4lockdown_resume`: one hook before
  hibernation that writes GRUB's next entry for the running kernel; what follows
  is the firmware's and GRUB's.
* `resolve-version.sh`, `prepare-release.sh`, the removal of old Manager releases
  and the parsing of versions and tags: functions of their input with no state.
* Building, signing, packaging and deployment: straight-line scripts; what they
  leave behind is the initial state of the models.
* Limits on the number, names and sizes of assets: each is checked before
  anything is written.

## 7. Plan

1. The helper's own writes of `state.json` (`record_install_progress`) in
   `UpdateRequests`, with the copies they are made from, as `UpdateController`
   has them for the updater.
2. The application's state across awaits (`app_state.dart`,
   `native_backend.dart`), its monitor and the setup wizard's checkpoint.
3. `s4lockdown-grub-reboot` and the persistent entry across hibernation, a
   failed resume and a kernel update.

4. Proofs: the record of `KernelRetention` under the same promise, and what
   `UpdateRequests` assumes of a stage derived from `UpdateController`.

The set of runs stays small: a question an existing instance can answer joins
that instance, as the refinement joins `UpdateSafety` and the enrollments
`HelperSetup`.
