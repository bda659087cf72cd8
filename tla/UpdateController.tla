-------------------------- MODULE UpdateController --------------------------
(***************************************************************************)
(* The two-stage local kernel updater of scripts/update-local.py.          *)
(*                                                                         *)
(* Check processes (`check`, the unprivileged download stage) resolve the  *)
(* newest project release, download it into a `.partial.<tag>` directory,  *)
(* verify it and leave it in `staged/`.  Install processes (`install`, the *)
(* root stage) copy `staged/` to a root-owned directory, verify it again   *)
(* against their own choice of release, keep it as `available/` and, when  *)
(* allowed, install the packages, prune old kernels and record the result  *)
(* in `state.json`.  Both stages take the same non-blocking `update.lock`, *)
(* but `state.json` is also rewritten outside the lock.                    *)
(*                                                                         *)
(* A step of the model is the code between two points at which another     *)
(* process, a kill or a power loss can make a difference.  A call that     *)
(* changes nothing (a check that finds the lock taken and exits with 75)   *)
(* is a stuttering step.  Updates of state.json made under the lock are    *)
(* one step; a write from outside that falls between the reading and the   *)
(* writing of a locked one is lost.                                        *)
(***************************************************************************)
EXTENDS Integers, FiniteSets

CONSTANTS
    Checkers,     \* processes running `check`
    Installers,   \* processes running `install`
    Forced,       \* those started with --force (the Manager's), a checker
                  \* then also with --wait-for-lock
    NoProc,       \* nobody: the lock is free
    MaxSource,    \* bound: Ubuntu source versions are 1..MaxSource
    MaxVariant,   \* bound: patch variants of one source are 0..MaxVariant
    NoRelease,    \* no release: an absent directory, record or kernel
    HweSources,   \* the versions the HWE resolver may answer when the GitHub
                  \* release list cannot be read
    Policies,     \* the POLICY values the configuration may take
    History       \* PROJECT_KERNEL_HISTORY

Source  == 1..MaxSource
Release == [src : Source, var : 0..MaxVariant]
Procs   == Checkers \cup Installers

MaybeRelease == Release \cup {NoRelease}

ASSUME ProcsAssumption ==
    /\ Checkers \cap Installers = {}
    /\ Forced \subseteq Procs
    /\ NoProc \notin Procs

ASSUME ReleaseAssumption ==
    /\ MaxSource \in Nat \ {0}
    /\ MaxVariant \in Nat
    /\ NoRelease \notin Release
    /\ HweSources \subseteq Source

ASSUME ConfigAssumption ==
    /\ Policies # {}
    /\ Policies \subseteq {"manual", "check-and-notify", "automatic-install"}
    /\ History \in Nat \ {0}

VARIABLES
    \* the world outside: the project's GitHub releases
    published,
    \* /etc/s4lockdown-update.conf
    policy,
    \* holder of update.lock
    lock,
    \* each process: control point, chosen release, source versions found
    \* installed, the copy of state.json it read, "may install" decision
    pc, target, floor, snap, mayInstall,
    \* /var/cache/s4lockdown-update
    partials, staged,
    \* /var/lib/s4lockdown-update
    \* (damaged: an interrupted removal left available/ incomplete)
    incoming, retired, available, damaged, doc,
    \* the machine: dpkg, the top-level GRUB entry, the running kernel
    \* (NoRelease: an official Ubuntu kernel), /run/reboot-required
    packages, grubTop, running, marker

procVars   == <<pc, target, floor, snap, mayInstall>>
cacheVars  == <<partials, staged>>
rootVars   == <<incoming, retired, available, damaged>>
kernelVars == <<packages, grubTop, running, marker>>
vars == <<published, policy, lock, procVars, cacheVars, rootVars, doc, kernelVars>>

-----------------------------------------------------------------------------
(* Types *)

CheckPc   == {"idle", "indexing", "downloading", "downloaded"}
InstallPc == {"idle", "preparing", "locking", "locked", "copied", "verified",
              "swapping", "ready", "unpacked", "installed", "pruned",
              "marked", "discarded", "failing", "recording"}

\* The control points at which a process holds update.lock.
CheckInside   == {"indexing", "downloading", "downloaded"}
InstallInside == {"locked", "copied", "verified", "swapping", "ready",
                  "unpacked", "installed", "pruned", "marked", "discarded"}

\* state.json: installed_source_version (0: none), installed_kernel_release
\* and the other installed_* fields, and the available_* (offered) release.
Document == [source : 0..MaxSource, kernel : MaybeRelease, offered : MaybeRelease]

NoDoc == [source |-> 0, kernel |-> NoRelease, offered |-> NoRelease]

-----------------------------------------------------------------------------
(* Releases and versions *)

\* The order of kernel releases (dpkg --compare-versions on the release
\* string): the source version first, then the patch variant.
Newer(r, s) == r.src > s.src \/ (r.src = s.src /\ r.var > s.var)

IsNewest(r, S) == r \in S /\ \A s \in S : ~Newer(s, r)

\* What resolve_target("auto") can return: the newest listed release or, when
\* the listing fails or is empty, the plain release of the HWE source version.
Resolvable ==
    {r \in published : IsNewest(r, published)}
        \cup {[src |-> s, var |-> 0] : s \in HweSources}

SourcesOf(S) == {r.src : r \in S}

\* Mutant: only the record counts as installed, not the packages.
RecordedSources(d) == {d.source} \ {0}

\* The versions of which highest_version takes the largest: the installed
\* project packages and the recorded installation.
InstalledSources(d) == SourcesOf(packages) \cup ({d.source} \ {0})

IsOlder(r, sources) == \E v \in sources : r.src < v

\* Mutant: any other patch variant is an update.
AnyOtherVariant(r, d) == d.kernel # NoRelease /\ r # d.kernel

\* variant_update_available: a newer patch variant than the recorded kernel.
VariantUpdate(r, d) == d.kernel # NoRelease /\ Newer(r, d.kernel)

\* "installation_already_recorded and not variant_update_available"
Recorded(r, d) == d.source = r.src /\ ~VariantUpdate(r, d)

\* The check stage probes the published release of the tag for its kernel
\* release; a missing release (404) offers no variant.
CheckedRecorded(r, d) ==
    d.source = r.src /\ ~(r \in published /\ VariantUpdate(r, d))

\* historical[:project_kernel_history]: the `History` newest project kernels
\* other than the target.
Historical(t) ==
    LET historical == packages \ {t}
    IN  {r \in historical :
           Cardinality({s \in historical : Newer(s, r)}) < History}

\* Mutants: the target, or the running kernel, is not kept.
RetainedOthers(t) == packages \cap (Historical(t) \cup {running})
RetainedIdle(t) == packages \cap (Historical(t) \cup {t})

\* prune_project_kernels: the target, the running kernel and the `History`
\* newest of the other project kernels stay.
Retained(t) == packages \cap (Historical(t) \cup {t, running})

-----------------------------------------------------------------------------
(* Steps shared by both stages *)

\* The state a freshly deployed controller can find: the project has published
\* its first release or none, and that release may have been installed by hand
\* (it is then the top-level GRUB entry, booted or not, and unrecorded).
Init ==
    /\ published \in {{}, {[src |-> 1, var |-> 0]}}
    /\ policy \in Policies
    /\ lock = NoProc
    /\ pc = [p \in Procs |-> "idle"]
    /\ target = [p \in Procs |-> NoRelease]
    /\ floor = [p \in Procs |-> {}]
    /\ snap = [p \in Procs |-> NoDoc]
    /\ mayInstall = [p \in Procs |-> FALSE]
    /\ partials = {}
    /\ staged = NoRelease
    /\ incoming = [i \in Installers |-> NoRelease]
    /\ retired = NoRelease
    /\ available = NoRelease
    /\ damaged = FALSE
    /\ doc = NoDoc
    /\ \/ packages = {} /\ grubTop = NoRelease
       \/ /\ published # {}
          /\ packages = published
          /\ grubTop \in published
    /\ running \in packages \cup {NoRelease}
    /\ marker = FALSE

At(p, label) == pc[p] = label

Goto(p, label) == pc' = [pc EXCEPT ![p] = label]

\* The process exits and forgets its locals.
Exit(p) ==
    /\ Goto(p, "idle")
    /\ target' = [target EXCEPT ![p] = NoRelease]
    /\ floor' = [floor EXCEPT ![p] = {}]
    /\ snap' = [snap EXCEPT ![p] = NoDoc]
    /\ mayInstall' = [mayInstall EXCEPT ![p] = FALSE]

\* Return from inside `with update_lock(...)`: the descriptor is closed.
Return(p) == Exit(p) /\ lock' = NoProc

\* An exception leaves `with update_lock(...)`; its handler is still to run,
\* without the lock.
Raise(p) == Goto(p, "failing") /\ lock' = NoProc

-----------------------------------------------------------------------------
(* The check stage: check_command *)

\* The lock is taken and the configuration read: a scheduled check under the
\* manual policy returns at once.  Forced checks wait for the lock.
CheckBegin(c) ==
    /\ At(c, "idle") /\ lock = NoProc
    /\ policy # "manual" \/ c \in Forced
    /\ lock' = c
    /\ Goto(c, "indexing")
    /\ UNCHANGED <<published, policy, target, floor, snap, mayInstall,
                   partials, staged, rootVars, doc, kernelVars>>

\* The resolved release is older than an installed kernel, or is the recorded
\* one and has no newer variant.
UpToDate(t) == IsOlder(t, InstalledSources(doc)) \/ CheckedRecorded(t, doc)

\* Mutants: the directory is not looked for; the version is not compared.
OfferedBefore(t) == doc.offered # NoRelease /\ doc.offered.src = t.src
OfferedAny(t) == doc.offered # NoRelease /\ available # NoRelease

\* available_source_version in state.json equals the resolved source version
\* and available/ is a directory: nothing to download.  Only the source
\* version is compared.
AlreadyOffered(t) ==
    /\ doc.offered # NoRelease
    /\ doc.offered.src = t.src
    /\ available # NoRelease

\* "downgrade-refused", "current" or "already-staged": every partial download
\* is removed.
CheckNothingNew(c) ==
    /\ At(c, "indexing")
    /\ \E t \in Resolvable : UpToDate(t) \/ AlreadyOffered(t)
    /\ partials' = {}
    /\ Return(c)
    /\ UNCHANGED <<published, policy, staged, rootVars, doc, kernelVars>>

\* staged/ still verifies as the resolved release: "already-staged".
CheckStillStaged(c) ==
    /\ At(c, "indexing")
    /\ \E t \in Resolvable :
         /\ ~UpToDate(t) /\ ~AlreadyOffered(t)
         /\ staged = t
         /\ partials' = partials \cap {t}
    /\ Return(c)
    /\ UNCHANGED <<published, policy, staged, rootVars, doc, kernelVars>>

\* A staged/ that does not verify as the resolved release is removed, whatever
\* the reason, and the download directory of the release is created, or found
\* again with what an earlier run left in it.
CheckFetch(c) ==
    /\ At(c, "indexing")
    /\ \E t \in Resolvable :
         /\ ~UpToDate(t) /\ ~AlreadyOffered(t)
         /\ target' = [target EXCEPT ![c] = t]
         /\ partials' = (partials \cap {t}) \cup {t}
    /\ staged' = NoRelease
    /\ floor' = [floor EXCEPT ![c] = InstalledSources(doc)]
    /\ Goto(c, "downloading")
    /\ UNCHANGED <<published, policy, lock, snap, mayInstall, rootVars, doc,
                   kernelVars>>

\* Resolving fails before, or the variant probe after, the partial downloads
\* of other releases are removed: "check-failed".
CheckResolveError(c) ==
    /\ At(c, "indexing")
    /\ \/ UNCHANGED partials
       \/ \E t \in Resolvable : partials' = partials \cap {t}
    /\ Return(c)
    /\ UNCHANGED <<published, policy, staged, rootVars, doc, kernelVars>>

\* Every asset arrives.
CheckDownload(c) ==
    /\ At(c, "downloading") /\ target[c] \in published
    /\ Goto(c, "downloaded")
    /\ UNCHANGED <<published, policy, lock, target, floor, snap, mayInstall,
                   cacheVars, rootVars, doc, kernelVars>>

\* The download breaks off and is kept for a resume ("check-failed"), or the
\* release or its Manifest is not on GitHub yet ("release-unavailable").
CheckNoDownload(c) ==
    /\ At(c, "downloading")
    /\ partials' \in {partials, {}}
    /\ Return(c)
    /\ UNCHANGED <<published, policy, staged, rootVars, doc, kernelVars>>

\* verify_release succeeds and replace_directory(partial, staged): "verified".
CheckStage(c) ==
    /\ At(c, "downloaded") /\ ~IsOlder(target[c], floor[c])
    /\ staged' = target[c]
    /\ partials' = {}
    /\ Return(c)
    /\ UNCHANGED <<published, policy, rootVars, doc, kernelVars>>

\* The download does not verify and is deleted: "check-failed".
CheckReject(c) ==
    /\ At(c, "downloaded")
    /\ partials' = {}
    /\ Return(c)
    /\ UNCHANGED <<published, policy, staged, rootVars, doc, kernelVars>>

-----------------------------------------------------------------------------
(* The root stage: install_command *)

\* record_install_progress("preparing") comes before the lock: state.json is
\* read here and written back in the next step.
InstallStart(i) ==
    /\ At(i, "idle")
    /\ snap' = [snap EXCEPT ![i] = doc]
    /\ Goto(i, "preparing")
    /\ UNCHANGED <<published, policy, lock, target, floor, mayInstall,
                   cacheVars, rootVars, doc, kernelVars>>

\* What was read replaces the document, or is lost to a holder of the lock that
\* is itself between reading and writing.
WriteBack(i) == doc' = snap[i] \/ (lock \in Installers /\ UNCHANGED doc)

InstallPrepare(i) ==
    /\ At(i, "preparing")
    /\ WriteBack(i)
    /\ snap' = [snap EXCEPT ![i] = NoDoc]
    /\ Goto(i, "locking")
    /\ UNCHANGED <<published, policy, lock, target, floor, mayInstall,
                   cacheVars, rootVars, kernelVars>>

\* The lock is taken: exit status 75.
InstallBusy(i) ==
    /\ At(i, "locking") /\ lock # NoProc
    /\ Exit(i)
    /\ UNCHANGED <<published, policy, lock, cacheVars, rootVars, doc, kernelVars>>

\* Mutant: the lock is not respected.
InstallLockUnchecked(i) ==
    /\ At(i, "locking")
    /\ lock' = i
    /\ incoming' = [j \in Installers |-> NoRelease]
    /\ retired' = NoRelease
    /\ mayInstall' = [mayInstall EXCEPT
                        ![i] = policy = "automatic-install" \/ i \in Forced]
    /\ Goto(i, "locked")
    /\ UNCHANGED <<published, policy, target, floor, snap, cacheVars,
                   available, damaged, doc, kernelVars>>

\* Stale .incoming.<pid> and .available.retired.<pid> directories are removed
\* and the policy is read.
InstallLock(i) ==
    /\ At(i, "locking") /\ lock = NoProc
    /\ lock' = i
    /\ incoming' = [j \in Installers |-> NoRelease]
    /\ retired' = NoRelease
    /\ mayInstall' = [mayInstall EXCEPT
                        ![i] = policy = "automatic-install" \/ i \in Forced]
    /\ Goto(i, "locked")
    /\ UNCHANGED <<published, policy, target, floor, snap, cacheVars,
                   available, damaged, doc, kernelVars>>

\* copy_staged_to_root copies staged/, if there is one, and removes it; then
\* state.json and the installed versions are read.  (A crash between the copy
\* and the removal is a crash before the copy: the next run deletes the copy.)
InstallCopy(i) ==
    /\ At(i, "locked")
    /\ incoming' = [incoming EXCEPT ![i] = staged]
    /\ staged' = NoRelease
    /\ snap' = [snap EXCEPT ![i] = doc]
    /\ floor' = [floor EXCEPT ![i] = InstalledSources(doc)]
    /\ Goto(i, "copied")
    /\ UNCHANGED <<published, policy, lock, target, mayInstall, partials,
                   retired, available, damaged, doc, kernelVars>>

\* What the run works on: its own copy, or the candidate an earlier run kept.
Candidate(i) == IF incoming[i] # NoRelease THEN incoming[i] ELSE available

\* There is no candidate: a scheduled run reports the check's result
\* (propagate_check_state) and returns, a forced one fails.
InstallNothing(i) ==
    /\ At(i, "copied") /\ Candidate(i) = NoRelease
    /\ IF i \in Forced
         THEN Raise(i) /\ UNCHANGED <<target, floor, snap, mayInstall>>
         ELSE Return(i)
    /\ UNCHANGED <<published, policy, cacheVars, rootVars, doc, kernelVars>>

\* Mutant: the resolved release is installed whatever the candidate is.
InstallVerifyUnmatched(i) ==
    /\ At(i, "copied") /\ Candidate(i) # NoRelease
    /\ \E t \in Resolvable :
         ~IsOlder(t, floor[i]) /\ target' = [target EXCEPT ![i] = t]
    /\ incoming[i] = NoRelease => ~damaged
    /\ Goto(i, "verified")
    /\ UNCHANGED <<published, policy, lock, floor, snap, mayInstall, cacheVars,
                   rootVars, doc, kernelVars>>

\* The root stage resolves the target for itself and verifies the candidate
\* against it: the same tag, and not older than what is installed.
InstallVerify(i) ==
    /\ At(i, "copied") /\ Candidate(i) # NoRelease
    /\ Candidate(i) \in Resolvable
    /\ ~IsOlder(Candidate(i), floor[i])
    /\ incoming[i] = NoRelease => ~damaged
    /\ target' = [target EXCEPT ![i] = Candidate(i)]
    /\ Goto(i, "verified")
    /\ UNCHANGED <<published, policy, lock, floor, snap, mayInstall, cacheVars,
                   rootVars, doc, kernelVars>>

\* The candidate is not the release resolved now, is older than a kernel that
\* is installed, or is incomplete.
InstallMismatch(i) ==
    /\ At(i, "copied") /\ Candidate(i) # NoRelease
    /\ \/ \E t \in Resolvable : t # Candidate(i)
       \/ IsOlder(Candidate(i), floor[i])
       \/ incoming[i] = NoRelease /\ damaged
    /\ Raise(i)
    /\ UNCHANGED <<published, policy, target, floor, snap, mayInstall,
                   cacheVars, rootVars, doc, kernelVars>>

\* The candidate is what is recorded as installed: it is deleted.
InstallAlready(i) ==
    /\ At(i, "verified") /\ Recorded(target[i], snap[i])
    /\ IF incoming[i] # NoRelease
         THEN /\ incoming' = [incoming EXCEPT ![i] = NoRelease]
              /\ UNCHANGED <<available, damaged>>
         ELSE /\ available' = NoRelease /\ damaged' = FALSE
              /\ UNCHANGED incoming
    /\ doc' = [doc EXCEPT !.offered = NoRelease,
                          !.source = target[i].src]
    /\ Return(i)
    /\ UNCHANGED <<published, policy, cacheVars, retired, kernelVars>>

\* replace_directory(incoming, available) is two renames, the old candidate
\* waiting under a third name in between.
InstallRetire(i) ==
    /\ At(i, "verified") /\ ~Recorded(target[i], snap[i])
    /\ incoming[i] # NoRelease
    /\ retired' = available
    /\ available' = NoRelease
    /\ Goto(i, "swapping")
    /\ UNCHANGED <<published, policy, lock, target, floor, snap, mayInstall,
                   cacheVars, incoming, damaged, doc, kernelVars>>

InstallReplace(i) ==
    /\ At(i, "swapping")
    /\ available' = incoming[i]
    /\ incoming' = [incoming EXCEPT ![i] = NoRelease]
    /\ retired' = NoRelease
    /\ damaged' = FALSE
    /\ Goto(i, "ready")
    /\ UNCHANGED <<published, policy, lock, target, floor, snap, mayInstall,
                   cacheVars, doc, kernelVars>>

\* The candidate is already in available/.
InstallKeep(i) ==
    /\ At(i, "verified") /\ ~Recorded(target[i], snap[i])
    /\ incoming[i] = NoRelease
    /\ Goto(i, "ready")
    /\ UNCHANGED <<published, policy, lock, target, floor, snap, mayInstall,
                   cacheVars, rootVars, doc, kernelVars>>

\* Mutant: they are added to the copy that the run has read.
OfferedCopy(i) == [snap[i] EXCEPT !.offered = target[i]]

\* The available_* fields of state.json.
Offered(i) == [doc EXCEPT !.offered = target[i]]

\* The policy asks for an explicit approval.
InstallOffer(i) ==
    /\ At(i, "ready") /\ ~mayInstall[i]
    /\ doc' = Offered(i)
    /\ Return(i)
    /\ UNCHANGED <<published, policy, cacheVars, rootVars, kernelVars>>

\* dpkg or apt is running: the update is deferred.
InstallDefer(i) ==
    /\ At(i, "ready") /\ mayInstall[i]
    /\ doc' = Offered(i)
    /\ Return(i)
    /\ UNCHANGED <<published, policy, cacheVars, rootVars, kernelVars>>

\* Mutant: the top-level GRUB entry is left as it is.
InstallUnpackOnly(i) ==
    /\ At(i, "ready") /\ mayInstall[i]
    /\ packages' = packages \cup {target[i]}
    /\ Goto(i, "installed")
    /\ UNCHANGED <<published, policy, lock, target, floor, snap, mayInstall,
                   cacheVars, rootVars, doc, grubTop, running, marker>>

\* The package tool (--install-only) installs the packages ...
InstallUnpack(i) ==
    /\ At(i, "ready") /\ mayInstall[i]
    /\ packages' = packages \cup {target[i]}
    /\ Goto(i, "unpacked")
    /\ UNCHANGED <<published, policy, lock, target, floor, snap, mayInstall,
                   cacheVars, rootVars, doc, grubTop, running, marker>>

\* ... and then makes the new kernel the top-level GRUB entry.
InstallGrub(i) ==
    /\ At(i, "unpacked")
    /\ grubTop' = target[i]
    /\ Goto(i, "installed")
    /\ UNCHANGED <<published, policy, lock, target, floor, snap, mayInstall,
                   cacheVars, rootVars, doc, packages, running, marker>>

\* dpkg fails, or the GRUB step fails and puts the old configuration back.
InstallPackagesFail(i) ==
    /\ \/ At(i, "ready") /\ mayInstall[i]
       \/ At(i, "unpacked")
    /\ doc' = Offered(i)
    /\ Raise(i)
    /\ UNCHANGED <<published, policy, target, floor, snap, mayInstall,
                   cacheVars, rootVars, kernelVars>>

InstallPrune(i) ==
    /\ At(i, "installed")
    /\ packages' = Retained(target[i])
    /\ Goto(i, "pruned")
    /\ UNCHANGED <<published, policy, lock, target, floor, snap, mayInstall,
                   cacheVars, rootVars, doc, grubTop, running, marker>>

\* dpkg --remove succeeds but update-grub after it fails.
InstallPruneFail(i) ==
    /\ At(i, "installed")
    /\ packages' = Retained(target[i])
    /\ Raise(i)
    /\ UNCHANGED <<published, policy, target, floor, snap, mayInstall,
                   cacheVars, rootVars, doc, grubTop, running, marker>>

\* /run/reboot-required and /run/reboot-required.pkgs
InstallMark(i) ==
    /\ At(i, "pruned")
    /\ marker' = TRUE
    /\ Goto(i, "marked")
    /\ UNCHANGED <<published, policy, lock, target, floor, snap, mayInstall,
                   cacheVars, rootVars, doc, packages, grubTop, running>>

\* rmtree(available)
InstallDiscard(i) ==
    /\ At(i, "marked")
    /\ available' = NoRelease
    /\ damaged' = FALSE
    /\ Goto(i, "discarded")
    /\ UNCHANGED <<published, policy, lock, target, floor, snap, mayInstall,
                   cacheVars, incoming, retired, doc, kernelVars>>

\* The final update_json: this is what records the installation.
InstallCommit(i) ==
    /\ At(i, "discarded")
    /\ doc' = [source |-> target[i].src, kernel |-> target[i],
               offered |-> NoRelease]
    /\ Return(i)
    /\ UNCHANGED <<published, policy, cacheVars, rootVars, kernelVars>>

\* Any other call of the run may raise before it has changed anything: a full
\* disk, an unreadable configuration, a tool that cannot be run.  A rename that
\* fails in replace_directory puts the old candidate back.
InstallError(i) ==
    /\ pc[i] \in InstallInside \ {"unpacked"}
    /\ Raise(i)
    /\ IF At(i, "swapping")
         THEN available' = retired /\ retired' = NoRelease
         ELSE UNCHANGED <<available, retired>>
    /\ UNCHANGED <<published, policy, target, floor, snap, mayInstall,
                   cacheVars, incoming, damaged, doc, kernelVars>>

\* The new candidate is in place but the retired one cannot be removed.
InstallReplaceFail(i) ==
    /\ At(i, "swapping")
    /\ available' = incoming[i]
    /\ incoming' = [incoming EXCEPT ![i] = NoRelease]
    /\ damaged' = FALSE
    /\ Raise(i)
    /\ UNCHANGED <<published, policy, target, floor, snap, mayInstall,
                   cacheVars, retired, doc, kernelVars>>

\* The run is removing available/ file by file ...
Discarding(i) ==
    \/ At(i, "marked")
    \/ /\ At(i, "verified") /\ Recorded(target[i], snap[i])
       /\ incoming[i] = NoRelease

\* ... and is killed, or gets an error, before it is through.
InstallInterrupted(i) ==
    /\ Discarding(i)
    /\ damaged' = TRUE
    /\ \/ Return(i)
       \/ Raise(i) /\ UNCHANGED <<target, floor, snap, mayInstall>>
    /\ UNCHANGED <<published, policy, cacheVars, incoming, retired, available,
                   doc, kernelVars>>

\* The except clause runs without the lock: it removes the run's own incoming
\* directory and reads state.json ...
InstallCleanUp(i) ==
    /\ At(i, "failing")
    /\ incoming' = [incoming EXCEPT ![i] = NoRelease]
    /\ snap' = [snap EXCEPT ![i] = doc]
    /\ Goto(i, "recording")
    /\ UNCHANGED <<published, policy, lock, target, floor, mayInstall,
                   cacheVars, retired, available, damaged, doc, kernelVars>>

\* ... and writes it back.
InstallRecordFailure(i) ==
    /\ At(i, "recording")
    /\ WriteBack(i)
    /\ Exit(i)
    /\ UNCHANGED <<published, policy, lock, cacheVars, rootVars, kernelVars>>

-----------------------------------------------------------------------------
(* The surroundings *)

\* The project publishes a release: any source version, its variants in turn.
Publish(r) ==
    /\ r \notin published
    /\ r.var > 0 => [r EXCEPT !.var = r.var - 1] \in published
    /\ published' = published \cup {r}
    /\ UNCHANGED <<policy, lock, procVars, cacheVars, rootVars, doc, kernelVars>>

\* The administrator or the Manager rewrites the configuration.
SetPolicy(p) ==
    /\ p # policy
    /\ policy' = p
    /\ UNCHANGED <<published, lock, procVars, cacheVars, rootVars, doc, kernelVars>>

\* One process dies at any point: systemctl stop, a start timeout, SIGKILL.
\* The kernel releases its flock; files stay as they are.
Killed(p) ==
    /\ pc[p] # "idle"
    /\ Exit(p)
    /\ lock' = IF lock = p THEN NoProc ELSE lock
    /\ UNCHANGED <<published, policy, cacheVars, rootVars, doc, kernelVars>>

\* Power loss or restart: every process dies, /run is empty, and the machine
\* comes up with any installed kernel (the GRUB menu offers all of them).
Reboot(k) ==
    /\ running' = k
    /\ marker' = FALSE
    /\ lock' = NoProc
    /\ pc' = [p \in Procs |-> "idle"]
    /\ target' = [p \in Procs |-> NoRelease]
    /\ floor' = [p \in Procs |-> {}]
    /\ snap' = [p \in Procs |-> NoDoc]
    /\ mayInstall' = [p \in Procs |-> FALSE]
    /\ UNCHANGED <<published, policy, cacheVars, rootVars, doc, packages, grubTop>>

-----------------------------------------------------------------------------
(* The next-state relation: what each stage does when nothing fails, and the *)
(* faults, which happen or do not.                                           *)

CheckStep(c) ==
    \/ CheckNothingNew(c) \/ CheckStillStaged(c) \/ CheckFetch(c)
    \/ CheckDownload(c) \/ CheckStage(c)

InstallEntry(i) ==
    InstallStart(i) \/ InstallPrepare(i) \/ InstallBusy(i) \/ InstallLock(i)

InstallStep(i) ==
    \/ InstallCopy(i) \/ InstallNothing(i) \/ InstallVerify(i)
    \/ InstallMismatch(i) \/ InstallAlready(i) \/ InstallRetire(i)
    \/ InstallReplace(i) \/ InstallKeep(i) \/ InstallOffer(i)
    \/ InstallUnpack(i) \/ InstallGrub(i) \/ InstallPrune(i)
    \/ InstallMark(i) \/ InstallDiscard(i) \/ InstallCommit(i)
    \/ InstallCleanUp(i) \/ InstallRecordFailure(i)

Install(i) == InstallEntry(i) \/ InstallStep(i)

CheckFault(c) == CheckResolveError(c) \/ CheckNoDownload(c) \/ CheckReject(c)

InstallFault(i) ==
    \/ InstallError(i) \/ InstallDefer(i) \/ InstallPackagesFail(i)
    \/ InstallPruneFail(i) \/ InstallReplaceFail(i) \/ InstallInterrupted(i)

Progress ==
    \/ \E c \in Checkers : CheckBegin(c) \/ CheckStep(c)
    \/ \E i \in Installers : Install(i)
    \/ \E r \in Release : Publish(r)
    \/ \E p \in Policies : SetPolicy(p)

Fault ==
    \/ \E c \in Checkers : CheckFault(c)
    \/ \E i \in Installers : InstallFault(i)
    \/ \E p \in Procs : Killed(p)
    \/ \E k \in packages \cup {NoRelease} : Reboot(k)

Next == Progress \/ Fault

Spec == Init /\ [][Next]_vars

-----------------------------------------------------------------------------
(* Properties *)

\* Every variable has its type.
TypeOK ==
    /\ published \subseteq Release
    /\ policy \in Policies
    /\ lock \in Procs \cup {NoProc}
    /\ pc \in [Procs -> CheckPc \cup InstallPc]
    /\ \A c \in Checkers : pc[c] \in CheckPc
    /\ \A i \in Installers : pc[i] \in InstallPc
    /\ target \in [Procs -> MaybeRelease]
    /\ floor \in [Procs -> SUBSET Source]
    /\ snap \in [Procs -> Document]
    /\ mayInstall \in [Procs -> BOOLEAN]
    /\ partials \subseteq Release
    /\ staged \in MaybeRelease
    /\ incoming \in [Installers -> MaybeRelease]
    /\ retired \in MaybeRelease
    /\ available \in MaybeRelease
    /\ damaged \in BOOLEAN
    /\ doc \in Document
    /\ packages \subseteq Release
    /\ grubTop \in MaybeRelease
    /\ running \in MaybeRelease
    /\ marker \in BOOLEAN

\* What the root stage verified is what it goes on to install: from the end of
\* verify_release until the candidate is deleted, no other process replaces or
\* removes the directory the verified Manifest came from, whatever checks,
\* other installs, kills and restarts happen meanwhile.
CandidateStable ==
    \A i \in Installers :
        /\ At(i, "verified") =>
              /\ target[i] = Candidate(i)
              /\ incoming[i] = NoRelease => ~damaged
        /\ At(i, "swapping") => target[i] = incoming[i]
        /\ pc[i] \in {"ready", "unpacked", "installed", "pruned", "marked"}
              => target[i] = available /\ ~damaged

\* The machine can always come up again: no run, failed run or crash removes
\* the packages of the running kernel or of the top-level GRUB entry.
BootableKept ==
    /\ running # NoRelease => running \in packages
    /\ grubTop # NoRelease => grubTop \in packages

\* state.json never runs ahead of dpkg: if a source version is recorded as
\* installed then a project kernel of that version or a newer one is installed,
\* so the recorded version never makes the updater refuse what is needed.
Backed(d) == d.source # 0 => \E p \in packages : p.src >= d.source

RecordBacked == Backed(doc)

\* At the moment an installation is recorded its packages are there, GRUB
\* starts it and the restart marker of this boot exists.
CommitBacked ==
    \A i \in Installers : At(i, "discarded") =>
        target[i] \in packages /\ grubTop = target[i] /\ marker

\* There is at most one partial download and at most one root-owned incoming
\* copy, and a run retires a candidate only when no other retired one is left.
OnePartial == \A r, s \in partials : r = s

OneIncoming ==
    \A i, j \in Installers :
        incoming[i] # NoRelease /\ incoming[j] # NoRelease => i = j

RetiredSwept ==
    \A i \in Installers :
        pc[i] \in {"locked", "copied", "verified"} => retired = NoRelease

\* Interrupted runs do not pile up release-sized directories, wherever and
\* however often they are interrupted.
DirectoriesBounded == OnePartial /\ OneIncoming /\ RetiredSwept

\* The top-level GRUB entry only ever moves to a release whose Ubuntu source
\* version is at least that of every installed project kernel, even when the
\* release list is unreachable, the record in state.json was lost, or an old
\* candidate was left behind.
NoDowngrade ==
    [][grubTop' # grubTop =>
         grubTop' # NoRelease /\ ~IsOlder(grubTop', SourcesOf(packages))]_vars

\* The recorded installation never goes back to an older release (or to none).
RecordNeverRegresses ==
    [][/\ doc'.source >= doc.source
       /\ doc.kernel # NoRelease =>
            doc'.kernel # NoRelease /\ ~Newer(doc.kernel, doc'.kernel)]_vars

-----------------------------------------------------------------------------
(* The inductive invariant: what each control point knows.                   *)

Inside(p) ==
    \/ p \in Checkers /\ pc[p] \in CheckInside
    \/ p \in Installers /\ pc[p] \in InstallInside

\* update.lock is held by exactly the process that is inside.
LockHeld == \A p \in Procs : Inside(p) <=> lock = p

\* What an install process knows of its target at its control point.
TargetKnown ==
    \A i \in Installers :
        /\ At(i, "copied") => SourcesOf(packages) \subseteq floor[i]
        /\ pc[i] \in {"verified", "swapping", "ready", "unpacked", "installed",
                      "pruned", "marked", "discarded"}
              => /\ target[i] \in Release
                 /\ \A p \in packages : p.src <= target[i].src
        /\ pc[i] \in {"unpacked", "installed", "pruned", "marked", "discarded"}
              => target[i] \in packages
        /\ pc[i] \in {"installed", "pruned", "marked", "discarded"}
              => grubTop = target[i]
        /\ pc[i] \in {"marked", "discarded"} => marker

\* A copy of state.json that a process has yet to write back is as well backed
\* by dpkg as the document itself.
CopiesBacked == \A p \in Procs : Backed(snap[p])

\* A run that is about to copy staged/ has found every incoming directory gone.
IncomingSwept ==
    \A i, j \in Installers : At(i, "locked") => incoming[j] = NoRelease

\* All that holds in every reachable state, in a form every step preserves.
IndInv ==
    /\ TypeOK
    /\ LockHeld
    /\ CandidateStable
    /\ BootableKept
    /\ RecordBacked
    /\ CopiesBacked
    /\ TargetKnown
    /\ CommitBacked
    /\ IncomingSwept
    /\ DirectoriesBounded

=============================================================================
