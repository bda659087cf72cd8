---------------------------- MODULE UpdateRequests ----------------------------
(***************************************************************************)
(* The Manager's update operations (scripts/manager-helper.py) and the     *)
(* reports they rely on: check-state.json, written by every check of       *)
(* scripts/update-local.py and by pause-check, and read by install-update  *)
(* while it waits for a verified release; and what the root stage leaves   *)
(* in state.json.                                                          *)
(*                                                                         *)
(* Four programs of the updater run: the timer's check and root stage, the *)
(* Manager's check unit, and the `install --force` of an install-update.   *)
(* UpdateController has their every step; here a stage is reduced to what  *)
(* a reader of its reports can tell apart.  The release list answers; a    *)
(* release is its place in the order of releases.                          *)
(*                                                                         *)
(* Failures, kills, restarts and operations of the Manager come at any     *)
(* point, at most MaxDisturbances times, which bounds the model, not the   *)
(* program.  There is no clock: a wait of two hours may be over whenever   *)
(* the code looks at it.                                                   *)
(***************************************************************************)
EXTENDS Naturals

CONSTANTS
    Checks, Installs,   \* the programs: {"chk", "mgr"} and {"ins", "req"}
    Nobody,             \* the lock is free
    MaxRelease,         \* bound: releases are 1..MaxRelease
    Policies,
    Tolerance,          \* inactive polls after which the helper gives up (20)
    MaxDisturbances

ASSUME RequestAssumption ==
    /\ Checks = {"chk", "mgr"} /\ Installs = {"ins", "req"}
    /\ Nobody \notin Checks \cup Installs
    /\ MaxRelease \in Nat \ {0}
    /\ Policies \subseteq {"manual", "check-and-notify", "automatic-install"}
    /\ Policies # {}
    /\ Tolerance \in Nat \ {0, 1}
    /\ MaxDisturbances \in Nat

Programs == Checks \cup Installs
Release  == 1..MaxRelease
MaybeRelease == 0..MaxRelease    \* 0: none

VARIABLES
    newest,     \* the newest published release
    policy, timer,      \* POLICY, and whether the timer is enabled
    due,        \* the unit of the timer's activation that is to run
    lock, pc,   \* update.lock and the control point of each program
    target,     \* the release a program works on
    staged, available, installed,
    record, offered,    \* installed_* and available_* of state.json
    busy,       \* last_check_status is package-manager-busy
    allowed,    \* the root stage has read automatic-install
    status,     \* of check-state.json
    fresh,      \* check-state.json is not what the helper found first
    helper,     \* control point of the operation under the helper's lock
    inactive,   \* inactive_polls
    requested,  \* history: the newest release when one was asked for
    previous,   \* the policy that set-policy found
    excused,    \* history: why it may fail has happened since
    disturbances

reports == <<status, fresh>>
files   == <<staged, available, installed>>
state   == <<record, offered, busy, allowed>>
progress == <<inactive, requested>>
request == <<helper, progress>>
switch  == <<policy, timer, previous>>
vars == <<newest, switch, due, lock, pc, target, files, state, reports,
          request, excused, disturbances>>

Working  == {"indexing", "downloading"}
Good     == {"verified", "already-staged"}
Bad      == {"check-failed", "release-unavailable", "current", "paused"}
Statuses == {"none", "manual"} \cup Working \cup Good \cup Bad

At(p, label) == pc[p] = label
Goto(p, label) == pc' = [pc EXCEPT ![p] = label]
HelperAt(label) == helper = label
HelperTo(label) == helper' = label

\* Every write of check-state.json makes a new file, which matters to the
\* helper from the moment it has identified the file it found.
Report(s) == /\ status' = s
             /\ fresh' = (helper \in {"starting", "polling", "asking"})

InRequest == helper \notin {"idle", "pausing", "switching"}
Excuse(b) == excused' = (excused \/ (b /\ InRequest))

Init ==
    /\ newest = 1
    /\ policy \in Policies
    /\ timer = (policy # "manual")
    /\ due = "check"
    /\ lock = Nobody
    /\ pc = [p \in Programs |-> "idle"]
    /\ target = [p \in Programs |-> 0]
    /\ staged = 0 /\ available = 0 /\ installed = 0
    /\ record = 0 /\ offered = 0 /\ busy = FALSE
    /\ allowed = FALSE
    /\ status = "none" /\ fresh = FALSE
    /\ helper = "idle" /\ inactive = 0 /\ requested = 0
    /\ previous = policy
    /\ excused = FALSE
    /\ disturbances = 0

-----------------------------------------------------------------------------
(* Checks *)

\* Only what the timer started moves its activation on.
Then(p, unit) == due' = IF p \in {"chk", "ins"} THEN unit ELSE due

\* The timer starts its check, never two activations at once.
TimerCheck ==
    /\ timer /\ due = "check"
    /\ At("chk", "idle") /\ At("ins", "idle")
    /\ Goto("chk", "locking")
    /\ UNCHANGED <<newest, switch, due, lock, target, files, state,
                   reports, request, excused>>

\* The lock is taken and the timer's check exits with 75 ...
CheckBusy(c) ==
    /\ c = "chk" /\ At(c, "locking") /\ lock # Nobody
    /\ Goto(c, "idle")
    /\ Then(c, "check")
    /\ UNCHANGED <<newest, switch, lock, target, files, state, reports,
                   request, excused>>

\* Mutant: the two hours begin again with every try.
LockWaitRestarts(c) ==
    /\ c = "mgr" /\ At(c, "locking") /\ lock # Nobody
    /\ UNCHANGED <<newest, switch, due, lock, pc, target, files, state,
                   reports, request, excused>>

\* ... the Manager's tries again every half second, and after two hours fails.
LockTimeout(c) ==
    /\ c = "mgr" /\ At(c, "locking") /\ lock # Nobody
    /\ Goto(c, "raising")
    /\ Excuse(TRUE)
    /\ UNCHANGED <<newest, switch, due, lock, target, files, state, reports,
                   request>>

\* What the last check has found is overwritten.
CheckLock(c) ==
    /\ At(c, "locking") /\ lock = Nobody
    /\ lock' = c
    /\ IF policy = "manual" /\ c = "chk"
         THEN Report("manual") /\ Goto(c, "reported")
         ELSE Report("indexing") /\ Goto(c, "indexing")
    /\ Excuse(status \in Good)
    /\ UNCHANGED <<newest, switch, due, target, files, state, request>>

\* "current", and "already-staged" as a root-owned candidate.
UpToDate == record = newest
Offered  == offered = newest /\ available # 0

\* Mutant: an up-to-date system is not reported.
CheckKnownSilent(c) ==
    /\ At(c, "indexing")
    /\ UpToDate \/ Offered \/ staged = newest
    /\ IF UpToDate THEN UNCHANGED reports ELSE Report("already-staged")
    /\ Excuse(UpToDate \/ Offered)
    /\ Goto(c, "reported")
    /\ UNCHANGED <<newest, switch, due, lock, target, files, state, request>>

\* There is nothing to download.
CheckKnown(c) ==
    /\ At(c, "indexing")
    /\ UpToDate \/ Offered \/ staged = newest
    /\ Report(IF UpToDate THEN "current" ELSE "already-staged")
    /\ Excuse(UpToDate \/ Offered)
    /\ Goto(c, "reported")
    /\ UNCHANGED <<newest, switch, due, lock, target, files, state, request>>

\* A staged release that is not the newest is removed.
CheckFetch(c) ==
    /\ At(c, "indexing")
    /\ ~UpToDate /\ ~Offered /\ staged # newest
    /\ target' = [target EXCEPT ![c] = newest]
    /\ Excuse(staged # 0)
    /\ staged' = 0
    /\ Report("downloading")
    /\ Goto(c, "downloading")
    /\ UNCHANGED <<newest, switch, due, lock, available, installed, state,
                   request>>

\* The download verifies: replace_directory(staging, staged).
CheckStage(c) ==
    /\ At(c, "downloading")
    /\ staged' = target[c]
    /\ Goto(c, "staged")
    /\ UNCHANGED <<newest, switch, due, lock, target, available,
                   installed, state, reports, request, excused>>

CheckVerified(c) ==
    /\ At(c, "staged")
    /\ Report("verified")
    /\ Goto(c, "reported")
    /\ UNCHANGED <<newest, switch, due, lock, target, files, state,
                   request, excused>>

\* The final report is written; now the lock is released.
CheckReturn(c) ==
    /\ At(c, "reported")
    /\ Goto(c, "idle")
    /\ target' = [target EXCEPT ![c] = 0]
    /\ lock' = Nobody
    /\ Then(c, "install")
    /\ UNCHANGED <<newest, switch, files, state, reports, request, excused>>

\* The release, or its Manifest, is not on GitHub.
CheckUnavailable(c) ==
    /\ At(c, "downloading")
    /\ Report("release-unavailable")
    /\ Goto(c, "reported")
    /\ Excuse(TRUE)
    /\ UNCHANGED <<newest, switch, due, lock, target, files, state, request>>

\* An exception leaves the lock, if it was had ...
CheckRaise(c) ==
    /\ pc[c] \in {"locking", "indexing", "downloading", "staged"}
    /\ Goto(c, "raising")
    /\ lock' = IF lock = c THEN Nobody ELSE lock
    /\ Excuse(TRUE)
    /\ UNCHANGED <<newest, switch, due, target, files, state, reports, request>>

\* ... and is reported without it.
CheckFailed(c) ==
    /\ At(c, "raising")
    /\ Report("check-failed")
    /\ Goto(c, "idle")
    /\ target' = [target EXCEPT ![c] = 0]
    /\ Then(c, "check")
    /\ Excuse(TRUE)
    /\ UNCHANGED <<newest, switch, lock, files, state, request>>

-----------------------------------------------------------------------------
(* The root stage *)

\* The check of the activation succeeded.
TimerInstall ==
    /\ due = "install" /\ At("chk", "idle") /\ At("ins", "idle")
    /\ Goto("ins", "locking")
    /\ UNCHANGED <<newest, switch, due, lock, target, files, state,
                   reports, request, excused>>

\* Exit status 75.
InstallBusy(i) ==
    /\ At(i, "locking") /\ lock # Nobody
    /\ Goto(i, IF i = "req" THEN "refused" ELSE "idle")
    /\ Then(i, "check")
    /\ Excuse(TRUE)
    /\ UNCHANGED <<newest, switch, lock, target, files, state, reports,
                   request>>

\* Mutant: the lock is not waited for.
InstallLockFree(i) ==
    /\ At(i, "locking")
    /\ lock' = i
    /\ target' = [target EXCEPT ![i] = IF staged # 0 THEN staged ELSE available]
    /\ Goto(i, IF staged # 0 THEN "copied"
               ELSE IF available # 0 THEN "kept" ELSE "nothing")
    /\ staged' = 0
    /\ allowed' = (policy = "automatic-install")
    /\ Excuse(i = "ins" /\ staged # 0)
    /\ UNCHANGED <<newest, switch, due, available, installed, record,
                   offered, busy, reports, request>>

\* The candidate is what is staged, which is moved, or what is kept in
\* available/ (UpdateController: InstallLock, InstallCopy).
InstallLock(i) ==
    /\ At(i, "locking") /\ lock = Nobody
    /\ lock' = i
    /\ target' = [target EXCEPT ![i] = IF staged # 0 THEN staged ELSE available]
    /\ Goto(i, IF staged # 0 THEN "copied"
               ELSE IF available # 0 THEN "kept" ELSE "nothing")
    /\ staged' = 0
    /\ allowed' = (policy = "automatic-install")
    /\ Excuse(i = "ins" /\ staged # 0)
    /\ UNCHANGED <<newest, switch, due, available, installed, record,
                   offered, busy, reports, request>>

\* A run ends: "ended" is an exit status of 0, "refused" any other.
InstallEnd(i, result) ==
    /\ Goto(i, IF i = "req" THEN result ELSE "idle")
    /\ target' = [target EXCEPT ![i] = 0]
    /\ lock' = Nobody
    /\ Then(i, "check")

\* propagate_check_state; --force fails.
InstallNothing(i) ==
    /\ At(i, "nothing")
    /\ InstallEnd(i, "refused")
    /\ busy' = (busy /\ status = "none")
    /\ UNCHANGED <<newest, switch, files, record, offered, allowed,
                   reports, request, excused>>

\* Mutant: any verified candidate will do.
MatchesAny(r) == r # 0
Matches(r) == r = newest

\* The candidate is not the newest release.
InstallMismatch(i) ==
    /\ pc[i] \in {"copied", "kept"} /\ ~Matches(target[i])
    /\ InstallEnd(i, "refused")
    /\ Excuse(TRUE)
    /\ UNCHANGED <<newest, switch, files, state, reports, request>>

\* It is installed and recorded already.
InstallAlready(i) ==
    /\ pc[i] \in {"copied", "kept"} /\ Matches(target[i]) /\ record = target[i]
    /\ available' = IF At(i, "kept") THEN 0 ELSE available
    /\ offered' = 0 /\ busy' = FALSE
    /\ InstallEnd(i, "ended")
    /\ Excuse(i = "ins")
    /\ UNCHANGED <<newest, switch, staged, installed, record, allowed,
                   reports, request>>

InstallKeep(i) ==
    /\ pc[i] \in {"copied", "kept"} /\ Matches(target[i]) /\ record # target[i]
    /\ available' = target[i]
    /\ Goto(i, IF allowed \/ i = "req" THEN "ready"
               ELSE "offering")
    /\ UNCHANGED <<newest, switch, due, lock, target, staged, installed,
                   state, reports, request, excused>>

InstallOffer(i) ==
    /\ At(i, "offering")
    /\ offered' = target[i] /\ busy' = FALSE
    /\ InstallEnd(i, "ended")
    /\ UNCHANGED <<newest, switch, files, record, allowed, reports,
                   request, excused>>

\* dpkg or apt is running: the exit status is 0 all the same.
InstallDefer(i) ==
    /\ At(i, "ready")
    /\ offered' = target[i] /\ busy' = TRUE
    /\ InstallEnd(i, "ended")
    /\ Excuse(TRUE)
    /\ UNCHANGED <<newest, switch, files, record, allowed, reports, request>>

InstallPackages(i) ==
    /\ At(i, "ready")
    /\ installed' = target[i]
    /\ Goto(i, "unpacked")
    /\ UNCHANGED <<newest, switch, due, lock, target, staged, available,
                   state, reports, request, excused>>

InstallCommit(i) ==
    /\ At(i, "unpacked")
    /\ available' = 0
    /\ record' = target[i] /\ offered' = 0 /\ busy' = FALSE
    /\ InstallEnd(i, "ended")
    /\ Excuse(i = "ins")
    /\ UNCHANGED <<newest, switch, staged, installed, allowed, reports,
                   request>>

InstallFail(i) ==
    /\ pc[i] \in {"copied", "kept", "ready", "unpacked"}
    /\ InstallEnd(i, "refused")
    /\ \/ UNCHANGED <<offered, busy>>
       \/ At(i, "ready") /\ offered' = target[i] /\ busy' = FALSE
    /\ Excuse(TRUE)
    /\ UNCHANGED <<newest, switch, files, record, allowed, reports, request>>

-----------------------------------------------------------------------------
(* install-update *)

Answer(a) == HelperTo(a) /\ inactive' = 0

\* The answer is given, and the helper's lock released.
Answered ==
    /\ helper \in {"failed", "complete"}
    /\ HelperTo("idle")
    /\ requested' = 0 /\ excused' = FALSE
    /\ UNCHANGED <<newest, switch, due, lock, pc, target, files, state,
                   reports, inactive>>

\* record_install_progress("preparing", 5)
InstallUpdate ==
    /\ HelperAt("idle")
    /\ HelperTo("looking")
    /\ requested' = newest
    /\ excused' = FALSE
    /\ UNCHANGED <<newest, switch, due, lock, pc, target, files, state,
                   reports, inactive>>

\* update-local install --force
RunInstall == Goto("req", "locking") /\ HelperTo("installing")

LookForRelease ==
    /\ HelperAt("looking")
    /\ IF staged # 0 \/ available # 0
         THEN RunInstall
         ELSE HelperTo("recovering") /\ UNCHANGED pc
    /\ UNCHANGED <<newest, switch, due, lock, target, files, state,
                   reports, progress, excused>>

\* Mutant: the state file of an earlier check is not told apart.
RecoverAny ==
    /\ HelperAt("recovering")
    /\ fresh' = TRUE
    /\ HelperTo("starting")
    /\ UNCHANGED <<newest, switch, due, lock, pc, target, files, state,
                   status, progress, excused>>

\* recover_verified_release: the state file is identified ...
Recover ==
    /\ HelperAt("recovering")
    /\ fresh' = FALSE
    /\ HelperTo("starting")
    /\ UNCHANGED <<newest, switch, due, lock, pc, target, files, state,
                   status, progress, excused>>

\* systemctl start --no-block: a unit that runs goes on running.
StartUnit == pc' = [pc EXCEPT !["mgr"] = IF @ = "idle" THEN "locking" ELSE @]

\* ... and the Manager's check is started.  One that has reported before the
\* file was identified, and has yet to exit, will not report again.
RecoverStart ==
    /\ HelperAt("starting")
    /\ StartUnit
    /\ HelperTo("polling")
    /\ Excuse(pc["mgr"] \in {"reported", "raising"})
    /\ UNCHANGED <<newest, switch, due, lock, target, files, state,
                   reports, progress>>

\* The state file is read.
Poll ==
    /\ HelperAt("polling")
    /\ IF fresh /\ status \in Good /\ staged # 0
         THEN RunInstall /\ UNCHANGED inactive
         ELSE /\ UNCHANGED pc
              /\ IF fresh /\ status \in Good \cup Bad
                   THEN Answer("failed")
                   ELSE HelperTo("asking") /\ UNCHANGED inactive
    /\ UNCHANGED <<newest, switch, due, lock, target, files, state,
                   reports, requested, excused>>

\* check_unit_is_live
UnitLive == pc["mgr"] # "idle"

\* Mutant: inactive polls are not counted.
AskForEver ==
    /\ HelperAt("asking")
    /\ HelperTo("polling") /\ inactive' = 0
    /\ UNCHANGED <<newest, switch, due, lock, pc, target, files, state,
                   reports, requested, excused>>

\* inactive_polls
Ask ==
    /\ HelperAt("asking")
    /\ IF UnitLive
         THEN HelperTo("polling") /\ inactive' = 0
         ELSE IF inactive + 1 >= Tolerance
         THEN Answer("failed")
         ELSE HelperTo("polling") /\ inactive' = inactive + 1
             
    /\ UNCHANGED <<newest, switch, due, lock, pc, target, files, state,
                   reports, requested, excused>>

\* The Manager's check is stopped wherever it is.
StopUnit ==
    /\ pc' = [pc EXCEPT !["mgr"] = "idle"]
    /\ target' = [target EXCEPT !["mgr"] = 0]
    /\ lock' = IF lock = "mgr" THEN Nobody ELSE lock

\* The two hours of recover_verified_release are over.
Deadline ==
    /\ HelperAt("polling")
    /\ StopUnit
    /\ Answer("failed")
    /\ Excuse(TRUE)
    /\ UNCHANGED <<newest, switch, due, files, state, reports, requested>>

\* The install has ended; state.json says what became of it.  (Its kernel's
\* packages are asked of dpkg: UpdateController, RecordBacked.)
Installed ==
    /\ HelperAt("installing")
    /\ pc["req"] \in {"ended", "refused"}
    /\ Goto("req", "idle")
    /\ Answer(IF At("req", "refused") \/ busy \/ record = 0 THEN "failed"
              ELSE "complete")
    /\ UNCHANGED <<newest, switch, due, lock, target, files, state,
                   reports, requested, excused>>

-----------------------------------------------------------------------------
(* The other operations: start-check, pause-check, set-policy *)

StartCheck ==
    /\ HelperAt("idle")
    /\ StartUnit
    /\ UNCHANGED <<newest, switch, due, lock, target, files, state,
                   reports, request, excused>>

PauseCheck ==
    /\ HelperAt("idle")
    /\ StopUnit
    /\ HelperTo("pausing")
    /\ UNCHANGED <<newest, switch, due, files, state, reports, progress, excused>>

\* mark_check_paused overwrites whatever another check has reported since.
MarkPaused ==
    /\ HelperAt("pausing")
    /\ Report("paused")
    /\ HelperTo("idle")
    /\ UNCHANGED <<newest, switch, due, lock, pc, target, files, state,
                   progress, excused>>

\* The configuration is written ...
SetPolicy(p) ==
    /\ HelperAt("idle")
    /\ previous' = policy /\ policy' = p
    /\ HelperTo("switching")
    /\ UNCHANGED <<newest, timer, due, lock, pc, target, files, state, reports,
                   progress, excused>>

\* ... and the timer enabled or disabled.
SwitchTimer ==
    /\ HelperAt("switching")
    /\ timer' = (policy # "manual")
    /\ previous' = policy
    /\ HelperTo("idle")
    /\ UNCHANGED <<newest, policy, due, lock, pc, target, files, state, reports,
                   progress, excused>>

\* systemctl fails, with or without effect: the configuration is put back, the
\* timer is not.
SwitchTimerFail ==
    /\ HelperAt("switching")
    /\ timer' \in {timer, policy # "manual"}
    /\ policy' = previous
    /\ HelperTo("idle")
    /\ UNCHANGED <<newest, previous, due, lock, pc, target, files, state,
                   reports, progress, excused>>

-----------------------------------------------------------------------------
(* What comes from outside *)

\* A release is published.
Publish ==
    /\ newest < MaxRelease
    /\ newest' = newest + 1
    /\ Excuse(TRUE)
    /\ UNCHANGED <<switch, due, lock, pc, target, files, state, reports, request>>

\* A program is killed, or its unit times out: the lock is released, and an
\* incoming copy is lost.  install-update sees its install fail.
Killed(p) ==
    /\ pc[p] \notin {"idle", "ended", "refused"}
    /\ pc' = [pc EXCEPT ![p] = IF p = "req" THEN "refused" ELSE "idle"]
    /\ target' = [target EXCEPT ![p] = 0]
    /\ lock' = IF lock = p THEN Nobody ELSE lock
    /\ Then(p, "check")
    /\ Excuse(TRUE)
    /\ UNCHANGED <<newest, switch, files, state, reports, request>>

\* The machine restarts: files stay.
Restarted ==
    /\ pc' = [p \in Programs |-> "idle"]
    /\ target' = [p \in Programs |-> 0]
    /\ lock' = Nobody
    /\ due' = "check"
    /\ previous' = policy
    /\ Answer("idle") /\ requested' = 0 /\ excused' = FALSE
    /\ UNCHANGED <<newest, policy, timer, files, state, reports>>

-----------------------------------------------------------------------------
CheckStep(c) ==
    \/ CheckBusy(c) \/ LockTimeout(c) \/ CheckLock(c) \/ CheckKnown(c)
    \/ CheckFetch(c) \/ CheckStage(c) \/ CheckVerified(c) \/ CheckReturn(c) \/ CheckFailed(c)

InstallStep(i) ==
    \/ InstallBusy(i) \/ InstallLock(i) \/ InstallNothing(i)
    \/ InstallMismatch(i) \/ InstallAlready(i) \/ InstallKeep(i)
    \/ InstallOffer(i) \/ InstallPackages(i) \/ InstallCommit(i)

HelperStep ==
    \/ LookForRelease \/ Recover \/ RecoverStart \/ Poll \/ Ask \/ Deadline
    \/ Installed \/ Answered \/ MarkPaused \/ SwitchTimer

TimerStep == TimerCheck \/ TimerInstall

Quiet ==
    \/ TimerStep
    \/ \E c \in Checks : CheckStep(c)
    \/ \E i \in Installs : InstallStep(i)
    \/ HelperStep \/ Publish

Disturbance ==
    /\ disturbances < MaxDisturbances
    /\ disturbances' = disturbances + 1
    /\ \/ \E c \in Checks : CheckUnavailable(c) \/ CheckRaise(c)
       \/ \E i \in Installs : InstallDefer(i) \/ InstallFail(i)
       \/ InstallUpdate \/ StartCheck \/ PauseCheck
       \/ \E p \in Policies : SetPolicy(p)
       \/ SwitchTimerFail \/ Restarted
       \/ \E p \in Programs : Killed(p)

Next == (Quiet /\ UNCHANGED disturbances) \/ Disturbance

\* The timer goes on activating and what runs goes on running.  A check that
\* waits for the lock is not promised it, for it asks twice a second and has no
\* place in a queue; it gets it or its two hours are over.  Nor does anything
\* here rest on the two hours of the helper, which may be over or not.
Fairness ==
    /\ WF_vars(TimerStep /\ UNCHANGED disturbances)
    /\ WF_vars(HelperStep /\ UNCHANGED disturbances)
    /\ \A c \in Checks : WF_vars(CheckStep(c) /\ UNCHANGED disturbances)
    /\ \A i \in Installs : WF_vars(InstallStep(i) /\ UNCHANGED disturbances)

Spec == Init /\ [][Next]_vars /\ Fairness

-----------------------------------------------------------------------------
(* Properties *)

CheckLabels   == {"idle", "locking", "indexing", "downloading", "staged",
                  "reported", "raising"}
InstallLabels == {"idle", "locking", "copied", "kept", "nothing", "offering",
                  "ready", "unpacked", "ended", "refused"}
HelperLabels  == {"idle", "looking", "recovering", "starting", "polling",
                  "asking", "installing", "failed", "complete", "pausing",
                  "switching"}
Outside == {"idle", "locking", "raising", "ended", "refused"}

\* Every variable keeps its type, a program that works holds update.lock and
\* works alone, and the run of install-update lives as long as it is waited for.
TypeOK ==
    /\ newest \in Release
    /\ {staged, available, installed, record, offered, requested}
           \subseteq MaybeRelease
    /\ {policy, previous} \subseteq Policies
    /\ timer \in BOOLEAN /\ busy \in BOOLEAN /\ allowed \in BOOLEAN
    /\ fresh \in BOOLEAN /\ excused \in BOOLEAN
    /\ due \in {"check", "install"}
    /\ lock \in Programs \cup {Nobody}
    /\ pc \in [Programs -> CheckLabels \cup InstallLabels]
    /\ \A c \in Checks : pc[c] \in CheckLabels
    /\ \A i \in Installs : pc[i] \in InstallLabels
    /\ target \in [Programs -> MaybeRelease]
    /\ status \in Statuses
    /\ helper \in HelperLabels
    /\ inactive \in 0..Tolerance
    /\ \A p \in Programs : pc[p] \notin Outside <=> lock = p
    /\ pc["req"] # "idle" <=> helper = "installing"

\* An install-update that fails has had a reason: the newest release changed
\* or could not be had, the candidate was not the newest, a program failed,
\* was killed, ran out of time or found the lock taken, the timer's root stage
\* took the candidate, or a check began over the report of another.  What the helper
\* waited for is never a report of an earlier check, nor one that came before
\* the files it speaks of.
FailureExcused == HelperAt("failed") => excused

\* An install-update that succeeds without one of those has installed the
\* newest release there was when it was asked for, or a later one.
SuccessIsNewest == HelperAt("complete") => installed >= requested \/ excused

\* Every operation of the helper ends: install-update does not wait for a check
\* that was stopped, killed or refused, whatever it last reported, nor for one
\* that the timer's programs keep from the lock; and it need not wait out its
\* own two hours for that.
RequestEnds == ~HelperAt("idle") ~> HelperAt("idle")

\* As long as the timer runs, check-state.json does not go on saying that a
\* check works: what one that was killed or stopped has left there, and the
\* Manager shows, the next one ends with what it found.
ProgressEnds ==
    status \in Working ~> (status \notin Working \/ ~timer \/ policy = "manual")

-----------------------------------------------------------------------------
(* The inductive invariant *)

\* Holders of a candidate.
Holding == {"copied", "kept", "offering", "ready", "unpacked"}

\* What is recorded is installed, and nothing is newer than the newest release;
\* a program that holds a release knows what is installed.
Ordered ==
    /\ record <= installed /\ installed <= newest /\ requested <= newest
    /\ \A c \in Checks :
          /\ pc[c] \in {"downloading", "staged"} => target[c] # 0
          /\ At(c, "staged") => staged # 0
    /\ \A i \in Installs :
          /\ pc[i] \in Holding => target[i] # 0
          /\ pc[i] \in {"offering", "ready"} =>
               installed <= target[i] /\ target[i] <= newest
          /\ At(i, "unpacked") => installed = target[i]

\* Until something excuses a failure, a good report that the helper would act
\* upon speaks of what is staged, and the check that it waits for has reported
\* when it ends.
Reported ==
    /\ fresh /\ status \in Good => staged # 0
    /\ ~(fresh /\ status \in Bad)

\* The awaited check has left a good report when it is over, and no check of the
\* timer overwrites that, or it is still to report.
Awaited ==
    /\ At("mgr", "idle") \/ At("mgr", "reported") => fresh /\ status \in Good
    /\ At("mgr", "idle") => lock # "chk"
    /\ ~At("mgr", "raising")

\* What install-update may rely on in recover_verified_release.
Waiting ==
    /\ ~excused /\ helper \in {"starting", "polling", "asking"} => Reported
    /\ ~excused /\ helper \in {"polling", "asking"} => Awaited
    /\ ~excused /\ HelperAt("asking") => inactive = 0
    /\ ~excused /\ HelperAt("polling") /\ inactive # 0 => At("mgr", "idle")
    /\ helper \notin {"polling", "asking", "installing"} => inactive = 0

\* The run of install-update has something to install and succeeds, until
\* something excuses its failure.
Run ==
    /\ At("req", "locking") => staged # 0 \/ available # 0
    /\ pc["req"] \notin {"nothing", "refused"}
    /\ pc["req"] \in {"ready", "unpacked"} => target["req"] >= requested
    /\ At("req", "ended") => ~busy /\ record # 0 /\ installed >= requested

\* A run with --force never offers.
Running ==
    /\ ~At("req", "offering")
    /\ ~excused => Run

\* update.lock is held by the program that works, what is recorded is installed,
\* and what install-update waits for, or has started, succeeds unless something
\* has happened that excuses its failure.
RequestInv ==
    /\ TypeOK /\ Ordered /\ Waiting /\ Running
    /\ FailureExcused /\ SuccessIsNewest

=============================================================================
