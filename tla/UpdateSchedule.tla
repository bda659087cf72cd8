--------------------------- MODULE UpdateSchedule ---------------------------
(***************************************************************************)
(* The update controller as systemd runs it, and what it then achieves.    *)
(*                                                                         *)
(* s4lockdown-update.timer starts s4lockdown-update.service, which         *)
(* requires, and is ordered after, s4lockdown-update-check.service: each   *)
(* activation is one check and, when that succeeds, one run of the root    *)
(* stage.  The Manager starts its own (forced) checks and installations    *)
(* beside that.                                                            *)
(*                                                                         *)
(* The steps are those of UpdateController.  Disturbances - failures,      *)
(* kills, restarts, battery power, operations and changes of the policy    *)
(* from the Manager - come at any point, but at most MaxDisturbances       *)
(* times; the number bounds the model, not the program.                    *)
(***************************************************************************)
EXTENDS UpdateController

CONSTANT MaxDisturbances

ASSUME DisturbanceAssumption == MaxDisturbances \in Nat

VARIABLES
    due,            \* which unit of the current activation is to run
    disturbances    \* how many there have been

svars == <<vars, due, disturbances>>

SInit == Init /\ due = "check" /\ disturbances = 0

\* The process p, one of systemd's own, ends in this step.
Ends(p) == p \notin Forced /\ pc[p] # "idle" /\ pc'[p] = "idle"

\* A finished root stage ends the activation, a finished check starts the
\* root stage.
Continue ==
    due' = IF \E i \in Installers : Ends(i) THEN "check"
           ELSE IF \E c \in Checkers : Ends(c) THEN "install"
           ELSE due

\* A failed or killed unit, or a restart, ends the activation.
Abandon ==
    due' = IF \E p \in Procs : Ends(p) THEN "check" ELSE due

\* A unit is started when its turn comes, one from the Manager at any time.
StartsInTurn(p, unit) ==
    \/ p \notin Forced /\ due = unit /\ UNCHANGED disturbances
    \/ /\ p \in Forced /\ disturbances < MaxDisturbances
       /\ disturbances' = disturbances + 1

ScheduledStep ==
    /\ \/ \E c \in Checkers : CheckStep(c)
       \/ \E i \in Installers :
            \/ InstallPrepare(i) \/ InstallBusy(i) \/ InstallLock(i)
            \/ InstallStep(i)
       \/ \E r \in Release : Publish(r)
    /\ Continue
    /\ UNCHANGED disturbances

ScheduledStart ==
    /\ \/ \E c \in Checkers : CheckBegin(c) /\ StartsInTurn(c, "check")
       \/ \E i \in Installers : InstallStart(i) /\ StartsInTurn(i, "install")
    /\ UNCHANGED due

Disturbance ==
    /\ disturbances < MaxDisturbances
    /\ disturbances' = disturbances + 1
    /\ \/ Fault /\ Abandon
       \/ \E p \in Policies : SetPolicy(p) /\ UNCHANGED due
       \/ \* ConditionACPower: the root stage is skipped
          /\ due = "install" /\ due' = "check"
          /\ \A i \in Installers \ Forced : At(i, "idle")
          /\ UNCHANGED vars

SNext == ScheduledStart \/ ScheduledStep \/ Disturbance

\* systemd activates the timer's unit again after every activation, and a
\* stage that runs goes on running: weak fairness is all that is needed once
\* nothing else contends for the lock.
Fairness ==
    /\ \A c \in Checkers :
         /\ c \notin Forced => WF_svars(CheckBegin(c) /\ ScheduledStart)
         /\ WF_svars(CheckStep(c) /\ ScheduledStep)
    /\ \A i \in Installers :
         /\ i \notin Forced => WF_svars(InstallStart(i) /\ ScheduledStart)
         /\ WF_svars(Install(i) /\ ScheduledStep)

SSpec == SInit /\ [][SNext]_svars /\ Fairness

-----------------------------------------------------------------------------
(* Properties *)

\* available/ is what an interrupted removal left of a candidate.
CandidateDamaged == damaged /\ available # NoRelease

\* The packages of r are there and its source version is the recorded one.  (A
\* record that a second install has overwritten comes back without the kernel
\* release.)
InstalledAndRecorded(r) == r \in packages /\ doc.source = r.src

\* As long as the policy is automatic-install, the newest published release is
\* eventually installed and recorded, unless a newer one is published: no
\* crash, failed run or contention leaves directories or records behind that
\* block it, other than a candidate that was half removed: such a candidate is
\* neither replaced nor used while state.json offers its source version.
NewestInstalled ==
    \A r \in Release :
        IsNewest(r, published)
            ~> (\/ InstalledAndRecorded(r)
                \/ ~IsNewest(r, published)
                \/ policy # "automatic-install"
                \/ CandidateDamaged)

\* Under check-and-notify as well, the newest published release is eventually
\* kept as the root-owned candidate and offered in state.json, or installed,
\* unless a newer one is published: a candidate of an older source version that
\* has become stale is replaced.
NewestOffered ==
    \A r \in Release :
        IsNewest(r, published)
            ~> (\/ available = r /\ doc.offered = r
                \/ InstalledAndRecorded(r)
                \/ ~IsNewest(r, published)
                \/ CandidateDamaged)

\* What docs/local-updater.md:174-176 says of a candidate that is no longer the
\* newest release: the next runs download and keep the newest one instead.
\* check_command compares only the source version of the candidate, so a newer
\* patch variant of the same source never gets there.
StaleCandidateReplaced ==
    \A r \in Release :
        (IsNewest(r, published) /\ available \notin {NoRelease, r})
            ~> (\/ r \in {staged, available, doc.kernel}
                \/ available = NoRelease
                \/ ~IsNewest(r, published))

=============================================================================
