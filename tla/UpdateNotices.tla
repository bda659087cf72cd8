----------------------------- MODULE UpdateNotices -----------------------------
(***************************************************************************)
(* How the user hears of a Manager release: check_manager_release of       *)
(* scripts/update-local.py writes manager-check-state.json, whose change   *)
(* starts the notifier of the desktop session through a path unit;         *)
(* manager/scripts/desktop-update-notify.py shows each version once, as    *)
(* notifications.json remembers.  The Manager application runs the same    *)
(* program, and a lock excludes the two.                                   *)
(***************************************************************************)
EXTENDS ReleaseProduction

Notifier == {"unit", "app"}

VARIABLES
    checking,   \* a check has reached check_manager_release
    installed,  \* the Manager's version, 0: older than any release here
    available,  \* the version manager-check-state.json offers, 0: none
    changed,    \* the path unit has seen a change and starts the notifier
    phase,      \* of each notifier: "off", "waiting" or "showing"
    candidate,  \* the version each was started for
    notified,   \* notifications.json
    lastShown,  \* history: the last version shown, unless the record was lost
    seen,       \* history: all versions shown
    repeated,   \* history: versions shown twice in a row
    missed      \* history: a version was offered while the unit's notifier ran

files == <<available, notified>>
notifiers == <<phase, candidate, lastShown, seen, repeated>>
nvars == <<checking, installed, files, changed, notifiers, missed>>

NoticeInit ==
    /\ checking = FALSE /\ installed = 0
    /\ available = 0 /\ notified = 0
    /\ changed = FALSE /\ missed = FALSE
    /\ phase = [p \in Notifier |-> "off"]
    /\ candidate = [p \in Notifier |-> 0]
    /\ lastShown = 0 /\ seen = {} /\ repeated = {}

-----------------------------------------------------------------------------
(* The check *)

\* PathChanged= does not watch the file while the unit it starts is running.
Offer(t) ==
    /\ available' = t
    /\ IF phase["unit"] = "off" THEN changed' = TRUE /\ UNCHANGED missed
       ELSE missed' = (t # 0) /\ UNCHANGED changed

\* "checking"
BeginCheck ==
    /\ ~checking /\ checking' = TRUE
    /\ Offer(0)
    /\ UNCHANGED <<installed, notified, notifiers>>

\* "available" or "current"
Report(t) ==
    /\ checking /\ checking' = FALSE
    /\ IsNewest(t)
    /\ Offer(IF t > installed THEN t ELSE 0)
    /\ UNCHANGED <<installed, notified, notifiers>>

\* "check-failed": no Manager release is listed, or the request fails.
ReportFailure ==
    /\ checking /\ checking' = FALSE
    /\ Offer(0)
    /\ UNCHANGED <<installed, notified, notifiers>>

\* The check ends without an answer.
CheckDies ==
    /\ checking /\ checking' = FALSE
    /\ UNCHANGED <<installed, files, changed, notifiers, missed>>

InstallManager(t) ==
    /\ IsNewest(t) /\ installed < t
    /\ installed' = t
    /\ UNCHANGED <<checking, files, changed, notifiers, missed>>

-----------------------------------------------------------------------------
(* The notifier *)

PhaseTo(p, label) == phase' = [phase EXCEPT ![p] = label]

Exit(p) ==
    /\ PhaseTo(p, "off")
    /\ candidate' = [candidate EXCEPT ![p] = 0]

\* update_candidates, before the lock; the application starts it for the
\* version it has read.
Start(p) ==
    /\ phase[p] = "off"
    /\ IF p = "unit" THEN changed ELSE available # 0
    /\ PhaseTo(p, "waiting")
    /\ candidate' = [candidate EXCEPT ![p] = available]
    /\ IF p = "unit" THEN changed' = FALSE /\ missed' = FALSE
                     ELSE UNCHANGED <<changed, missed>>
    /\ UNCHANGED <<checking, installed, files, lastShown, seen, repeated>>

Pending(p) == candidate[p] \notin {0, notified}
LockFree == \A q \in Notifier : phase[q] # "showing"

Locked(p) == phase[p] = "waiting" /\ LockFree

NothingNew(p) ==
    /\ Locked(p) /\ ~Pending(p)
    /\ Exit(p)
    /\ UNCHANGED <<checking, installed, files, changed, lastShown, seen,
                   repeated, missed>>

ShowNew(p) ==
    /\ Pending(p)
    /\ PhaseTo(p, "showing")
    /\ lastShown' = candidate[p]
    /\ seen' = seen \cup {candidate[p]}
    /\ repeated' = repeated \cup ({lastShown} \cap {candidate[p]})
    /\ UNCHANGED <<checking, installed, files, changed, candidate, missed>>

\* Mutant: notifications.json is locked only to be written.
ShowUnlocked(p) == phase[p] = "waiting" /\ ShowNew(p)

Show(p) == Locked(p) /\ ShowNew(p)

\* The notification was clicked, or 20 seconds are over; the lock is released.
Record(p) ==
    /\ phase[p] = "showing"
    /\ notified' = candidate[p]
    /\ Exit(p)
    /\ UNCHANGED <<checking, installed, available, changed,
                   lastShown, seen, repeated, missed>>

\* Mutant: a version counts as shown when it could not be.
ShowFailsRecorded(p) ==
    /\ Locked(p) /\ Pending(p)
    /\ notified' = candidate[p]
    /\ Exit(p)
    /\ UNCHANGED <<checking, installed, available, changed,
                   lastShown, seen, repeated, missed>>

\* The notification service cannot be reached, or has no actions.
ShowFails(p) ==
    /\ Locked(p) /\ Pending(p)
    /\ Exit(p)
    /\ UNCHANGED <<checking, installed, files, changed, lastShown, seen,
                   repeated, missed>>

\* The session ends, or write_state fails: what was shown is not recorded.
NotifierDies(p) ==
    /\ phase[p] # "off"
    /\ Exit(p)
    /\ lastShown' = IF phase[p] = "showing" THEN 0 ELSE lastShown
    /\ UNCHANGED <<checking, installed, files, changed, seen, repeated,
                   missed>>

CheckStep ==
    BeginCheck \/ (\E t \in Tag : Report(t)) \/ (Published = {} /\ ReportFailure)
NotifierStep(p) == NothingNew(p) \/ Show(p) \/ Record(p)

NoticeStep ==
    CheckStep \/ \E p \in Notifier : Start(p) \/ NotifierStep(p)

NoticeDisturbance ==
    \/ ReportFailure \/ CheckDies
    \/ \E p \in Notifier : ShowFails(p) \/ NotifierDies(p)

-----------------------------------------------------------------------------
(* Properties *)

NoticeTypeOK ==
    /\ checking \in BOOLEAN /\ changed \in BOOLEAN /\ missed \in BOOLEAN
    /\ installed \in 0..MaxTag /\ available \in 0..MaxTag
    /\ notified \in 0..MaxTag /\ lastShown \in 0..MaxTag
    /\ phase \in [Notifier -> {"off", "waiting", "showing"}]
    /\ candidate \in [Notifier -> 0..MaxTag]
    /\ seen \subseteq Tag /\ repeated \subseteq Tag

\* No version is announced twice in a row, though two notifiers read their
\* candidates before the lock, unless the first did not live to record it.
ShownOnce == repeated = {}

\* A Manager release is eventually announced, unless it is installed or no
\* longer the newest, or the check offered it while the notifier it starts was
\* running: the path unit sees no change then.
NoticeGiven ==
    \A t \in Tag :
        (kind = "manager" /\ IsNewest(t)) ~>
            (t \in seen \/ installed >= t \/ ~IsNewest(t) \/ missed)

=============================================================================
