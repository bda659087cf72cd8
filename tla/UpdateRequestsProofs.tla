------------------------- MODULE UpdateRequestsProofs -------------------------
(***************************************************************************)
(* Proofs about the Manager's update operations, for every number of       *)
(* releases, every set of policies, every tolerance of inactive polls      *)
(* above one and any number of disturbances: RequestInv is inductive.      *)
(*                                                                         *)
(* There is one lemma for each kind of step (of a check, of a root stage,  *)
(* of the helper, from outside) and each conjunct of RequestInv: types and *)
(* the lock, what the holders of a release know, what the helper waits     *)
(* for, the run it has started, and its answers.                           *)
(***************************************************************************)
EXTENDS UpdateRequests, TLAPS

\* The operations of the Manager that start, stop or disturb something.
HelperFault ==
    \/ InstallUpdate \/ StartCheck \/ PauseCheck
    \/ \E p \in Policies : SetPolicy(p)
    \/ SwitchTimerFail

\* Every step of a check keeps the types, and update.lock with the program
\* that works.
LEMMA CheckTypes ==
    ASSUME TypeOK, NEW c \in Checks,
           CheckStep(c) \/ CheckUnavailable(c) \/ CheckRaise(c) \/ Killed(c)
    PROVE  TypeOK'
<1> USE RequestAssumption
    DEF TypeOK, Programs, Release, MaybeRelease, Statuses, Working, Good, Bad,
        CheckLabels, InstallLabels, HelperLabels, Outside, At, HelperAt, Goto,
        HelperTo, Report, Excuse, InRequest, Then, files, state, reports,
        request, progress, switch
<1>1. CASE CheckLock(c)
  <2>1. CASE policy = "manual" /\ c = "chk"
    BY <1>1, <2>1 DEF CheckLock
  <2>2. CASE ~(policy = "manual" /\ c = "chk")
    <3>1. status' = "indexing"
      BY <1>1, <2>2 DEF CheckLock
    <3>2. fresh' = (helper \in {"starting", "polling", "asking"})
      BY <1>1, Zenon DEF CheckLock
    <3>3. fresh' \in BOOLEAN
      BY ONLY <3>2, SMT
    <3>4. excused' \in BOOLEAN
      BY <1>1 DEF CheckLock
    <3>5. pc' = [pc EXCEPT ![c] = "indexing"] /\ lock' = c /\ pc[c] = "locking"
      BY <1>1, <2>2 DEF CheckLock
    <3>6. lock = Nobody
      BY <1>1 DEF CheckLock
    <3>7. QED
      BY <1>1, <3>1, <3>3, <3>4, <3>5, <3>6 DEF CheckLock
  <2>3. QED
    BY <2>1, <2>2
<1>2. CASE CheckKnown(c)
  BY <1>2 DEF CheckKnown, UpToDate, Offered
<1>3. CASE CheckFetch(c)
  BY <1>3 DEF CheckFetch, UpToDate, Offered
<1>4. CASE CheckStage(c)
  BY <1>4 DEF CheckStage
<1>5. CASE CheckVerified(c)
  BY <1>5 DEF CheckVerified
<1>6. CASE CheckReturn(c)
  BY <1>6 DEF CheckReturn
<1>7. CASE CheckFailed(c)
  BY <1>7 DEF CheckFailed
<1>8. CASE CheckUnavailable(c)
  BY <1>8 DEF CheckUnavailable
<1>9. CASE CheckRaise(c)
  BY <1>9 DEF CheckRaise
<1>10. CASE Killed(c)
  BY <1>10 DEF Killed
<1>11. CASE CheckBusy(c)
  BY <1>11 DEF CheckBusy
<1>12. CASE LockTimeout(c)
  BY <1>12 DEF LockTimeout
<1>13. QED
  BY <1>1, <1>2, <1>3, <1>4, <1>5, <1>6, <1>7, <1>8, <1>9, <1>10, <1>11,
     <1>12 DEF CheckStep

\* Every step of a check keeps what is recorded behind what is installed, and
\* that behind what is published.
LEMMA CheckOrder ==
    ASSUME TypeOK, Ordered, NEW c \in Checks,
           CheckStep(c) \/ CheckUnavailable(c) \/ CheckRaise(c) \/ Killed(c)
    PROVE  Ordered'
<1> USE RequestAssumption
    DEF TypeOK, Programs, Release, MaybeRelease, Statuses, Working, Good, Bad,
        CheckLabels, InstallLabels, HelperLabels, Outside, At, HelperAt, Goto,
        HelperTo, Report, Excuse, InRequest, Then, files, state, reports,
        request, progress, switch,
        Ordered, Holding
<1>1. CASE CheckLock(c)
  BY <1>1 DEF CheckLock
<1>2. CASE CheckKnown(c)
  BY <1>2 DEF CheckKnown, UpToDate, Offered
<1>3. CASE CheckFetch(c)
  BY <1>3 DEF CheckFetch, UpToDate, Offered
<1>4. CASE CheckStage(c)
  BY <1>4 DEF CheckStage
<1>5. CASE CheckVerified(c)
  BY <1>5 DEF CheckVerified
<1>6. CASE CheckReturn(c)
  BY <1>6 DEF CheckReturn
<1>7. CASE CheckFailed(c)
  BY <1>7 DEF CheckFailed
<1>8. CASE CheckUnavailable(c)
  BY <1>8 DEF CheckUnavailable
<1>9. CASE CheckRaise(c)
  BY <1>9 DEF CheckRaise
<1>10. CASE Killed(c)
  BY <1>10 DEF Killed
<1>11. CASE CheckBusy(c)
  BY <1>11 DEF CheckBusy
<1>12. CASE LockTimeout(c)
  BY <1>12 DEF LockTimeout
<1>13. QED
  BY <1>1, <1>2, <1>3, <1>4, <1>5, <1>6, <1>7, <1>8, <1>9, <1>10, <1>11,
     <1>12 DEF CheckStep

\* Every step of a check leaves the helper a report of what is staged to wait
\* for, or excuses its failure.
LEMMA CheckWait ==
    ASSUME TypeOK, Ordered, Waiting, NEW c \in Checks,
           CheckStep(c) \/ CheckUnavailable(c) \/ CheckRaise(c) \/ Killed(c)
    PROVE  Waiting'
<1> USE RequestAssumption
    DEF TypeOK, Programs, Release, MaybeRelease, Statuses, Working, Good, Bad,
        CheckLabels, InstallLabels, HelperLabels, Outside, At, HelperAt, Goto,
        HelperTo, Report, Excuse, InRequest, Then, files, state, reports,
        request, progress, switch,
        Ordered, Waiting, Reported, Awaited
<1>1. CASE CheckLock(c)
  BY <1>1 DEF CheckLock
<1>2. CASE CheckKnown(c)
  <2>1. CASE UpToDate
    BY <1>2, <2>1 DEF CheckKnown
  <2>2. CASE ~UpToDate /\ Offered
    BY <1>2, <2>2 DEF CheckKnown
  <2>3. CASE ~UpToDate /\ ~Offered /\ staged = newest
    <3>1. status' = "already-staged" /\ excused' = excused
      BY <1>2, <2>3 DEF CheckKnown
    <3>2. staged' # 0
      BY <1>2, <2>3 DEF CheckKnown
    <3>3. pc' = [pc EXCEPT ![c] = "reported"] /\ UNCHANGED <<lock, helper,
    inactive>>
      BY <1>2 DEF CheckKnown
    <3>4. helper \in {"starting", "polling", "asking"} => fresh'
      BY <1>2 DEF CheckKnown
    <3>5. lock = c
      BY <1>2 DEF CheckKnown
    <3>6. QED
      BY <3>1, <3>2, <3>3, <3>4, <3>5
  <2>4. QED
    BY <1>2, <2>1, <2>2, <2>3 DEF CheckKnown
<1>3. CASE CheckFetch(c)
  BY <1>3 DEF CheckFetch, UpToDate, Offered
<1>4. CASE CheckStage(c)
  BY <1>4 DEF CheckStage
<1>5. CASE CheckVerified(c)
  BY <1>5 DEF CheckVerified
<1>6. CASE CheckReturn(c)
  BY <1>6 DEF CheckReturn
<1>7. CASE CheckFailed(c)
  BY <1>7 DEF CheckFailed
<1>8. CASE CheckUnavailable(c)
  BY <1>8 DEF CheckUnavailable
<1>9. CASE CheckRaise(c)
  BY <1>9 DEF CheckRaise
<1>10. CASE Killed(c)
  BY <1>10 DEF Killed
<1>11. CASE CheckBusy(c)
  BY <1>11 DEF CheckBusy
<1>12. CASE LockTimeout(c)
  BY <1>12 DEF LockTimeout
<1>13. QED
  BY <1>1, <1>2, <1>3, <1>4, <1>5, <1>6, <1>7, <1>8, <1>9, <1>10, <1>11,
     <1>12 DEF CheckStep

\* Every step of a check leaves the run of install-update something to
\* install, or excuses its failure.
LEMMA CheckRun ==
    ASSUME TypeOK, Ordered, Running, NEW c \in Checks,
           CheckStep(c) \/ CheckUnavailable(c) \/ CheckRaise(c) \/ Killed(c)
    PROVE  Running'
<1> USE RequestAssumption
    DEF TypeOK, Programs, Release, MaybeRelease, Statuses, Working, Good, Bad,
        CheckLabels, InstallLabels, HelperLabels, Outside, At, HelperAt, Goto,
        HelperTo, Report, Excuse, InRequest, Then, files, state, reports,
        request, progress, switch,
        Ordered, Holding, Running, Run
<1>1. CASE CheckLock(c)
  BY <1>1 DEF CheckLock
<1>2. CASE CheckKnown(c)
  BY <1>2 DEF CheckKnown, UpToDate, Offered
<1>3. CASE CheckFetch(c)
  BY <1>3 DEF CheckFetch, UpToDate, Offered
<1>4. CASE CheckStage(c)
  BY <1>4 DEF CheckStage
<1>5. CASE CheckVerified(c)
  BY <1>5 DEF CheckVerified
<1>6. CASE CheckReturn(c)
  BY <1>6 DEF CheckReturn
<1>7. CASE CheckFailed(c)
  BY <1>7 DEF CheckFailed
<1>8. CASE CheckUnavailable(c)
  BY <1>8 DEF CheckUnavailable
<1>9. CASE CheckRaise(c)
  BY <1>9 DEF CheckRaise
<1>10. CASE Killed(c)
  BY <1>10 DEF Killed
<1>11. CASE CheckBusy(c)
  BY <1>11 DEF CheckBusy
<1>12. CASE LockTimeout(c)
  BY <1>12 DEF LockTimeout
<1>13. QED
  BY <1>1, <1>2, <1>3, <1>4, <1>5, <1>6, <1>7, <1>8, <1>9, <1>10, <1>11,
     <1>12 DEF CheckStep

\* Every step of a check leads to no failure without an excuse and to no
\* success without the release that was asked for.
LEMMA CheckAnswers ==
    ASSUME RequestInv, NEW c \in Checks,
           CheckStep(c) \/ CheckUnavailable(c) \/ CheckRaise(c) \/ Killed(c)
    PROVE  (FailureExcused /\ SuccessIsNewest)'
<1> USE RequestAssumption
    DEF TypeOK, Programs, Release, MaybeRelease, Statuses, Working, Good, Bad,
        CheckLabels, InstallLabels, HelperLabels, Outside, At, HelperAt, Goto,
        HelperTo, Report, Excuse, InRequest, Then, files, state, reports,
        request, progress, switch,
        RequestInv, Ordered, Holding, Waiting, Reported, Awaited, Running,
        Run, FailureExcused, SuccessIsNewest
<1>1. CASE CheckLock(c)
  BY <1>1 DEF CheckLock
<1>2. CASE CheckKnown(c)
  BY <1>2 DEF CheckKnown, UpToDate, Offered
<1>3. CASE CheckFetch(c)
  BY <1>3 DEF CheckFetch, UpToDate, Offered
<1>4. CASE CheckStage(c)
  BY <1>4 DEF CheckStage
<1>5. CASE CheckVerified(c)
  BY <1>5 DEF CheckVerified
<1>6. CASE CheckReturn(c)
  BY <1>6 DEF CheckReturn
<1>7. CASE CheckFailed(c)
  BY <1>7 DEF CheckFailed
<1>8. CASE CheckUnavailable(c)
  BY <1>8 DEF CheckUnavailable
<1>9. CASE CheckRaise(c)
  BY <1>9 DEF CheckRaise
<1>10. CASE Killed(c)
  BY <1>10 DEF Killed
<1>11. CASE CheckBusy(c)
  BY <1>11 DEF CheckBusy
<1>12. CASE LockTimeout(c)
  BY <1>12 DEF LockTimeout
<1>13. QED
  BY <1>1, <1>2, <1>3, <1>4, <1>5, <1>6, <1>7, <1>8, <1>9, <1>10, <1>11,
     <1>12 DEF CheckStep

\* Every step of a root stage keeps the types, and update.lock with the
\* program that works.
LEMMA InstallTypes ==
    ASSUME TypeOK, NEW i \in Installs,
           InstallStep(i) \/ InstallDefer(i) \/ InstallFail(i) \/ Killed(i)
    PROVE  TypeOK'
<1> USE RequestAssumption
    DEF TypeOK, Programs, Release, MaybeRelease, Statuses, Working, Good, Bad,
        CheckLabels, InstallLabels, HelperLabels, Outside, At, HelperAt, Goto,
        HelperTo, Report, Excuse, InRequest, Then, files, state, reports,
        request, progress, switch
<1>1. CASE InstallBusy(i)
  BY <1>1 DEF InstallBusy
<1>2. CASE InstallLock(i)
  BY <1>2 DEF InstallLock
<1>3. CASE InstallNothing(i)
  BY <1>3 DEF InstallNothing, InstallEnd
<1>4. CASE InstallMismatch(i)
  BY <1>4 DEF InstallMismatch, InstallEnd, Matches
<1>5. CASE InstallAlready(i)
  <2>1. timer' \in BOOLEAN /\ busy' \in BOOLEAN /\ allowed' \in BOOLEAN
        /\ fresh' \in BOOLEAN /\ excused' \in BOOLEAN
    BY <1>5, Zenon DEF InstallAlready, InstallEnd, Matches
  <2>2. QED
    BY <1>5, <2>1 DEF InstallAlready, InstallEnd, Matches
<1>6. CASE InstallKeep(i)
  BY <1>6 DEF InstallKeep, Matches
<1>7. CASE InstallOffer(i)
  <2>1. timer' \in BOOLEAN /\ busy' \in BOOLEAN /\ allowed' \in BOOLEAN
        /\ fresh' \in BOOLEAN /\ excused' \in BOOLEAN
    BY <1>7, Zenon DEF InstallOffer, InstallEnd
  <2>2. QED
    BY <1>7, <2>1 DEF InstallOffer, InstallEnd
<1>8. CASE InstallPackages(i)
  BY <1>8 DEF InstallPackages
<1>9. CASE InstallCommit(i)
  <2>1. timer' \in BOOLEAN /\ busy' \in BOOLEAN /\ allowed' \in BOOLEAN
        /\ fresh' \in BOOLEAN /\ excused' \in BOOLEAN
    BY <1>9, Zenon DEF InstallCommit, InstallEnd
  <2>2. QED
    BY <1>9, <2>1 DEF InstallCommit, InstallEnd
<1>10. CASE InstallDefer(i)
  BY <1>10 DEF InstallDefer, InstallEnd
<1>11. CASE InstallFail(i)
  <2>1. timer' \in BOOLEAN /\ busy' \in BOOLEAN /\ allowed' \in BOOLEAN
        /\ fresh' \in BOOLEAN /\ excused' \in BOOLEAN
    BY <1>11, Zenon DEF InstallFail, InstallEnd
  <2>2. QED
    BY <1>11, <2>1 DEF InstallFail, InstallEnd
<1>12. CASE Killed(i)
  BY <1>12 DEF Killed
<1>13. QED
  BY <1>1, <1>2, <1>3, <1>4, <1>5, <1>6, <1>7, <1>8, <1>9, <1>10, <1>11,
     <1>12 DEF InstallStep

\* Every step of a root stage keeps what is recorded behind what is
\* installed, and that behind what is published.
LEMMA InstallOrder ==
    ASSUME TypeOK, Ordered, NEW i \in Installs,
           InstallStep(i) \/ InstallDefer(i) \/ InstallFail(i) \/ Killed(i)
    PROVE  Ordered'
<1> USE RequestAssumption
    DEF TypeOK, Programs, Release, MaybeRelease, Statuses, Working, Good, Bad,
        CheckLabels, InstallLabels, HelperLabels, Outside, At, HelperAt, Goto,
        HelperTo, Report, Excuse, InRequest, Then, files, state, reports,
        request, progress, switch,
        Ordered, Holding
<1>1. CASE InstallBusy(i)
  BY <1>1 DEF InstallBusy
<1>2. CASE InstallLock(i)
  BY <1>2 DEF InstallLock
<1>3. CASE InstallNothing(i)
  BY <1>3 DEF InstallNothing, InstallEnd
<1>4. CASE InstallMismatch(i)
  BY <1>4 DEF InstallMismatch, InstallEnd, Matches
<1>5. CASE InstallAlready(i)
  BY <1>5 DEF InstallAlready, InstallEnd, Matches
<1>6. CASE InstallKeep(i)
  BY <1>6 DEF InstallKeep, Matches
<1>7. CASE InstallOffer(i)
  BY <1>7 DEF InstallOffer, InstallEnd
<1>8. CASE InstallPackages(i)
  BY <1>8 DEF InstallPackages
<1>9. CASE InstallCommit(i)
  BY <1>9 DEF InstallCommit, InstallEnd
<1>10. CASE InstallDefer(i)
  BY <1>10 DEF InstallDefer, InstallEnd
<1>11. CASE InstallFail(i)
  BY <1>11 DEF InstallFail, InstallEnd
<1>12. CASE Killed(i)
  BY <1>12 DEF Killed
<1>13. QED
  BY <1>1, <1>2, <1>3, <1>4, <1>5, <1>6, <1>7, <1>8, <1>9, <1>10, <1>11,
     <1>12 DEF InstallStep

\* Every step of a root stage leaves the helper a report of what is staged to
\* wait for, or excuses its failure.
LEMMA InstallWait ==
    ASSUME TypeOK, Ordered, Waiting, NEW i \in Installs,
           InstallStep(i) \/ InstallDefer(i) \/ InstallFail(i) \/ Killed(i)
    PROVE  Waiting'
<1> USE RequestAssumption
    DEF TypeOK, Programs, Release, MaybeRelease, Statuses, Working, Good, Bad,
        CheckLabels, InstallLabels, HelperLabels, Outside, At, HelperAt, Goto,
        HelperTo, Report, Excuse, InRequest, Then, files, state, reports,
        request, progress, switch,
        Ordered, Waiting, Reported, Awaited
<1>1. CASE InstallBusy(i)
  BY <1>1 DEF InstallBusy
<1>2. CASE InstallLock(i)
  BY <1>2 DEF InstallLock
<1>3. CASE InstallNothing(i)
  BY <1>3 DEF InstallNothing, InstallEnd
<1>4. CASE InstallMismatch(i)
  BY <1>4 DEF InstallMismatch, InstallEnd, Matches
<1>5. CASE InstallAlready(i)
  BY <1>5 DEF InstallAlready, InstallEnd, Matches
<1>6. CASE InstallKeep(i)
  BY <1>6 DEF InstallKeep, Matches
<1>7. CASE InstallOffer(i)
  BY <1>7 DEF InstallOffer, InstallEnd
<1>8. CASE InstallPackages(i)
  BY <1>8 DEF InstallPackages
<1>9. CASE InstallCommit(i)
  BY <1>9 DEF InstallCommit, InstallEnd
<1>10. CASE InstallDefer(i)
  BY <1>10 DEF InstallDefer, InstallEnd
<1>11. CASE InstallFail(i)
  BY <1>11 DEF InstallFail, InstallEnd
<1>12. CASE Killed(i)
  BY <1>12 DEF Killed
<1>13. QED
  BY <1>1, <1>2, <1>3, <1>4, <1>5, <1>6, <1>7, <1>8, <1>9, <1>10, <1>11,
     <1>12 DEF InstallStep

\* Every step of a root stage leaves the run of install-update something to
\* install, or excuses its failure.
LEMMA InstallRun ==
    ASSUME TypeOK, Ordered, Running, NEW i \in Installs,
           InstallStep(i) \/ InstallDefer(i) \/ InstallFail(i) \/ Killed(i)
    PROVE  Running'
<1> USE RequestAssumption
    DEF TypeOK, Programs, Release, MaybeRelease, Statuses, Working, Good, Bad,
        CheckLabels, InstallLabels, HelperLabels, Outside, At, HelperAt, Goto,
        HelperTo, Report, Excuse, InRequest, Then, files, state, reports,
        request, progress, switch,
        Ordered, Holding, Running, Run
<1>1. CASE InstallBusy(i)
  BY <1>1 DEF InstallBusy
<1>2. CASE InstallLock(i)
  BY <1>2 DEF InstallLock
<1>3. CASE InstallNothing(i)
  BY <1>3 DEF InstallNothing, InstallEnd
<1>4. CASE InstallMismatch(i)
  BY <1>4 DEF InstallMismatch, InstallEnd, Matches
<1>5. CASE InstallAlready(i)
  <2>1. ~busy'
    BY <1>5 DEF InstallAlready
  <2>2. CASE i = "ins"
    BY <1>5, <2>1, <2>2 DEF InstallAlready, InstallEnd
  <2>3. CASE i = "req"
    BY <1>5, <2>1, <2>3 DEF InstallAlready, InstallEnd, Matches
  <2>4. QED
    BY <2>2, <2>3
<1>6. CASE InstallKeep(i)
  BY <1>6 DEF InstallKeep, Matches
<1>7. CASE InstallOffer(i)
  BY <1>7 DEF InstallOffer, InstallEnd
<1>8. CASE InstallPackages(i)
  BY <1>8 DEF InstallPackages
<1>9. CASE InstallCommit(i)
  BY <1>9 DEF InstallCommit, InstallEnd
<1>10. CASE InstallDefer(i)
  BY <1>10 DEF InstallDefer, InstallEnd
<1>11. CASE InstallFail(i)
  BY <1>11 DEF InstallFail, InstallEnd
<1>12. CASE Killed(i)
  BY <1>12 DEF Killed
<1>13. QED
  BY <1>1, <1>2, <1>3, <1>4, <1>5, <1>6, <1>7, <1>8, <1>9, <1>10, <1>11,
     <1>12 DEF InstallStep

\* Every step of a root stage leads to no failure without an excuse and to no
\* success without the release that was asked for.
LEMMA InstallAnswers ==
    ASSUME RequestInv, NEW i \in Installs,
           InstallStep(i) \/ InstallDefer(i) \/ InstallFail(i) \/ Killed(i)
    PROVE  (FailureExcused /\ SuccessIsNewest)'
<1> USE RequestAssumption
    DEF TypeOK, Programs, Release, MaybeRelease, Statuses, Working, Good, Bad,
        CheckLabels, InstallLabels, HelperLabels, Outside, At, HelperAt, Goto,
        HelperTo, Report, Excuse, InRequest, Then, files, state, reports,
        request, progress, switch,
        RequestInv, Ordered, Holding, Waiting, Reported, Awaited, Running,
        Run, FailureExcused, SuccessIsNewest
<1>1. CASE InstallBusy(i)
  BY <1>1 DEF InstallBusy
<1>2. CASE InstallLock(i)
  BY <1>2 DEF InstallLock
<1>3. CASE InstallNothing(i)
  BY <1>3 DEF InstallNothing, InstallEnd
<1>4. CASE InstallMismatch(i)
  BY <1>4 DEF InstallMismatch, InstallEnd, Matches
<1>5. CASE InstallAlready(i)
  BY <1>5 DEF InstallAlready, InstallEnd, Matches
<1>6. CASE InstallKeep(i)
  BY <1>6 DEF InstallKeep, Matches
<1>7. CASE InstallOffer(i)
  BY <1>7 DEF InstallOffer, InstallEnd
<1>8. CASE InstallPackages(i)
  BY <1>8 DEF InstallPackages
<1>9. CASE InstallCommit(i)
  BY <1>9 DEF InstallCommit, InstallEnd
<1>10. CASE InstallDefer(i)
  BY <1>10 DEF InstallDefer, InstallEnd
<1>11. CASE InstallFail(i)
  BY <1>11 DEF InstallFail, InstallEnd
<1>12. CASE Killed(i)
  BY <1>12 DEF Killed
<1>13. QED
  BY <1>1, <1>2, <1>3, <1>4, <1>5, <1>6, <1>7, <1>8, <1>9, <1>10, <1>11,
     <1>12 DEF InstallStep

\* Every step of the helper keeps the types, and update.lock with the program
\* that works.
LEMMA HelperTypes ==
    ASSUME TypeOK,
           HelperStep \/ HelperFault
    PROVE  TypeOK'
<1> USE RequestAssumption
    DEF TypeOK, Programs, Release, MaybeRelease, Statuses, Working, Good, Bad,
        CheckLabels, InstallLabels, HelperLabels, Outside, At, HelperAt, Goto,
        HelperTo, Report, Excuse, InRequest, Then, files, state, reports,
        request, progress, switch
<1>1. CASE LookForRelease
  BY <1>1 DEF LookForRelease, RunInstall
<1>2. CASE Recover
  BY <1>2 DEF Recover
<1>3. CASE RecoverStart
  BY <1>3 DEF RecoverStart, StartUnit
<1>4. CASE Poll
  BY <1>4 DEF Poll, RunInstall, Answer
<1>5. CASE Ask
  BY <1>5 DEF Ask, Answer, UnitLive
<1>6. CASE Installed
  BY <1>6 DEF Installed, Answer
<1>7. CASE Answered
  <2>1. timer' \in BOOLEAN /\ busy' \in BOOLEAN /\ allowed' \in BOOLEAN
        /\ fresh' \in BOOLEAN /\ excused' \in BOOLEAN
    BY <1>7, Zenon DEF Answered
  <2>2. QED
    BY <1>7, <2>1 DEF Answered
<1>8. CASE MarkPaused
  BY <1>8 DEF MarkPaused
<1>9. CASE SwitchTimer
  BY <1>9 DEF SwitchTimer
<1>10. CASE InstallUpdate
  <2>1. timer' \in BOOLEAN /\ busy' \in BOOLEAN /\ allowed' \in BOOLEAN
        /\ fresh' \in BOOLEAN /\ excused' \in BOOLEAN
    BY <1>10, Zenon DEF InstallUpdate
  <2>2. QED
    BY <1>10, <2>1 DEF InstallUpdate
<1>11. CASE StartCheck
  BY <1>11 DEF StartCheck, StartUnit
<1>12. CASE PauseCheck
  BY <1>12 DEF PauseCheck, StopUnit
<1>13. CASE \E p \in Policies : SetPolicy(p)
  BY <1>13 DEF SetPolicy
<1>14. CASE SwitchTimerFail
  <2>1. timer' \in BOOLEAN /\ busy' \in BOOLEAN /\ allowed' \in BOOLEAN
        /\ fresh' \in BOOLEAN /\ excused' \in BOOLEAN
    BY <1>14, Zenon DEF SwitchTimerFail
  <2>2. QED
    BY <1>14, <2>1 DEF SwitchTimerFail
<1>15. CASE Deadline
  BY <1>15 DEF Deadline, StopUnit, Answer
<1>16. QED
  BY <1>1, <1>2, <1>3, <1>4, <1>5, <1>6, <1>7, <1>8, <1>9, <1>10, <1>11,
     <1>12, <1>13, <1>14, <1>15 DEF HelperStep, HelperFault

\* Every step of the helper keeps what is recorded behind what is installed,
\* and that behind what is published.
LEMMA HelperOrder ==
    ASSUME TypeOK, Ordered,
           HelperStep \/ HelperFault
    PROVE  Ordered'
<1> USE RequestAssumption
    DEF TypeOK, Programs, Release, MaybeRelease, Statuses, Working, Good, Bad,
        CheckLabels, InstallLabels, HelperLabels, Outside, At, HelperAt, Goto,
        HelperTo, Report, Excuse, InRequest, Then, files, state, reports,
        request, progress, switch,
        Ordered, Holding
<1>1. CASE LookForRelease
  BY <1>1 DEF LookForRelease, RunInstall
<1>2. CASE Recover
  BY <1>2 DEF Recover
<1>3. CASE RecoverStart
  BY <1>3 DEF RecoverStart, StartUnit
<1>4. CASE Poll
  BY <1>4 DEF Poll, RunInstall, Answer
<1>5. CASE Ask
  BY <1>5 DEF Ask, Answer, UnitLive
<1>6. CASE Installed
  BY <1>6 DEF Installed, Answer
<1>7. CASE Answered
  BY <1>7 DEF Answered
<1>8. CASE MarkPaused
  BY <1>8 DEF MarkPaused
<1>9. CASE SwitchTimer
  BY <1>9 DEF SwitchTimer
<1>10. CASE InstallUpdate
  BY <1>10 DEF InstallUpdate
<1>11. CASE StartCheck
  BY <1>11 DEF StartCheck, StartUnit
<1>12. CASE PauseCheck
  BY <1>12 DEF PauseCheck, StopUnit
<1>13. CASE \E p \in Policies : SetPolicy(p)
  BY <1>13 DEF SetPolicy
<1>14. CASE SwitchTimerFail
  BY <1>14 DEF SwitchTimerFail
<1>15. CASE Deadline
  BY <1>15 DEF Deadline, StopUnit, Answer
<1>16. QED
  BY <1>1, <1>2, <1>3, <1>4, <1>5, <1>6, <1>7, <1>8, <1>9, <1>10, <1>11,
     <1>12, <1>13, <1>14, <1>15 DEF HelperStep, HelperFault

\* Every step of the helper leaves the helper a report of what is staged to
\* wait for, or excuses its failure.
LEMMA HelperWait ==
    ASSUME TypeOK, Ordered, Waiting,
           HelperStep \/ HelperFault
    PROVE  Waiting'
<1> USE RequestAssumption
    DEF TypeOK, Programs, Release, MaybeRelease, Statuses, Working, Good, Bad,
        CheckLabels, InstallLabels, HelperLabels, Outside, At, HelperAt, Goto,
        HelperTo, Report, Excuse, InRequest, Then, files, state, reports,
        request, progress, switch,
        Ordered, Waiting, Reported, Awaited
<1>1. CASE LookForRelease
  BY <1>1 DEF LookForRelease, RunInstall
<1>2. CASE Recover
  BY <1>2 DEF Recover
<1>3. CASE RecoverStart
  BY <1>3 DEF RecoverStart, StartUnit
<1>4. CASE Poll
  BY <1>4 DEF Poll, RunInstall, Answer
<1>5. CASE Ask
  BY <1>5 DEF Ask, Answer, UnitLive
<1>6. CASE Installed
  BY <1>6 DEF Installed, Answer
<1>7. CASE Answered
  BY <1>7 DEF Answered
<1>8. CASE MarkPaused
  BY <1>8 DEF MarkPaused
<1>9. CASE SwitchTimer
  BY <1>9 DEF SwitchTimer
<1>10. CASE InstallUpdate
  BY <1>10 DEF InstallUpdate
<1>11. CASE StartCheck
  BY <1>11 DEF StartCheck, StartUnit
<1>12. CASE PauseCheck
  BY <1>12 DEF PauseCheck, StopUnit
<1>13. CASE \E p \in Policies : SetPolicy(p)
  BY <1>13 DEF SetPolicy
<1>14. CASE SwitchTimerFail
  BY <1>14 DEF SwitchTimerFail
<1>15. CASE Deadline
  BY <1>15 DEF Deadline, StopUnit, Answer
<1>16. QED
  BY <1>1, <1>2, <1>3, <1>4, <1>5, <1>6, <1>7, <1>8, <1>9, <1>10, <1>11,
     <1>12, <1>13, <1>14, <1>15 DEF HelperStep, HelperFault

\* Every step of the helper leaves the run of install-update something to
\* install, or excuses its failure.
LEMMA HelperRun ==
    ASSUME TypeOK, Ordered, Running,
           HelperStep \/ HelperFault
    PROVE  Running'
<1> USE RequestAssumption
    DEF TypeOK, Programs, Release, MaybeRelease, Statuses, Working, Good, Bad,
        CheckLabels, InstallLabels, HelperLabels, Outside, At, HelperAt, Goto,
        HelperTo, Report, Excuse, InRequest, Then, files, state, reports,
        request, progress, switch,
        Ordered, Holding, Running, Run
<1>1. CASE LookForRelease
  BY <1>1 DEF LookForRelease, RunInstall
<1>2. CASE Recover
  BY <1>2 DEF Recover
<1>3. CASE RecoverStart
  BY <1>3 DEF RecoverStart, StartUnit
<1>4. CASE Poll
  BY <1>4 DEF Poll, RunInstall, Answer
<1>5. CASE Ask
  BY <1>5 DEF Ask, Answer, UnitLive
<1>6. CASE Installed
  BY <1>6 DEF Installed, Answer
<1>7. CASE Answered
  BY <1>7 DEF Answered
<1>8. CASE MarkPaused
  BY <1>8 DEF MarkPaused
<1>9. CASE SwitchTimer
  BY <1>9 DEF SwitchTimer
<1>10. CASE InstallUpdate
  BY <1>10 DEF InstallUpdate
<1>11. CASE StartCheck
  BY <1>11 DEF StartCheck, StartUnit
<1>12. CASE PauseCheck
  BY <1>12 DEF PauseCheck, StopUnit
<1>13. CASE \E p \in Policies : SetPolicy(p)
  BY <1>13 DEF SetPolicy
<1>14. CASE SwitchTimerFail
  BY <1>14 DEF SwitchTimerFail
<1>15. CASE Deadline
  BY <1>15 DEF Deadline, StopUnit, Answer
<1>16. QED
  BY <1>1, <1>2, <1>3, <1>4, <1>5, <1>6, <1>7, <1>8, <1>9, <1>10, <1>11,
     <1>12, <1>13, <1>14, <1>15 DEF HelperStep, HelperFault

\* Every step of the helper leads to no failure without an excuse and to no
\* success without the release that was asked for.
LEMMA HelperAnswers ==
    ASSUME RequestInv,
           HelperStep \/ HelperFault
    PROVE  (FailureExcused /\ SuccessIsNewest)'
<1> USE RequestAssumption
    DEF TypeOK, Programs, Release, MaybeRelease, Statuses, Working, Good, Bad,
        CheckLabels, InstallLabels, HelperLabels, Outside, At, HelperAt, Goto,
        HelperTo, Report, Excuse, InRequest, Then, files, state, reports,
        request, progress, switch,
        RequestInv, Ordered, Holding, Waiting, Reported, Awaited, Running,
        Run, FailureExcused, SuccessIsNewest
<1>1. CASE LookForRelease
  BY <1>1 DEF LookForRelease, RunInstall
<1>2. CASE Recover
  BY <1>2 DEF Recover
<1>3. CASE RecoverStart
  BY <1>3 DEF RecoverStart, StartUnit
<1>4. CASE Poll
  BY <1>4 DEF Poll, RunInstall, Answer
<1>5. CASE Ask
  BY <1>5 DEF Ask, Answer, UnitLive
<1>6. CASE Installed
  BY <1>6 DEF Installed, Answer
<1>7. CASE Answered
  BY <1>7 DEF Answered
<1>8. CASE MarkPaused
  BY <1>8 DEF MarkPaused
<1>9. CASE SwitchTimer
  BY <1>9 DEF SwitchTimer
<1>10. CASE InstallUpdate
  BY <1>10 DEF InstallUpdate
<1>11. CASE StartCheck
  BY <1>11 DEF StartCheck, StartUnit
<1>12. CASE PauseCheck
  BY <1>12 DEF PauseCheck, StopUnit
<1>13. CASE \E p \in Policies : SetPolicy(p)
  BY <1>13 DEF SetPolicy
<1>14. CASE SwitchTimerFail
  BY <1>14 DEF SwitchTimerFail
<1>15. CASE Deadline
  BY <1>15 DEF Deadline, StopUnit, Answer
<1>16. QED
  BY <1>1, <1>2, <1>3, <1>4, <1>5, <1>6, <1>7, <1>8, <1>9, <1>10, <1>11,
     <1>12, <1>13, <1>14, <1>15 DEF HelperStep, HelperFault

\* Every step of the timer, new release or restart keeps the types, and
\* update.lock with the program that works.
LEMMA OutsideTypes ==
    ASSUME TypeOK,
           TimerStep \/ Publish \/ Restarted
    PROVE  TypeOK'
<1> USE RequestAssumption
    DEF TypeOK, Programs, Release, MaybeRelease, Statuses, Working, Good, Bad,
        CheckLabels, InstallLabels, HelperLabels, Outside, At, HelperAt, Goto,
        HelperTo, Report, Excuse, InRequest, Then, files, state, reports,
        request, progress, switch
<1>1. CASE TimerCheck
  BY <1>1 DEF TimerCheck
<1>2. CASE TimerInstall
  BY <1>2 DEF TimerInstall
<1>3. CASE Publish
  BY <1>3 DEF Publish
<1>4. CASE Restarted
  <2>1. timer' \in BOOLEAN /\ busy' \in BOOLEAN /\ allowed' \in BOOLEAN
        /\ fresh' \in BOOLEAN /\ excused' \in BOOLEAN
    BY <1>4, Zenon DEF Restarted, Answer
  <2>2. QED
    BY <1>4, <2>1 DEF Restarted, Answer
<1>5. QED
  BY <1>1, <1>2, <1>3, <1>4 DEF TimerStep

\* Every step of the timer, new release or restart keeps what is recorded
\* behind what is installed, and that behind what is published.
LEMMA OutsideOrder ==
    ASSUME TypeOK, Ordered,
           TimerStep \/ Publish \/ Restarted
    PROVE  Ordered'
<1> USE RequestAssumption
    DEF TypeOK, Programs, Release, MaybeRelease, Statuses, Working, Good, Bad,
        CheckLabels, InstallLabels, HelperLabels, Outside, At, HelperAt, Goto,
        HelperTo, Report, Excuse, InRequest, Then, files, state, reports,
        request, progress, switch,
        Ordered, Holding
<1>1. CASE TimerCheck
  BY <1>1 DEF TimerCheck
<1>2. CASE TimerInstall
  BY <1>2 DEF TimerInstall
<1>3. CASE Publish
  BY <1>3 DEF Publish
<1>4. CASE Restarted
  BY <1>4 DEF Restarted, Answer
<1>5. QED
  BY <1>1, <1>2, <1>3, <1>4 DEF TimerStep

\* Every step of the timer, new release or restart leaves the helper a report
\* of what is staged to wait for, or excuses its failure.
LEMMA OutsideWait ==
    ASSUME TypeOK, Ordered, Waiting,
           TimerStep \/ Publish \/ Restarted
    PROVE  Waiting'
<1> USE RequestAssumption
    DEF TypeOK, Programs, Release, MaybeRelease, Statuses, Working, Good, Bad,
        CheckLabels, InstallLabels, HelperLabels, Outside, At, HelperAt, Goto,
        HelperTo, Report, Excuse, InRequest, Then, files, state, reports,
        request, progress, switch,
        Ordered, Waiting, Reported, Awaited
<1>1. CASE TimerCheck
  BY <1>1 DEF TimerCheck
<1>2. CASE TimerInstall
  BY <1>2 DEF TimerInstall
<1>3. CASE Publish
  BY <1>3 DEF Publish
<1>4. CASE Restarted
  BY <1>4 DEF Restarted, Answer
<1>5. QED
  BY <1>1, <1>2, <1>3, <1>4 DEF TimerStep

\* Every step of the timer, new release or restart leaves the run of install-
\* update something to install, or excuses its failure.
LEMMA OutsideRun ==
    ASSUME TypeOK, Ordered, Running,
           TimerStep \/ Publish \/ Restarted
    PROVE  Running'
<1> USE RequestAssumption
    DEF TypeOK, Programs, Release, MaybeRelease, Statuses, Working, Good, Bad,
        CheckLabels, InstallLabels, HelperLabels, Outside, At, HelperAt, Goto,
        HelperTo, Report, Excuse, InRequest, Then, files, state, reports,
        request, progress, switch,
        Ordered, Holding, Running, Run
<1>1. CASE TimerCheck
  BY <1>1 DEF TimerCheck
<1>2. CASE TimerInstall
  BY <1>2 DEF TimerInstall
<1>3. CASE Publish
  BY <1>3 DEF Publish
<1>4. CASE Restarted
  BY <1>4 DEF Restarted, Answer
<1>5. QED
  BY <1>1, <1>2, <1>3, <1>4 DEF TimerStep

\* Every step of the timer, new release or restart leads to no failure
\* without an excuse and to no success without the release that was asked
\* for.
LEMMA OutsideAnswers ==
    ASSUME RequestInv,
           TimerStep \/ Publish \/ Restarted
    PROVE  (FailureExcused /\ SuccessIsNewest)'
<1> USE RequestAssumption
    DEF TypeOK, Programs, Release, MaybeRelease, Statuses, Working, Good, Bad,
        CheckLabels, InstallLabels, HelperLabels, Outside, At, HelperAt, Goto,
        HelperTo, Report, Excuse, InRequest, Then, files, state, reports,
        request, progress, switch,
        RequestInv, Ordered, Holding, Waiting, Reported, Awaited, Running,
        Run, FailureExcused, SuccessIsNewest
<1>1. CASE TimerCheck
  BY <1>1 DEF TimerCheck
<1>2. CASE TimerInstall
  BY <1>2 DEF TimerInstall
<1>3. CASE Publish
  BY <1>3 DEF Publish
<1>4. CASE Restarted
  BY <1>4 DEF Restarted, Answer
<1>5. QED
  BY <1>1, <1>2, <1>3, <1>4 DEF TimerStep

\* A freshly set up machine satisfies the invariant.
LEMMA RequestInit == Init => RequestInv
<1> SUFFICES ASSUME Init PROVE RequestInv
  OBVIOUS
<1> USE RequestAssumption
<1>1. TypeOK
  <2>1. timer = (policy # "manual")
    BY DEF Init
  <2>2. timer \in BOOLEAN
    BY ONLY <2>1, SMT
  <2>3. /\ pc \in [Programs -> CheckLabels \cup InstallLabels]
        /\ \A c \in Checks : pc[c] \in CheckLabels
        /\ \A i \in Installs : pc[i] \in InstallLabels
        /\ target \in [Programs -> MaybeRelease]
    BY DEF Init, Programs, MaybeRelease, CheckLabels, InstallLabels
  <2>4. /\ \A p \in Programs : pc[p] \notin Outside <=> lock = p
        /\ pc["req"] # "idle" <=> helper = "installing"
    BY DEF Init, Programs, Outside
  <2>5. /\ newest \in Release /\ {staged, available, installed, record,
                                  offered, requested} \subseteq MaybeRelease
        /\ inactive \in 0..Tolerance
    BY DEF Init, Release, MaybeRelease
  <2>6. /\ busy \in BOOLEAN /\ allowed \in BOOLEAN /\ fresh \in BOOLEAN
        /\ excused \in BOOLEAN
    BY DEF Init
  <2>7. QED
    BY <2>2, <2>3, <2>4, <2>5, <2>6
       DEF Init, TypeOK, Statuses, HelperLabels, Programs
<1>2. Ordered /\ Waiting /\ Running
  BY DEF Init, Ordered, Holding, Waiting, Reported, Awaited, Running, Run,
     Release,
         Programs, At, HelperAt
<1>3. FailureExcused /\ SuccessIsNewest
  BY DEF Init, FailureExcused, SuccessIsNewest, HelperAt
<1>4. QED
  BY <1>1, <1>2, <1>3 DEF RequestInv

\* Every step keeps it.
LEMMA RequestStep == RequestInv /\ [Next]_vars => RequestInv'
<1> SUFFICES ASSUME RequestInv, [Next]_vars PROVE RequestInv'
  OBVIOUS
<1> USE DEF RequestInv
<1>1. ASSUME NEW c \in Checks,
             CheckStep(c) \/ CheckUnavailable(c) \/ CheckRaise(c) \/ Killed(c)
      PROVE  RequestInv'
  BY <1>1, CheckTypes, CheckOrder, CheckWait, CheckRun, CheckAnswers
<1>2. ASSUME NEW i \in Installs,
             InstallStep(i) \/ InstallDefer(i) \/ InstallFail(i) \/ Killed(i)
      PROVE  RequestInv'
  BY <1>2, InstallTypes, InstallOrder, InstallWait, InstallRun, InstallAnswers
<1>3. CASE HelperStep \/ HelperFault
  BY <1>3, HelperTypes, HelperOrder, HelperWait, HelperRun, HelperAnswers
<1>4. CASE TimerStep \/ Publish \/ Restarted
  BY <1>4, OutsideTypes, OutsideOrder, OutsideWait, OutsideRun, OutsideAnswers
<1>5. CASE Quiet
  BY <1>1, <1>2, <1>3, <1>4, <1>5 DEF Quiet
<1>6. CASE Disturbance
  BY <1>1, <1>2, <1>3, <1>4, <1>6 DEF Disturbance, HelperFault, Programs
<1>7. CASE UNCHANGED vars
  BY <1>7 DEF vars, files, state, reports, request, progress, switch, TypeOK,
     Ordered, Waiting, Reported, Awaited, Running, Run, FailureExcused,
     SuccessIsNewest, At, HelperAt, Holding
<1>8. QED
  BY <1>5, <1>6, <1>7 DEF Next

\* In every reachable state the types are kept, update.lock is held by exactly
\* the program that works, what is recorded is installed, and the helper waits
\* for a report that is true of staged/ or has an excuse.
THEOREM Invariance == Spec => []RequestInv
<1>1. QED
  BY RequestInit, RequestStep, PTL DEF Spec

\* install-update never fails for no reason: not for a report of an earlier
\* check, nor for one that came before the files it speaks of
\* (recover_verified_release, action_install_update).
THEOREM EveryFailureHasAReason == Spec => []FailureExcused
<1>1. RequestInv => FailureExcused
  BY DEF RequestInv
<1>2. QED
  BY <1>1, Invariance, PTL

\* install-update answers "complete" only with the release it was asked for,
\* or a later one, unless something has overwritten what its install left.
THEOREM SuccessInstallsTheNewest == Spec => []SuccessIsNewest
<1>1. RequestInv => SuccessIsNewest
  BY DEF RequestInv
<1>2. QED
  BY <1>1, Invariance, PTL

=============================================================================
