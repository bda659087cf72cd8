----------------------- MODULE UpdateControllerProofs -----------------------
(***************************************************************************)
(* Proofs about the update controller, for every number of check and       *)
(* install processes, every range of releases, every policy set and every  *)
(* answer of the HWE resolver.                                             *)
(***************************************************************************)
EXTENDS UpdateRefinement, UpdateSchedule, FiniteSetTheorems,
        WellFoundedInduction, TLAPS

\* Types of the helpers that pick a release or a set of versions.
LEMMA ResolvableType ==
    ASSUME published \subseteq Release
    PROVE  Resolvable \subseteq Release
<1>1. {r \in published : IsNewest(r, published)} \subseteq Release
  OBVIOUS
<1>2. ASSUME NEW s \in HweSources
      PROVE  [src |-> s, var |-> 0] \in Release
  BY <1>2, ReleaseAssumption DEF Release, Source
<1>3. QED
  BY <1>1, <1>2 DEF Resolvable

LEMMA InstalledSourcesType ==
    ASSUME packages \subseteq Release, NEW d \in Document
    PROVE  InstalledSources(d) \subseteq Source
<1>1. \A r \in Release : r.src \in Source
  BY DEF Release
<1>2. d.source \in 0..MaxSource
  BY DEF Document
<1>3. QED
  BY <1>1, <1>2, ReleaseAssumption DEF InstalledSources, SourcesOf, Source

LEMMA TypeInit == Init => TypeOK
<1> SUFFICES ASSUME Init PROVE TypeOK
  OBVIOUS
<1>1. [src |-> 1, var |-> 0] \in Release
  BY ReleaseAssumption DEF Release, Source
<1>2. NoDoc \in Document
  BY ReleaseAssumption DEF NoDoc, Document, MaybeRelease
<1>3. published \subseteq Release /\ packages \subseteq Release
  BY <1>1 DEF Init
<1>4. grubTop \in MaybeRelease /\ running \in MaybeRelease
  BY <1>3 DEF Init, MaybeRelease
<1>5. /\ pc \in [Procs -> CheckPc \cup InstallPc]
      /\ \A p \in Procs : pc[p] \in CheckPc /\ pc[p] \in InstallPc
  BY DEF Init, CheckPc, InstallPc
<1>6. /\ target \in [Procs -> MaybeRelease]
      /\ floor \in [Procs -> SUBSET Source]
      /\ snap \in [Procs -> Document]
      /\ mayInstall \in [Procs -> BOOLEAN]
      /\ incoming \in [Installers -> MaybeRelease]
  BY <1>2 DEF Init, MaybeRelease
<1>7. /\ lock \in Procs \cup {NoProc} /\ policy \in Policies /\ partials = {}
      /\ staged \in MaybeRelease /\ retired \in MaybeRelease
      /\ available \in MaybeRelease /\ damaged \in BOOLEAN
      /\ doc \in Document /\ marker \in BOOLEAN
  BY <1>2 DEF Init, MaybeRelease
<1>8. QED
  BY <1>3, <1>4, <1>5, <1>6, <1>7 DEF TypeOK, Procs

\* The locals of all processes have their types, also after one has exited.
ProcsTyped ==
    /\ pc \in [Procs -> CheckPc \cup InstallPc]
    /\ \A c \in Checkers : pc[c] \in CheckPc
    /\ \A i \in Installers : pc[i] \in InstallPc
    /\ target \in [Procs -> MaybeRelease]
    /\ floor \in [Procs -> SUBSET Source]
    /\ snap \in [Procs -> Document]
    /\ mayInstall \in [Procs -> BOOLEAN]

LEMMA TypeExit ==
    ASSUME TypeOK, NEW p \in Procs, Exit(p)
    PROVE  ProcsTyped'
<1>1. NoDoc \in Document /\ NoRelease \in MaybeRelease
  BY ReleaseAssumption DEF NoDoc, Document, MaybeRelease
<1>2. QED
  BY <1>1, ProcsAssumption DEF Exit, Goto, TypeOK, ProcsTyped, CheckPc, InstallPc

\* Every step of a check keeps the types.
LEMMA TypeCheck ==
    ASSUME TypeOK, NEW c \in Checkers, CheckBegin(c) \/ CheckStep(c) \/ CheckFault(c)
    PROVE  TypeOK'
<1> USE DEF TypeOK, vars, procVars, cacheVars, rootVars, kernelVars, At, Goto
<1>1. c \in Procs /\ c \notin Installers
  BY ProcsAssumption DEF Procs
<1>2. NoDoc \in Document /\ NoRelease \in MaybeRelease
  BY ReleaseAssumption DEF NoDoc, Document, MaybeRelease
<1>3. Resolvable \subseteq Release
  BY ResolvableType
<1>4. InstalledSources(doc) \subseteq Source
  BY InstalledSourcesType
<1>5. CASE CheckBegin(c)
  BY <1>5, <1>1 DEF CheckBegin, CheckPc, InstallPc
<1>6. ASSUME Return(c), UNCHANGED <<published, policy, rootVars, doc, kernelVars>>,
             partials' \subseteq Release, staged' \in MaybeRelease
      PROVE  TypeOK'
  BY <1>6, <1>1, <1>2 DEF Return, Exit, CheckPc, InstallPc
<1>7. CASE CheckFetch(c)
  BY <1>7, <1>1, <1>2, <1>3, <1>4 DEF CheckFetch, CheckPc, InstallPc, MaybeRelease
<1>8. CASE CheckDownload(c)
  BY <1>8, <1>1 DEF CheckDownload, CheckPc, InstallPc
<1>9. CASE CheckNothingNew(c)
  BY <1>9, <1>6 DEF CheckNothingNew
<1>10. CASE CheckStillStaged(c)
  BY <1>10, <1>6 DEF CheckStillStaged
<1>11. CASE CheckStage(c)
  BY <1>11, <1>6, <1>1 DEF CheckStage
<1>12. CASE CheckReject(c)
  BY <1>12, <1>6 DEF CheckReject
<1>13. CASE CheckNoDownload(c)
  BY <1>13, <1>6 DEF CheckNoDownload
<1>14. CASE CheckResolveError(c)
  BY <1>14, <1>6 DEF CheckResolveError
<1>15. QED
  BY <1>5, <1>7, <1>8, <1>9, <1>10, <1>11, <1>12, <1>13, <1>14
     DEF CheckStep, CheckFault


\* Every step of an installation keeps the types.  An installation unpacks a
\* release, not nothing.
LEMMA TypeInstall ==
    ASSUME TypeOK, NEW i \in Installers, Install(i) \/ InstallFault(i),
           pc[i] \in {"verified", "ready", "discarded"} => target[i] \in Release
    PROVE  TypeOK'
<1> USE DEF TypeOK, vars, procVars, cacheVars, rootVars, kernelVars, At, Goto
<1>1. i \in Procs /\ i \notin Checkers
  BY ProcsAssumption DEF Procs
<1>2. NoDoc \in Document /\ NoRelease \in MaybeRelease
  BY ReleaseAssumption DEF NoDoc, Document, MaybeRelease
<1>3. Resolvable \subseteq Release
  BY ResolvableType
<1>4. InstalledSources(doc) \subseteq Source
  BY InstalledSourcesType
<1>5. /\ target[i] \in MaybeRelease /\ snap[i] \in Document
      /\ \A r \in MaybeRelease : [doc EXCEPT !.offered = r] \in Document
      /\ \A r, q \in MaybeRelease, v \in 0..MaxSource :
            /\ [doc EXCEPT !.offered = r, !.source = v] \in Document
            /\ [source |-> v, kernel |-> q, offered |-> r] \in Document
  BY <1>1 DEF Document
<1>6. Retained(target[i]) \subseteq packages
  BY DEF Retained
<1>7. pc[i] \in {"verified", "ready", "discarded"} => target[i] \in Release
  OBVIOUS
<1>8. target[i] \in Release => target[i].src \in 0..MaxSource
  BY ReleaseAssumption DEF Release, Source
<1>9. WriteBack(i) => doc' \in Document
  BY <1>5 DEF WriteBack
<1>10. CASE InstallStart(i)
  BY <1>10, <1>1, <1>2
     DEF InstallStart, CheckPc, InstallPc
<1>11. CASE InstallPrepare(i)
  BY <1>11, <1>1, <1>2, <1>9
     DEF InstallPrepare, CheckPc, InstallPc
<1>12. CASE InstallBusy(i)
  BY <1>12, <1>1, <1>2
     DEF InstallBusy, CheckPc, InstallPc, Exit
<1>13. CASE InstallLock(i)
  BY <1>13, <1>1, <1>2
     DEF InstallLock, CheckPc, InstallPc, MaybeRelease
<1>14. CASE InstallCopy(i)
  BY <1>14, <1>1, <1>2, <1>4
     DEF InstallCopy, CheckPc, InstallPc, MaybeRelease
<1>15. CASE InstallNothing(i)
  <2>1. CASE i \in Forced
    <3>1. Raise(i) /\ UNCHANGED <<target, floor, snap, mayInstall>>
      BY <1>15, <2>1 DEF InstallNothing
    <3>2. UNCHANGED <<published, policy, cacheVars, rootVars, doc, kernelVars>>
      BY <1>15 DEF InstallNothing
    <3>3. QED
      BY <3>1, <3>2, <1>1 DEF Raise, CheckPc, InstallPc
  <2>2. CASE i \notin Forced
    <3>1. ProcsTyped'
      BY <1>15, <2>2, <1>1, TypeExit DEF InstallNothing, Return
    <3>2. QED
      BY <1>15, <2>2, <3>1 DEF InstallNothing, Return, ProcsTyped
  <2>3. QED
    BY <2>1, <2>2
<1>16. CASE InstallVerify(i)
  BY <1>16, <1>1, <1>2, <1>3
     DEF InstallVerify, CheckPc, InstallPc, Candidate, MaybeRelease
<1>17. CASE InstallMismatch(i)
  BY <1>17, <1>1, <1>2
     DEF InstallMismatch, CheckPc, InstallPc, Raise
<1>18. CASE InstallError(i)
  BY <1>18, <1>1, <1>2
     DEF InstallError, CheckPc, InstallPc, Raise
<1>19. CASE InstallAlready(i)
  <2>1. doc' \in Document
    <3>1. doc' = [doc EXCEPT !.offered = NoRelease, !.source = target[i].src]
      BY <1>19 DEF InstallAlready
    <3>2. target[i].src \in 0..MaxSource
      BY <1>19, <1>7, <1>8 DEF InstallAlready
    <3>3. QED
      BY <3>1, <3>2, <1>2, <1>5
  <2>2. ProcsTyped'
    BY <1>19, <1>1, TypeExit DEF InstallAlready, Return
  <2>3. QED
    BY <1>19, <2>1, <2>2, <1>1 DEF InstallAlready, ProcsTyped, Return, MaybeRelease
<1>20. CASE InstallRetire(i)
  BY <1>20, <1>1, <1>2
     DEF InstallRetire, CheckPc, InstallPc, MaybeRelease
<1>21. CASE InstallReplace(i)
  <2>1. damaged' \in BOOLEAN
    BY <1>21 DEF InstallReplace
  <2>2. QED
    BY <1>21, <2>1, <1>1, <1>2
       DEF InstallReplace, CheckPc, InstallPc, MaybeRelease
<1>22. CASE InstallKeep(i)
  BY <1>22, <1>1, <1>2
     DEF InstallKeep, CheckPc, InstallPc
<1>23. CASE InstallOffer(i)
  <2>1. doc' \in Document
    BY <1>23, <1>1, <1>5 DEF InstallOffer, Offered
  <2>2. ProcsTyped'
    BY <1>23, <1>1, TypeExit DEF InstallOffer, Return
  <2>3. QED
    BY <1>23, <2>1, <2>2, <1>1 DEF InstallOffer, ProcsTyped, Return
<1>24. CASE InstallDefer(i)
  <2>1. doc' \in Document
    BY <1>24, <1>1, <1>5 DEF InstallDefer, Offered
  <2>2. ProcsTyped'
    BY <1>24, <1>1, TypeExit DEF InstallDefer, Return
  <2>3. QED
    BY <1>24, <2>1, <2>2, <1>1 DEF InstallDefer, ProcsTyped, Return
<1>25. CASE InstallUnpack(i)
  BY <1>25, <1>1, <1>2, <1>7
     DEF InstallUnpack, CheckPc, InstallPc, MaybeRelease
<1>26. CASE InstallGrub(i)
  BY <1>26, <1>1, <1>2
     DEF InstallGrub, CheckPc, InstallPc
<1>27. CASE InstallPackagesFail(i)
  <2>1. doc' \in Document
    BY <1>27, <1>1, <1>5 DEF InstallPackagesFail, Offered
  <2>2. QED
    BY <1>27, <2>1, <1>1 DEF InstallPackagesFail, Raise, CheckPc, InstallPc
<1>28. CASE InstallPrune(i)
  BY <1>28, <1>1, <1>2, <1>6
     DEF InstallPrune, CheckPc, InstallPc
<1>29. CASE InstallPruneFail(i)
  BY <1>29, <1>1, <1>2, <1>6
     DEF InstallPruneFail, CheckPc, InstallPc, Raise
<1>30. CASE InstallMark(i)
  BY <1>30, <1>1, <1>2
     DEF InstallMark, CheckPc, InstallPc
<1>31. CASE InstallDiscard(i)
  <2>1. damaged' \in BOOLEAN
    BY <1>31 DEF InstallDiscard
  <2>2. QED
    BY <1>31, <2>1, <1>1, <1>2
       DEF InstallDiscard, CheckPc, InstallPc, MaybeRelease
<1>32. CASE InstallCommit(i)
  <2>1. doc' \in Document
    <3>1. doc' = [source |-> target[i].src, kernel |-> target[i],
                  offered |-> NoRelease]
      BY <1>32 DEF InstallCommit
    <3>2. target[i].src \in 0..MaxSource
      BY <1>32, <1>7, <1>8 DEF InstallCommit
    <3>3. QED
      BY <3>1, <3>2, <1>2, <1>5
  <2>2. ProcsTyped'
    BY <1>32, <1>1, TypeExit DEF InstallCommit, Return
  <2>3. QED
    BY <1>32, <2>1, <2>2, <1>1 DEF InstallCommit, ProcsTyped, Return
<1>33. CASE InstallCleanUp(i)
  BY <1>33, <1>1, <1>2
     DEF InstallCleanUp, CheckPc, InstallPc, MaybeRelease
<1>34. CASE InstallRecordFailure(i)
  <2>1. doc' \in Document
    BY <1>34, <1>9 DEF InstallRecordFailure
  <2>2. ProcsTyped'
    BY <1>34, <1>1, TypeExit DEF InstallRecordFailure
  <2>3. QED
    BY <1>34, <2>1, <2>2, <1>1 DEF InstallRecordFailure, ProcsTyped
<1>35. CASE InstallReplaceFail(i)
  <2>1. damaged' \in BOOLEAN
    BY <1>35 DEF InstallReplaceFail
  <2>2. QED
    BY <1>35, <2>1, <1>1, <1>2
       DEF InstallReplaceFail, CheckPc, InstallPc, Raise, MaybeRelease
<1>36. CASE InstallInterrupted(i)
  <2>1. UNCHANGED <<published, policy, cacheVars, incoming, retired, available,
                    doc, kernelVars>> /\ damaged' = TRUE
    BY <1>36 DEF InstallInterrupted
  <2>2. CASE Return(i)
    <3>1. ProcsTyped'
      BY <2>2, <1>1, TypeExit DEF Return
    <3>2. QED
      BY <2>1, <2>2, <3>1 DEF Return, ProcsTyped
  <2>3. CASE Raise(i) /\ UNCHANGED <<target, floor, snap, mayInstall>>
    BY <2>1, <2>3, <1>1 DEF Raise, CheckPc, InstallPc
  <2>4. QED
    BY <1>36, <2>2, <2>3 DEF InstallInterrupted
<1>37. QED
  BY <1>10, <1>11, <1>12, <1>13, <1>14, <1>15, <1>16, <1>17, <1>18, <1>19,
     <1>20, <1>21, <1>22, <1>23, <1>24, <1>25, <1>26, <1>27, <1>28, <1>29,
     <1>30, <1>31, <1>32, <1>33, <1>34, <1>35, <1>36
     DEF Install, InstallEntry, InstallStep, InstallFault

LEMMA TypeSurroundings ==
    ASSUME TypeOK,
           \/ \E r \in Release : Publish(r)
           \/ \E q \in Policies : SetPolicy(q)
           \/ \E q \in Procs : Killed(q)
           \/ \E k \in packages \cup {NoRelease} : Reboot(k)
    PROVE  TypeOK'
<1> USE DEF TypeOK, vars, procVars, cacheVars, rootVars, kernelVars
<1>1. NoDoc \in Document /\ NoRelease \in MaybeRelease
  BY ReleaseAssumption DEF NoDoc, Document, MaybeRelease
<1>2. CASE \E r \in Release : Publish(r)
  BY <1>2 DEF Publish
<1>3. CASE \E q \in Policies : SetPolicy(q)
  BY <1>3 DEF SetPolicy
<1>4. CASE \E q \in Procs : Killed(q)
  <2>1. PICK q \in Procs : Killed(q)
    BY <1>4
  <2>2. ProcsTyped'
    BY <2>1, TypeExit DEF Killed
  <2>3. QED
    BY <2>1, <2>2 DEF Killed, ProcsTyped
<1>5. CASE \E k \in packages \cup {NoRelease} : Reboot(k)
  <2>1. PICK k \in packages \cup {NoRelease} : Reboot(k)
    BY <1>5
  <2>2. ProcsTyped'
    BY <2>1, <1>1 DEF Reboot, ProcsTyped, CheckPc, InstallPc, Procs
  <2>3. QED
    BY <2>1, <2>2, <1>1 DEF Reboot, ProcsTyped, MaybeRelease
<1>6. QED
  BY <1>2, <1>3, <1>4, <1>5

-----------------------------------------------------------------------------
(* The lock *)

\* At most one process is inside.
LEMMA Exclusive ==
    ASSUME LockHeld, NEW p \in Procs, NEW q \in Procs, Inside(p), Inside(q)
    PROVE  p = q
  BY DEF LockHeld

\* A step of one process that takes, keeps or frees the lock exactly as it
\* enters, stays in or leaves the locked region.
LEMMA LockMoves ==
    ASSUME TypeOK, LockHeld, NEW q \in Procs, NEW label, Goto(q, label),
           lock' \in {lock, q, NoProc}, lock \in {lock', q, NoProc},
           Inside(q)' <=> lock' = q
    PROVE  LockHeld'
<1> SUFFICES ASSUME NEW p \in Procs PROVE Inside(p)' <=> lock' = p
  BY DEF LockHeld
<1>1. CASE p = q
  BY <1>1
<1>2. CASE p # q
  <2>1. pc'[p] = pc[p]
    BY <1>2 DEF Goto, TypeOK
  <2>2. Inside(p)' <=> Inside(p)
    BY <2>1 DEF Inside
  <2>3. lock' = p <=> lock = p
    BY <1>2, ProcsAssumption
  <2>4. QED
    BY <2>2, <2>3 DEF LockHeld
<1>3. QED
  BY <1>1, <1>2

LEMMA LockInit == Init => LockHeld
  BY ProcsAssumption DEF Init, LockHeld, Inside, CheckInside, InstallInside

LEMMA LockCheck ==
    ASSUME TypeOK, LockHeld, NEW c \in Checkers,
           CheckBegin(c) \/ CheckStep(c) \/ CheckFault(c)
    PROVE  LockHeld'
<1> USE DEF At
<1>1. c \in Procs /\ c \notin Installers /\ c # NoProc
  BY ProcsAssumption DEF Procs
<1>2. ASSUME NEW label \in CheckPc, Goto(c, label)
      PROVE  Inside(c)' <=> label \in CheckInside
  BY <1>1, <1>2 DEF Inside, Goto, TypeOK
<1>3. Inside(c) <=> pc[c] \in CheckInside
  BY <1>1 DEF Inside
<1>4. CASE CheckBegin(c)
  <2>1. Goto(c, "indexing") /\ lock = NoProc /\ lock' = c
    BY <1>4 DEF CheckBegin
  <2>2. Inside(c)' <=> lock' = c
    BY <2>1, <1>2 DEF CheckPc, CheckInside
  <2>3. QED
    BY <2>1, <2>2, <1>1, LockMoves
<1>5. CASE CheckFetch(c) \/ CheckDownload(c)
  <2>1. PICK label \in CheckInside : Goto(c, label)
    BY <1>5 DEF CheckFetch, CheckDownload, CheckInside
  <2>2. lock' = lock /\ pc[c] \in CheckInside
    BY <1>5 DEF CheckFetch, CheckDownload, CheckInside
  <2>3. lock = c
    BY <2>2, <1>1, <1>3 DEF LockHeld
  <2>4. Inside(c)' <=> lock' = c
    BY <2>1, <2>2, <2>3, <1>2 DEF CheckPc, CheckInside
  <2>5. QED
    BY <2>1, <2>2, <2>4, <1>1, LockMoves
<1>6. ASSUME Return(c), pc[c] \in CheckInside
      PROVE  LockHeld'
  <2>1. Goto(c, "idle") /\ lock' = NoProc
    BY <1>6 DEF Return, Exit
  <2>2. lock = c
    BY <1>6, <1>1, <1>3 DEF LockHeld
  <2>3. Inside(c)' <=> lock' = c
    BY <2>1, <1>1, <1>2 DEF CheckPc, CheckInside
  <2>4. QED
    BY <2>1, <2>2, <2>3, <1>1, LockMoves
<1>7. CASE CheckNothingNew(c) \/ CheckStillStaged(c) \/ CheckResolveError(c)
  BY <1>6, <1>7
     DEF CheckNothingNew, CheckStillStaged, CheckResolveError, CheckInside
<1>8. CASE CheckNoDownload(c) \/ CheckStage(c) \/ CheckReject(c)
  BY <1>6, <1>8 DEF CheckNoDownload, CheckStage, CheckReject, CheckInside
<1>9. QED
  BY <1>4, <1>5, <1>7, <1>8 DEF CheckStep, CheckFault

LEMMA LockInstall ==
    ASSUME TypeOK, LockHeld, NEW i \in Installers, Install(i) \/ InstallFault(i)
    PROVE  LockHeld'
<1> USE DEF At
<1>1. i \in Procs /\ i \notin Checkers /\ i # NoProc
  BY ProcsAssumption DEF Procs
<1>2. ASSUME NEW label \in InstallPc, Goto(i, label)
      PROVE  Inside(i)' <=> label \in InstallInside
  BY <1>1, <1>2 DEF Inside, Goto, TypeOK
<1>3. Inside(i) <=> pc[i] \in InstallInside
  BY <1>1 DEF Inside
<1>4. ASSUME NEW label \in InstallInside, Goto(i, label), lock' = lock,
             pc[i] \in InstallInside
      PROVE  LockHeld'
  <2>1. lock = i
    BY <1>4, <1>1, <1>3 DEF LockHeld
  <2>2. Inside(i)' <=> lock' = i
    BY <1>4, <2>1, <1>2 DEF InstallPc, InstallInside
  <2>3. QED
    BY <1>4, <2>2, <1>1, LockMoves
<1>5. ASSUME NEW label \in InstallPc \ InstallInside, Goto(i, label),
             lock' = lock, pc[i] \notin InstallInside
      PROVE  LockHeld'
  <2>1. lock # i
    BY <1>5, <1>1, <1>3 DEF LockHeld
  <2>2. Inside(i)' <=> lock' = i
    BY <1>5, <2>1, <1>2
  <2>3. QED
    BY <1>5, <2>2, <1>1, LockMoves
<1>6. ASSUME NEW label \in InstallPc \ InstallInside, Goto(i, label),
             lock' = NoProc, pc[i] \in InstallInside
      PROVE  LockHeld'
  <2>1. lock = i
    BY <1>6, <1>1, <1>3 DEF LockHeld
  <2>2. Inside(i)' <=> lock' = i
    BY <1>6, <1>1, <1>2
  <2>3. QED
    BY <1>6, <2>1, <2>2, <1>1, LockMoves
<1>7. CASE \/ InstallStart(i) \/ InstallPrepare(i) \/ InstallBusy(i)
           \/ InstallCleanUp(i) \/ InstallRecordFailure(i)
  <2>1. PICK label \in {"preparing", "locking", "idle", "recording"} : Goto(i, label)
    BY <1>7 DEF InstallStart, InstallPrepare, InstallBusy, InstallCleanUp,
                InstallRecordFailure, Exit
  <2>2. lock' = lock /\ pc[i] \notin InstallInside
    BY <1>7 DEF InstallStart, InstallPrepare, InstallBusy, InstallCleanUp,
                InstallRecordFailure, InstallInside
  <2>3. label \in InstallPc \ InstallInside
    BY <2>1 DEF InstallPc, InstallInside
  <2>4. QED
    BY <2>1, <2>2, <2>3, <1>5
<1>8. CASE InstallLock(i)
  <2>1. Goto(i, "locked") /\ lock = NoProc /\ lock' = i
    BY <1>8 DEF InstallLock
  <2>2. Inside(i)' <=> lock' = i
    BY <2>1, <1>2 DEF InstallPc, InstallInside
  <2>3. QED
    BY <2>1, <2>2, <1>1, LockMoves
<1>9. CASE \/ InstallCopy(i) \/ InstallVerify(i) \/ InstallRetire(i)
           \/ InstallReplace(i) \/ InstallKeep(i) \/ InstallUnpack(i)
  <2>1. PICK label \in InstallInside : Goto(i, label)
    BY <1>9 DEF InstallCopy, InstallVerify, InstallRetire, InstallReplace,
                InstallKeep, InstallUnpack, InstallInside
  <2>2. lock' = lock /\ pc[i] \in InstallInside
    BY <1>9 DEF InstallCopy, InstallVerify, InstallRetire, InstallReplace,
                InstallKeep, InstallUnpack, InstallInside
  <2>3. QED
    BY <2>1, <2>2, <1>4
<1>10. CASE \/ InstallGrub(i) \/ InstallPrune(i) \/ InstallMark(i)
            \/ InstallDiscard(i)
  <2>1. PICK label \in InstallInside : Goto(i, label)
    BY <1>10 DEF InstallGrub, InstallPrune, InstallMark, InstallDiscard, InstallInside
  <2>2. lock' = lock /\ pc[i] \in InstallInside
    BY <1>10 DEF InstallGrub, InstallPrune, InstallMark, InstallDiscard, InstallInside
  <2>3. QED
    BY <2>1, <2>2, <1>4
<1>11. ASSUME Return(i) \/ Raise(i), pc[i] \in InstallInside
       PROVE  LockHeld'
  <2>1. PICK label \in {"idle", "failing"} : Goto(i, label)
    BY <1>11 DEF Return, Raise, Exit
  <2>2. lock' = NoProc
    BY <1>11 DEF Return, Raise
  <2>3. label \in InstallPc \ InstallInside
    BY <2>1 DEF InstallPc, InstallInside
  <2>4. QED
    BY <1>11, <2>1, <2>2, <2>3, <1>6
<1>12. CASE InstallNothing(i) \/ InstallAlready(i) \/ InstallOffer(i) \/ InstallCommit(i)
  BY <1>11, <1>12
     DEF InstallNothing, InstallAlready, InstallOffer, InstallCommit, InstallInside
<1>13. CASE InstallMismatch(i) \/ InstallFault(i)
  BY <1>11, <1>13
     DEF InstallMismatch, InstallFault, InstallError, InstallDefer,
         InstallPackagesFail, InstallPruneFail, InstallReplaceFail,
         InstallInterrupted, Discarding, InstallInside
<1>14. QED
  BY <1>7, <1>8, <1>9, <1>10, <1>12, <1>13
     DEF Install, InstallEntry, InstallStep

LEMMA LockSurroundings ==
    ASSUME TypeOK, LockHeld,
           \/ \E r \in Release : Publish(r)
           \/ \E q \in Policies : SetPolicy(q)
           \/ \E q \in Procs : Killed(q)
           \/ \E k \in packages \cup {NoRelease} : Reboot(k)
    PROVE  LockHeld'
<1>1. CASE \/ \E r \in Release : Publish(r)
           \/ \E q \in Policies : SetPolicy(q)
  BY <1>1 DEF Publish, SetPolicy, LockHeld, Inside, procVars
<1>2. CASE \E q \in Procs : Killed(q)
  <2>1. PICK q \in Procs : Killed(q)
    BY <1>2
  <2>2. Goto(q, "idle")
    BY <2>1 DEF Killed, Exit
  <2>3. ~Inside(q)'
    BY <2>2 DEF Inside, Goto, TypeOK, CheckInside, InstallInside
  <2>4. lock' \in {lock, NoProc} /\ lock' # q /\ (lock' # lock => lock = q)
    BY <2>1, ProcsAssumption DEF Killed
  <2>5. QED
    BY <2>2, <2>3, <2>4, LockMoves
<1>3. CASE \E k \in packages \cup {NoRelease} : Reboot(k)
  BY <1>3, ProcsAssumption DEF Reboot, LockHeld, Inside, CheckInside, InstallInside
<1>4. QED
  BY <1>1, <1>2, <1>3

-----------------------------------------------------------------------------
(* What the holder of the lock knows                                         *)

\* RetiredSwept, CandidateStable and TargetKnown, for one install process.
Knows(i) ==
    /\ pc[i] \in {"locked", "copied", "verified"} => retired = NoRelease
    /\ At(i, "verified") =>
          /\ target[i] = Candidate(i)
          /\ incoming[i] = NoRelease => ~damaged
    /\ At(i, "swapping") => target[i] = incoming[i]
    /\ pc[i] \in {"ready", "unpacked", "installed", "pruned", "marked"}
          => target[i] = available /\ ~damaged
    /\ At(i, "copied") => SourcesOf(packages) \subseteq floor[i]
    /\ pc[i] \in {"verified", "swapping", "ready", "unpacked", "installed",
                  "pruned", "marked", "discarded"}
          => /\ target[i] \in Release
             /\ \A p \in packages : p.src <= target[i].src
    /\ pc[i] \in {"unpacked", "installed", "pruned", "marked", "discarded"}
          => target[i] \in packages
    /\ pc[i] \in {"installed", "pruned", "marked", "discarded"}
          => grubTop = target[i]
    /\ pc[i] \in {"marked", "discarded"} => marker

LEMMA KnowsAll ==
    /\ (\A i \in Installers : Knows(i))
          <=> RetiredSwept /\ CandidateStable /\ TargetKnown
    /\ (\A i \in Installers : Knows(i)')
          <=> RetiredSwept' /\ CandidateStable' /\ TargetKnown'
  BY DEF Knows, RetiredSwept, CandidateStable, TargetKnown

\* A process outside the lock has nothing to know.
LEMMA OutsideKnows ==
    ASSUME NEW i \in Installers, pc[i] \notin InstallInside
    PROVE  Knows(i)
  BY DEF Knows, At, InstallInside

\* What every step of an installation leaves alone: the other processes and
\* their incoming directories (those are swept only when the lock is taken).
LEMMA InstallFrame ==
    ASSUME TypeOK, NEW i \in Installers, Install(i) \/ InstallFault(i),
           NEW j \in Procs, j # i
    PROVE  /\ pc'[j] = pc[j] /\ target'[j] = target[j] /\ floor'[j] = floor[j]
           /\ snap'[j] = snap[j]
           /\ j \in Installers /\ ~InstallLock(i) => incoming'[j] = incoming[j]
<1> USE DEF TypeOK, At, Goto, Procs, procVars, rootVars
<1>1. CASE InstallEntry(i)
  BY <1>1 DEF InstallEntry, InstallStart, InstallPrepare, InstallBusy, InstallLock, Exit
<1>2. CASE \/ InstallCopy(i) \/ InstallVerify(i) \/ InstallRetire(i)
           \/ InstallReplace(i) \/ InstallKeep(i) \/ InstallUnpack(i)
  BY <1>2 DEF InstallCopy, InstallVerify, InstallRetire, InstallReplace,
              InstallKeep, InstallUnpack
<1>3. CASE \/ InstallGrub(i) \/ InstallPrune(i) \/ InstallMark(i)
           \/ InstallDiscard(i) \/ InstallCleanUp(i)
  BY <1>3 DEF InstallGrub, InstallPrune, InstallMark, InstallDiscard, InstallCleanUp
<1>4. CASE \/ InstallOffer(i) \/ InstallCommit(i)
           \/ InstallRecordFailure(i) \/ InstallDefer(i)
  BY <1>4 DEF InstallOffer, InstallCommit, InstallRecordFailure, InstallDefer,
              Return, Exit
<1>5. CASE InstallNothing(i) \/ InstallAlready(i)
  BY <1>5 DEF InstallNothing, InstallAlready, Return, Raise, Exit
<1>6. CASE \/ InstallMismatch(i) \/ InstallError(i)
           \/ InstallPackagesFail(i) \/ InstallPruneFail(i)
           \/ InstallReplaceFail(i) \/ InstallInterrupted(i)
  BY <1>6 DEF InstallMismatch, InstallError, InstallPackagesFail,
              InstallPruneFail, InstallReplaceFail, InstallInterrupted,
              Raise, Return, Exit
<1>7. QED
  BY <1>1, <1>2, <1>3, <1>4, <1>5, <1>6 DEF Install, InstallStep, InstallFault

\* Outside the lock an installation touches nothing that a holder relies on.
LEMMA OutsideFrame ==
    ASSUME NEW i \in Installers, Install(i) \/ InstallFault(i),
           pc[i] \notin InstallInside, lock # NoProc
    PROVE  UNCHANGED <<packages, grubTop, marker, running, available, retired,
                       damaged, staged, partials>> /\ ~InstallLock(i)
<1> USE DEF At, rootVars, kernelVars, cacheVars
<1>1. CASE InstallEntry(i) \/ InstallCleanUp(i) \/ InstallRecordFailure(i)
  BY <1>1 DEF InstallEntry, InstallStart, InstallPrepare, InstallBusy,
              InstallLock, InstallCleanUp, InstallRecordFailure, InstallInside
<1>2. CASE InstallFault(i) \/ InstallMismatch(i)
  BY <1>2 DEF InstallFault, InstallError, InstallDefer, InstallMismatch,
              InstallPackagesFail, InstallPruneFail, InstallReplaceFail,
              InstallInterrupted, Discarding, InstallInside
<1>3. CASE \/ InstallCopy(i) \/ InstallNothing(i) \/ InstallVerify(i)
           \/ InstallAlready(i) \/ InstallRetire(i) \/ InstallReplace(i)
           \/ InstallKeep(i) \/ InstallOffer(i)
  BY <1>3 DEF InstallCopy, InstallNothing, InstallVerify, InstallAlready,
              InstallRetire, InstallReplace, InstallKeep, InstallOffer, InstallInside
<1>4. CASE \/ InstallUnpack(i) \/ InstallGrub(i) \/ InstallPrune(i)
           \/ InstallMark(i) \/ InstallDiscard(i) \/ InstallCommit(i)
  BY <1>4 DEF InstallUnpack, InstallGrub, InstallPrune, InstallMark,
              InstallDiscard, InstallCommit, InstallInside
<1>5. QED
  BY <1>1, <1>2, <1>3, <1>4 DEF Install, InstallStep

\* A step of one installation does not disturb what another one knows.
LEMMA OthersKnow ==
    ASSUME TypeOK, LockHeld, NEW i \in Installers, Install(i) \/ InstallFault(i),
           NEW j \in Installers, j # i, Knows(j)
    PROVE  Knows(j)'
<1>1. /\ pc'[j] = pc[j] /\ target'[j] = target[j] /\ floor'[j] = floor[j]
      /\ ~InstallLock(i) => incoming'[j] = incoming[j]
  BY InstallFrame DEF Procs
<1>2. CASE pc[j] \notin InstallInside
  BY <1>1, <1>2 DEF Knows, At, InstallInside
<1>3. CASE pc[j] \in InstallInside
  <2>1. lock = j /\ pc[i] \notin InstallInside /\ lock # NoProc
    BY <1>3, ProcsAssumption DEF LockHeld, Inside, Procs
  <2>2. UNCHANGED <<packages, grubTop, marker, available, damaged, retired>> /\ ~InstallLock(i)
    BY <2>1, OutsideFrame
  <2>3. QED
    BY <1>1, <2>2 DEF Knows, At, Candidate, SourcesOf
<1>4. QED
  BY <1>2, <1>3

\* What a prune keeps.
LEMMA RetainedKeeps ==
    ASSUME NEW t
    PROVE  /\ Retained(t) \subseteq packages
           /\ t \in packages => t \in Retained(t)
           /\ running \in packages => running \in Retained(t)
  BY DEF Retained

\* A version that is not older than any of a set of sources is at least each
\* installed one.
LEMMA NotOlder ==
    ASSUME packages \subseteq Release, NEW r \in Release, NEW S \in SUBSET Source,
           SourcesOf(packages) \subseteq S, ~IsOlder(r, S)
    PROVE  \A p \in packages : p.src <= r.src
<1> SUFFICES ASSUME NEW p \in packages PROVE p.src <= r.src
  OBVIOUS
<1>1. p.src \in S
  BY DEF SourcesOf
<1>2. ~(r.src < p.src)
  BY <1>1 DEF IsOlder
<1>3. r.src \in Int /\ p.src \in Int
  BY ReleaseAssumption DEF Release, Source
<1>4. QED
  BY <1>2, <1>3

\* Each step of an installation establishes what its next control point knows.
LEMMA InstallKnows ==
    ASSUME TypeOK, NEW i \in Installers, Install(i) \/ InstallFault(i), Knows(i),
           \A p \in packages : p \in Release
    PROVE  Knows(i)'
<1> USE DEF At, Goto
<1>1. i \in Procs /\ pc \in [Procs -> CheckPc \cup InstallPc]
  BY DEF Procs, TypeOK
<1>2. ASSUME NEW label, Goto(i, label)
      PROVE  pc'[i] = label
  BY <1>1, <1>2
<1>3. ASSUME NEW label, Goto(i, label), label \notin InstallInside
      PROVE  Knows(i)'
  BY <1>2, <1>3 DEF Knows, InstallInside
<1>4. CASE InstallEntry(i)
  <2>1. CASE InstallLock(i)
    BY <2>1, <1>2 DEF InstallLock, Knows
  <2>2. CASE InstallStart(i) \/ InstallPrepare(i) \/ InstallBusy(i)
    BY <2>2, <1>3 DEF InstallStart, InstallPrepare, InstallBusy, Exit, InstallInside
  <2>3. QED
    BY <1>4, <2>1, <2>2 DEF InstallEntry
<1>5. CASE InstallCopy(i)
  <2>1. /\ floor'[i] = InstalledSources(doc) /\ packages' = packages
        /\ pc'[i] = "copied" /\ retired' = retired /\ pc[i] = "locked"
    BY <1>5, <1>1 DEF InstallCopy, TypeOK, kernelVars
  <2>2. SourcesOf(packages) \subseteq InstalledSources(doc)
    BY DEF InstalledSources
  <2>3. QED
    BY <2>1, <2>2 DEF Knows, SourcesOf
<1>6. CASE InstallVerify(i)
  <2>1. /\ target'[i] = Candidate(i) /\ pc'[i] = "verified"
        /\ UNCHANGED <<incoming, retired, available, damaged, packages, grubTop>>
        /\ retired = NoRelease
        /\ incoming[i] = NoRelease => ~damaged
    BY <1>6, <1>1 DEF InstallVerify, Knows, TypeOK, rootVars, kernelVars
  <2>2. Candidate(i) \in Release
    BY <1>6, ResolvableType DEF InstallVerify, TypeOK
  <2>3. \A p \in packages : p.src <= Candidate(i).src
    BY <1>6, <2>2, <1>1, NotOlder DEF InstallVerify, Knows, TypeOK
  <2>4. QED
    BY <2>1, <2>2, <2>3 DEF Knows, Candidate
<1>7. CASE InstallRetire(i)
  BY <1>7, <1>2 DEF InstallRetire, Knows, Candidate, kernelVars
<1>8. CASE InstallReplace(i)
  BY <1>8, <1>2 DEF InstallReplace, Knows, kernelVars
<1>9. CASE InstallKeep(i)
  BY <1>9, <1>2 DEF InstallKeep, Knows, Candidate, kernelVars, rootVars
<1>10. CASE InstallUnpack(i)
  <2>1. /\ pc[i] = "ready" /\ pc'[i] = "unpacked" /\ packages' = packages \cup {target[i]}
        /\ UNCHANGED <<target, available, damaged, grubTop>>
    BY <1>10, <1>2 DEF InstallUnpack, rootVars
  <2>2. target[i].src \in Int /\ target[i].src <= target[i].src
    BY <2>1, ReleaseAssumption DEF Knows, Release, Source
  <2>3. QED
    BY <2>1, <2>2 DEF Knows
<1>11. CASE InstallGrub(i)
  BY <1>11, <1>2 DEF InstallGrub, Knows, rootVars
<1>12. CASE InstallPrune(i)
  <2>1. /\ pc[i] = "installed" /\ pc'[i] = "pruned" /\ packages' = Retained(target[i])
        /\ UNCHANGED <<target, available, damaged, grubTop>>
    BY <1>12, <1>2 DEF InstallPrune, rootVars
  <2>2. target[i] \in Retained(target[i]) /\ Retained(target[i]) \subseteq packages
    BY <2>1, RetainedKeeps DEF Knows
  <2>3. QED
    BY <2>1, <2>2 DEF Knows
<1>13. CASE InstallMark(i)
  BY <1>13, <1>2 DEF InstallMark, Knows, rootVars
<1>14. CASE InstallDiscard(i)
  BY <1>14, <1>2 DEF InstallDiscard, Knows, kernelVars
<1>15. CASE \/ InstallNothing(i) \/ InstallMismatch(i) \/ InstallAlready(i)
            \/ InstallOffer(i) \/ InstallCommit(i) \/ InstallFault(i)
  <2>1. Goto(i, "idle") \/ Goto(i, "failing")
    BY <1>15 DEF InstallNothing, InstallMismatch, InstallAlready, InstallOffer,
                 InstallCommit, InstallFault, InstallError, InstallDefer,
                 InstallPackagesFail, InstallPruneFail, InstallReplaceFail,
                 InstallInterrupted, Discarding, Return, Raise, Exit
  <2>2. QED
    BY <2>1, <1>3 DEF InstallInside
<1>16. CASE InstallCleanUp(i) \/ InstallRecordFailure(i)
  BY <1>16, <1>3 DEF InstallCleanUp, InstallRecordFailure, Exit, InstallInside
<1>17. QED
  BY <1>4, <1>5, <1>6, <1>7, <1>8, <1>9, <1>10, <1>11, <1>12, <1>13, <1>14,
     <1>15, <1>16 DEF Install, InstallStep

\* A check changes neither the machine nor what the root stage has copied.
LEMMA CheckFrame ==
    ASSUME NEW c \in Checkers, CheckBegin(c) \/ CheckStep(c) \/ CheckFault(c)
    PROVE  UNCHANGED <<incoming, retired, available, damaged, doc, packages,
                       grubTop, running, marker>>
<1> USE DEF rootVars, kernelVars
<1>1. CASE CheckBegin(c) \/ CheckStep(c)
  BY <1>1 DEF CheckBegin, CheckStep, CheckNothingNew, CheckStillStaged,
              CheckFetch, CheckDownload, CheckStage
<1>2. CASE CheckFault(c)
  BY <1>2 DEF CheckFault, CheckResolveError, CheckNoDownload, CheckReject
<1>3. QED
  BY <1>1, <1>2

\* A check has only its own locals.
LEMMA CheckLocals ==
    ASSUME TypeOK, NEW c \in Checkers, CheckBegin(c) \/ CheckStep(c) \/ CheckFault(c),
           NEW p \in Procs, p # c
    PROVE  /\ pc'[p] = pc[p] /\ target'[p] = target[p]
           /\ floor'[p] = floor[p] /\ snap'[p] = snap[p]
<1> USE DEF TypeOK, Goto
<1>1. CASE CheckBegin(c) \/ CheckFetch(c) \/ CheckDownload(c)
  BY <1>1 DEF CheckBegin, CheckFetch, CheckDownload
<1>2. ASSUME Return(c)
      PROVE  /\ pc'[p] = pc[p] /\ target'[p] = target[p]
             /\ floor'[p] = floor[p] /\ snap'[p] = snap[p]
  BY <1>2 DEF Return, Exit
<1>3. CASE \/ CheckNothingNew(c) \/ CheckStillStaged(c) \/ CheckStage(c)
           \/ CheckFault(c)
  BY <1>2, <1>3 DEF CheckNothingNew, CheckStillStaged, CheckStage, CheckFault,
                    CheckResolveError, CheckNoDownload, CheckReject
<1>4. QED
  BY <1>1, <1>3 DEF CheckStep

LEMMA CheckKeepsKnowledge ==
    ASSUME TypeOK, NEW c \in Checkers, CheckBegin(c) \/ CheckStep(c) \/ CheckFault(c),
           NEW i \in Installers, Knows(i)
    PROVE  Knows(i)'
<1>1. i # c /\ i \in Procs
  BY ProcsAssumption DEF Procs
<1>2. /\ pc'[i] = pc[i] /\ target'[i] = target[i] /\ floor'[i] = floor[i]
      /\ UNCHANGED <<incoming, retired, available, damaged, packages, grubTop, marker>>
  BY <1>1, CheckLocals, CheckFrame
<1>3. QED
  BY <1>2 DEF Knows, At, Candidate, SourcesOf

LEMMA SurroundingsKeepKnowledge ==
    ASSUME TypeOK,
           \/ \E r \in Release : Publish(r)
           \/ \E q \in Policies : SetPolicy(q)
           \/ \E q \in Procs : Killed(q)
           \/ \E k \in packages \cup {NoRelease} : Reboot(k),
           NEW i \in Installers, Knows(i)
    PROVE  Knows(i)'
<1> USE DEF procVars, rootVars, kernelVars
<1>1. i \in Procs
  BY DEF Procs
<1>2. CASE \/ \E r \in Release : Publish(r)
           \/ \E q \in Policies : SetPolicy(q)
  <2>1. UNCHANGED <<pc, target, floor, incoming, retired, available, damaged,
                    packages, grubTop, marker>>
    BY <1>2 DEF Publish, SetPolicy
  <2>2. QED
    BY <2>1 DEF Knows, At, Candidate, SourcesOf
<1>3. CASE \E q \in Procs : Killed(q)
  <2>1. PICK q \in Procs : Killed(q)
    BY <1>3
  <2>2. UNCHANGED <<incoming, retired, available, damaged, packages, grubTop, marker>>
    BY <2>1 DEF Killed
  <2>3. CASE i = q
    BY <2>1, <2>3, <1>1 DEF Killed, Exit, Goto, TypeOK, Knows, At
  <2>4. CASE i # q
    <3>1. pc'[i] = pc[i] /\ target'[i] = target[i] /\ floor'[i] = floor[i]
      BY <2>1, <2>4, <1>1 DEF Killed, Exit, Goto, TypeOK
    <3>2. QED
      BY <3>1, <2>2 DEF Knows, At, Candidate, SourcesOf
  <2>5. QED
    BY <2>3, <2>4
<1>4. CASE \E k \in packages \cup {NoRelease} : Reboot(k)
  BY <1>4, <1>1 DEF Reboot, Knows, At
<1>5. QED
  BY <1>2, <1>3, <1>4

-----------------------------------------------------------------------------
(* The machine and the record                                                *)

\* The installed kernels still support a record after some of them went, when
\* one that is behind none stayed.
LEMMA BackedByFewer ==
    ASSUME packages \subseteq Release, NEW d \in Document, Backed(d),
           NEW t \in packages', \A p \in packages : p.src <= t.src, t \in Release
    PROVE  Backed(d)'
<1> SUFFICES ASSUME d.source # 0
             PROVE  \E p \in packages' : p.src >= d.source
  BY DEF Backed
<1>1. PICK p \in packages : p.src >= d.source
  BY DEF Backed
<1>2. p.src \in Int /\ t.src \in Int /\ d.source \in Int
  BY <1>1, ReleaseAssumption DEF Release, Source, Document
<1>3. t.src >= d.source
  BY <1>1, <1>2
<1>4. QED
  BY <1>3

\* A constant document stays backed when a step of an installation happens.
LEMMA InstallKeepsBacked ==
    ASSUME TypeOK, NEW i \in Installers, Install(i) \/ InstallFault(i), Knows(i),
           NEW d \in Document, Backed(d)
    PROVE  Backed(d)'
<1> USE DEF At
<1>1. packages \subseteq Release
  BY DEF TypeOK
<1>2. CASE packages \subseteq packages'
  BY <1>2 DEF Backed
<1>3. CASE InstallPrune(i) \/ InstallPruneFail(i)
  <2>1. /\ target[i] \in packages /\ target[i] \in Release
        /\ \A p \in packages : p.src <= target[i].src
    BY <1>3, <1>1 DEF InstallPrune, InstallPruneFail, Knows
  <2>2. target[i] \in packages'
    BY <1>3, <2>1, RetainedKeeps DEF InstallPrune, InstallPruneFail
  <2>3. QED
    BY <2>1, <2>2, <1>1, BackedByFewer
<1>4. CASE ~(InstallPrune(i) \/ InstallPruneFail(i))
  <2> USE DEF kernelVars
  <2>1. CASE InstallEntry(i)
    BY <2>1, <1>2 DEF InstallEntry, InstallStart, InstallPrepare, InstallBusy, InstallLock
  <2>2. CASE InstallFault(i) \/ InstallMismatch(i)
    BY <2>2, <1>2, <1>4 DEF InstallFault, InstallError, InstallDefer,
                        InstallMismatch, InstallPackagesFail,
                        InstallReplaceFail, InstallInterrupted
  <2>3. CASE \/ InstallCopy(i) \/ InstallNothing(i) \/ InstallVerify(i)
             \/ InstallAlready(i) \/ InstallRetire(i) \/ InstallReplace(i)
             \/ InstallKeep(i) \/ InstallOffer(i)
    BY <2>3, <1>2 DEF InstallCopy, InstallNothing, InstallVerify, InstallAlready,
                      InstallRetire, InstallReplace, InstallKeep, InstallOffer
  <2>4. CASE \/ InstallUnpack(i) \/ InstallGrub(i)
             \/ InstallMark(i) \/ InstallDiscard(i) \/ InstallCommit(i)
             \/ InstallCleanUp(i) \/ InstallRecordFailure(i)
    BY <2>4, <1>2 DEF InstallUnpack, InstallGrub, InstallMark, InstallDiscard,
                      InstallCommit, InstallCleanUp, InstallRecordFailure
  <2>5. QED
    BY <2>1, <2>2, <2>3, <2>4, <1>4 DEF Install, InstallStep
<1>5. QED
  BY <1>3, <1>4

\* What an installation may write as the recorded installation, and what it may
\* read.
LEMMA InstallWrites ==
    ASSUME TypeOK, NEW i \in Installers, Install(i) \/ InstallFault(i)
    PROVE  /\ \/ doc'.source = doc.source
              \/ doc'.source = snap[i].source
              \/ /\ pc[i] = "discarded" /\ doc'.source = target[i].src
                 /\ packages' = packages
           /\ \/ snap'[i] = snap[i]
              \/ snap'[i] = NoDoc
              \/ snap'[i] = doc
<1> USE DEF TypeOK, At, Goto, procVars, kernelVars, Document
<1>1. i \in Procs
  BY DEF Procs
<1>2. CASE InstallEntry(i)
  BY <1>1, <1>2 DEF InstallEntry, InstallStart, InstallPrepare, InstallBusy,
                    InstallLock, Exit, WriteBack
<1>3. CASE \/ InstallCopy(i) \/ InstallVerify(i) \/ InstallRetire(i)
           \/ InstallReplace(i) \/ InstallKeep(i) \/ InstallUnpack(i)
  BY <1>1, <1>3 DEF InstallCopy, InstallVerify, InstallRetire, InstallReplace,
                    InstallKeep, InstallUnpack
<1>4. CASE \/ InstallGrub(i) \/ InstallPrune(i) \/ InstallMark(i) \/ InstallDiscard(i)
  BY <1>1, <1>4 DEF InstallGrub, InstallPrune, InstallMark, InstallDiscard
<1>5. CASE InstallCommit(i)
  BY <1>1, <1>5 DEF InstallCommit, Return, Exit
<1>6. CASE InstallAlready(i)
  <2>1. /\ doc' = [doc EXCEPT !.offered = NoRelease, !.source = target[i].src]
        /\ snap[i].source = target[i].src
    BY <1>6 DEF InstallAlready, Recorded
  <2>2. doc'.source = snap[i].source
    BY <2>1
  <2>3. snap'[i] = NoDoc
    BY <1>1, <1>6 DEF InstallAlready, Return, Exit
  <2>4. QED
    BY <2>2, <2>3
<1>7. CASE InstallNothing(i)
  BY <1>1, <1>7 DEF InstallNothing, Return, Raise, Exit
<1>8. CASE InstallOffer(i) \/ InstallDefer(i) \/ InstallPackagesFail(i)
  <2>1. doc' = [doc EXCEPT !.offered = target[i]]
    BY <1>8 DEF InstallOffer, InstallDefer, InstallPackagesFail, Offered
  <2>2. doc'.source = doc.source
    BY <2>1
  <2>3. snap'[i] = NoDoc \/ snap'[i] = snap[i]
    BY <1>1, <1>8 DEF InstallOffer, InstallDefer, InstallPackagesFail, Return, Raise, Exit
  <2>4. QED
    BY <2>2, <2>3
<1>9. CASE InstallCleanUp(i) \/ InstallRecordFailure(i)
  BY <1>1, <1>9 DEF InstallCleanUp, InstallRecordFailure, Exit, WriteBack
<1>10. CASE \/ InstallMismatch(i) \/ InstallError(i) \/ InstallPruneFail(i)
            \/ InstallReplaceFail(i) \/ InstallInterrupted(i)
  BY <1>1, <1>10 DEF InstallMismatch, InstallError, InstallPruneFail, Raise,
                     InstallReplaceFail, InstallInterrupted, Return, Exit
<1>11. QED
  BY <1>2, <1>3, <1>4, <1>5, <1>6, <1>7, <1>8, <1>9, <1>10
     DEF Install, InstallStep, InstallFault

LEMMA NoDocBacked == Backed(NoDoc) /\ Backed(NoDoc)'
  BY DEF Backed, NoDoc

\* An installation leaves the record and all copies of it backed by dpkg.
LEMMA InstallRecords ==
    ASSUME TypeOK, TypeOK', NEW i \in Installers, Install(i) \/ InstallFault(i),
           Knows(i), RecordBacked, CopiesBacked
    PROVE  RecordBacked' /\ CopiesBacked'
<1>1. i \in Procs /\ doc \in Document /\ snap \in [Procs -> Document]
  BY DEF Procs, TypeOK
<1>2. Backed(doc)' <=> \/ doc'.source = 0
                       \/ \E p \in packages' : p.src >= doc'.source
  BY DEF Backed
<1>3. \A d \in Document : Backed(d) =>
         d.source = 0 \/ \E p \in packages' : p.src >= d.source
  BY InstallKeepsBacked DEF Backed
<1>4. RecordBacked'
  <2>1. CASE doc'.source \in {doc.source, snap[i].source}
    BY <2>1, <1>1, <1>2, <1>3 DEF RecordBacked, CopiesBacked
  <2>2. CASE /\ pc[i] = "discarded" /\ doc'.source = target[i].src
             /\ packages' = packages
    <3>1. target[i] \in packages' /\ target[i].src \in Int
      BY <2>2, ReleaseAssumption DEF Knows, Release, Source
    <3>2. target[i].src >= target[i].src
      BY <3>1
    <3>3. QED
      BY <2>2, <3>1, <3>2, <1>2 DEF RecordBacked
  <2>3. QED
    BY <2>1, <2>2, InstallWrites
<1>5. ASSUME NEW p \in Procs
      PROVE  Backed(snap[p])'
  <2>1. snap'[p] = snap[p] \/ snap'[p] = NoDoc \/ snap'[p] = doc
    <3>1. CASE p = i
      BY <3>1, InstallWrites
    <3>2. CASE p # i
      BY <3>2, InstallFrame
    <3>3. QED
      BY <3>1, <3>2
  <2>2. CASE snap'[p] = NoDoc
    BY <2>2 DEF Backed, NoDoc
  <2>3. CASE snap'[p] \in {snap[p], doc}
    BY <2>3, <1>1, <1>3 DEF Backed, RecordBacked, CopiesBacked
  <2>4. QED
    BY <2>1, <2>2, <2>3
<1>6. QED
  BY <1>4, <1>5 DEF CopiesBacked

\* Neither the running kernel nor the top-level GRUB entry loses its packages.
LEMMA InstallKeepsBootable ==
    ASSUME TypeOK, NEW i \in Installers, Install(i) \/ InstallFault(i), Knows(i),
           BootableKept
    PROVE  BootableKept'
<1> USE DEF At
<1>1. CASE UNCHANGED <<grubTop, running>> /\ packages \subseteq packages'
  BY <1>1 DEF BootableKept
<1>2. CASE InstallGrub(i)
  BY <1>2 DEF InstallGrub, Knows, BootableKept
<1>3. CASE InstallPrune(i) \/ InstallPruneFail(i)
  <2>1. /\ pc[i] = "installed" /\ UNCHANGED <<grubTop, running>>
        /\ packages' \in {packages, Retained(target[i])}
    BY <1>3 DEF InstallPrune, InstallPruneFail
  <2>2. grubTop = target[i] /\ target[i] \in packages
    BY <2>1 DEF Knows
  <2>3. QED
    BY <2>1, <2>2, RetainedKeeps DEF BootableKept
<1>4. CASE InstallUnpack(i)
  BY <1>1, <1>4 DEF InstallUnpack
<1>5. CASE UNCHANGED <<packages, grubTop, running>>
  BY <1>5 DEF BootableKept
<1>6. CASE InstallEntry(i) \/ InstallCleanUp(i) \/ InstallRecordFailure(i)
  BY <1>5, <1>6 DEF InstallEntry, InstallStart, InstallPrepare, InstallBusy,
                    InstallLock, InstallCleanUp, InstallRecordFailure, kernelVars
<1>7. CASE \/ InstallMismatch(i) \/ InstallError(i) \/ InstallDefer(i)
           \/ InstallPackagesFail(i) \/ InstallReplaceFail(i)
           \/ InstallInterrupted(i)
  BY <1>5, <1>7 DEF InstallMismatch, InstallError, InstallDefer,
                    InstallPackagesFail, InstallReplaceFail,
                    InstallInterrupted, kernelVars
<1>8. CASE \/ InstallCopy(i) \/ InstallNothing(i) \/ InstallVerify(i)
           \/ InstallAlready(i) \/ InstallRetire(i) \/ InstallReplace(i)
           \/ InstallKeep(i) \/ InstallOffer(i)
  BY <1>5, <1>8 DEF InstallCopy, InstallNothing, InstallVerify, InstallAlready,
                    InstallRetire, InstallReplace, InstallKeep, InstallOffer, kernelVars
<1>9. CASE InstallMark(i) \/ InstallDiscard(i) \/ InstallCommit(i)
  BY <1>5, <1>9 DEF InstallMark, InstallDiscard, InstallCommit, kernelVars
<1>10. QED
  BY <1>2, <1>3, <1>4, <1>6, <1>7, <1>8, <1>9 DEF Install, InstallStep, InstallFault

-----------------------------------------------------------------------------
(* The directories                                                           *)

\* An installation leaves at most one incoming copy.
LEMMA InstallKeepsDirectories ==
    ASSUME TypeOK, TypeOK', LockHeld, LockHeld', NEW i \in Installers,
           Install(i) \/ InstallFault(i), IncomingSwept, OneIncoming
    PROVE  IncomingSwept' /\ OneIncoming'
<1> USE DEF At
<1>1. /\ i \in Procs /\ Installers \subseteq Procs
      /\ incoming \in [Installers -> MaybeRelease]
  BY DEF Procs, TypeOK
<1>2. ASSUME NEW j \in Installers, NEW k \in Installers,
             pc'[j] = "locked", \A m \in Installers : incoming'[m] \in {incoming[m], NoRelease}
      PROVE  incoming'[k] = NoRelease
  <2>1. Inside(j)' /\ lock' = j
    BY <1>2, <1>1 DEF LockHeld, Inside, InstallInside
  <2>2. CASE pc[j] = "locked"
    BY <1>2, <2>2 DEF IncomingSwept
  <2>3. CASE pc[j] # "locked"
    <3>1. i = j
      BY <1>1, <1>2, <2>3, InstallFrame
    <3>2. InstallLock(i)
      <4>1. pc'[i] = "locked" /\ pc[i] # "locked"
        BY <3>1, <1>2, <2>3
      <4> USE <1>1 DEF TypeOK, Goto
      <4>2. ~(\/ InstallStart(i) \/ InstallPrepare(i) \/ InstallBusy(i)
              \/ InstallCopy(i) \/ InstallVerify(i) \/ InstallRetire(i)
              \/ InstallReplace(i) \/ InstallKeep(i) \/ InstallUnpack(i))
        BY <4>1 DEF InstallStart, InstallPrepare, InstallBusy, InstallCopy, Exit,
                    InstallVerify, InstallRetire, InstallReplace, InstallKeep,
                    InstallUnpack
      <4>3. ~(\/ InstallGrub(i) \/ InstallPrune(i) \/ InstallMark(i)
              \/ InstallDiscard(i) \/ InstallCleanUp(i) \/ InstallRecordFailure(i)
              \/ InstallOffer(i) \/ InstallCommit(i))
        BY <4>1 DEF InstallGrub, InstallPrune, InstallMark, InstallDiscard, Exit,
                    InstallCleanUp, InstallRecordFailure, InstallOffer,
                    InstallCommit, Return
      <4>4. ~(\/ InstallNothing(i) \/ InstallAlready(i) \/ InstallMismatch(i)
              \/ InstallFault(i))
        BY <4>1 DEF InstallNothing, InstallAlready, InstallMismatch, InstallFault,
                    InstallError, InstallDefer, InstallPackagesFail,
                    InstallPruneFail, InstallReplaceFail, InstallInterrupted,
                    Return, Raise, Exit
      <4>5. QED
        BY <4>2, <4>3, <4>4 DEF Install, InstallEntry, InstallStep
    <3>3. QED
      BY <3>2 DEF InstallLock
  <2>4. QED
    BY <2>2, <2>3
<1>3. CASE InstallCopy(i)
  <2>1. /\ pc[i] = "locked" /\ pc'[i] = "copied" /\ lock' = lock
        /\ \A m \in Installers \ {i} : incoming'[m] = incoming[m]
    BY <1>1, <1>3 DEF InstallCopy, Goto, TypeOK
  <2>2. lock = i
    BY <2>1, <1>1 DEF LockHeld, Inside, InstallInside
  <2>3. \A j \in Installers : pc'[j] # "locked"
    BY <2>1, <2>2, <1>1 DEF LockHeld, Inside, InstallInside
  <2>4. \A m \in Installers \ {i} : incoming'[m] = NoRelease
    BY <2>1 DEF IncomingSwept
  <2>5. QED
    BY <2>3, <2>4 DEF IncomingSwept, OneIncoming, At
<1>4. ASSUME \A m \in Installers : incoming'[m] \in {incoming[m], NoRelease}
      PROVE  IncomingSwept' /\ OneIncoming'
  BY <1>2, <1>4 DEF IncomingSwept, OneIncoming
<1>5. CASE \/ InstallLock(i) \/ InstallReplace(i) \/ InstallReplaceFail(i)
           \/ InstallCleanUp(i) \/ InstallAlready(i)
  <2>1. \A m \in Installers : incoming'[m] \in {incoming[m], NoRelease}
    BY <1>1, <1>5 DEF InstallLock, InstallReplace, InstallReplaceFail,
                      InstallCleanUp, InstallAlready
  <2>2. QED
    BY <2>1, <1>4
<1>6. CASE incoming' = incoming
  BY <1>6, <1>4
<1>7. CASE \/ InstallStart(i) \/ InstallPrepare(i) \/ InstallBusy(i)
           \/ InstallNothing(i) \/ InstallVerify(i) \/ InstallMismatch(i)
           \/ InstallKeep(i) \/ InstallOffer(i) \/ InstallUnpack(i)
  BY <1>6, <1>7 DEF InstallStart, InstallPrepare, InstallBusy, InstallNothing,
                    InstallVerify, InstallMismatch, InstallKeep, InstallOffer,
                    InstallUnpack, rootVars
<1>8. CASE \/ InstallGrub(i) \/ InstallPrune(i) \/ InstallMark(i)
           \/ InstallCommit(i) \/ InstallRecordFailure(i) \/ InstallError(i)
           \/ InstallDefer(i) \/ InstallPackagesFail(i) \/ InstallPruneFail(i)
           \/ InstallInterrupted(i) \/ InstallRetire(i) \/ InstallDiscard(i)
  BY <1>6, <1>8 DEF InstallGrub, InstallPrune, InstallMark, InstallCommit,
                    InstallRecordFailure, InstallError, InstallDefer,
                    InstallPackagesFail, InstallPruneFail, InstallInterrupted,
                    InstallRetire, InstallDiscard, rootVars
<1>9. QED
  BY <1>3, <1>5, <1>7, <1>8
     DEF Install, InstallEntry, InstallStep, InstallFault

\* An installation touches no partial download.
LEMMA InstallKeepsPartials ==
    ASSUME NEW i \in Installers, Install(i) \/ InstallFault(i)
    PROVE  partials' = partials
<1> USE DEF cacheVars
<1>1. CASE InstallEntry(i) \/ InstallFault(i)
  BY <1>1 DEF InstallEntry, InstallStart, InstallPrepare, InstallBusy, InstallLock,
              InstallFault, InstallError, InstallDefer, InstallPackagesFail,
              InstallPruneFail, InstallReplaceFail, InstallInterrupted
<1>2. CASE \/ InstallCopy(i) \/ InstallNothing(i) \/ InstallVerify(i)
           \/ InstallMismatch(i) \/ InstallAlready(i) \/ InstallRetire(i)
           \/ InstallReplace(i) \/ InstallKeep(i) \/ InstallOffer(i)
  BY <1>2 DEF InstallCopy, InstallNothing, InstallVerify, InstallMismatch,
              InstallAlready, InstallRetire, InstallReplace, InstallKeep, InstallOffer
<1>3. CASE \/ InstallUnpack(i) \/ InstallGrub(i) \/ InstallPrune(i)
           \/ InstallMark(i) \/ InstallDiscard(i) \/ InstallCommit(i)
           \/ InstallCleanUp(i) \/ InstallRecordFailure(i)
  BY <1>3 DEF InstallUnpack, InstallGrub, InstallPrune, InstallMark,
              InstallDiscard, InstallCommit, InstallCleanUp, InstallRecordFailure
<1>4. QED
  BY <1>1, <1>2, <1>3 DEF Install, InstallStep

-----------------------------------------------------------------------------
(* The invariant                                                             *)

\* A check keeps at most one partial download.
LEMMA CheckKeepsPartials ==
    ASSUME NEW c \in Checkers, CheckBegin(c) \/ CheckStep(c) \/ CheckFault(c),
           \A r, s \in partials : r = s
    PROVE  (\A r, s \in partials : r = s)'
<1>1. CASE CheckBegin(c) \/ CheckFault(c)
  BY <1>1 DEF CheckBegin, CheckFault, CheckResolveError, CheckNoDownload, CheckReject
<1>2. CASE CheckStep(c)
  BY <1>2 DEF CheckStep, CheckNothingNew, CheckStillStaged, CheckFetch,
              CheckDownload, CheckStage, cacheVars
<1>3. QED
  BY <1>1, <1>2

LEMMA CheckKeeps ==
    ASSUME IndInv, NEW c \in Checkers, CheckBegin(c) \/ CheckStep(c) \/ CheckFault(c)
    PROVE  IndInv'
<1> USE DEF IndInv, DirectoriesBounded
<1>1. UNCHANGED <<incoming, retired, available, doc, packages, grubTop, running, marker>>
  BY CheckFrame
<1>2. TypeOK' /\ LockHeld'
  BY TypeCheck, LockCheck
<1>3. RetiredSwept' /\ CandidateStable' /\ TargetKnown'
  BY CheckKeepsKnowledge, KnowsAll
<1>4. BootableKept' /\ RecordBacked'
  BY <1>1 DEF BootableKept, RecordBacked, Backed
<1>5. CopiesBacked'
  <2>1. \A p \in Procs : p # c => snap'[p] = snap[p]
    BY CheckLocals
  <2>2. snap'[c] \in {snap[c], NoDoc}
    <3>1. CASE UNCHANGED snap
      BY <3>1
    <3>2. CASE Return(c)
      BY <3>2, <1>2 DEF Return, Exit, TypeOK, Procs
    <3>3. QED
      BY <3>1, <3>2 DEF CheckBegin, CheckStep, CheckFault, CheckFetch,
         CheckDownload, CheckNothingNew, CheckStillStaged, CheckStage,
         CheckResolveError, CheckNoDownload, CheckReject
  <2>3. QED
    BY <2>1, <2>2, <1>1 DEF CopiesBacked, Backed, NoDoc
<1>6. CommitBacked'
  BY <1>3 DEF CommitBacked, TargetKnown, At
<1>7. IncomingSwept'
  <2>1. \A i \in Installers : pc'[i] = pc[i]
    BY CheckLocals, ProcsAssumption DEF Procs
  <2>2. QED
    BY <2>1, <1>1 DEF IncomingSwept, At
<1>8. DirectoriesBounded'
  <2>1. OnePartial'
    BY CheckKeepsPartials DEF OnePartial
  <2>2. OneIncoming'
    BY <1>1 DEF OneIncoming
  <2>3. QED
    BY <2>1, <2>2, <1>3
<1>9. QED
  BY <1>2, <1>3, <1>4, <1>5, <1>6, <1>7, <1>8

LEMMA InstallKeeps ==
    ASSUME IndInv, NEW i \in Installers, Install(i) \/ InstallFault(i)
    PROVE  IndInv'
<1> USE DEF IndInv, DirectoriesBounded
<1>1. \A j \in Installers : Knows(j)
  BY KnowsAll
<1>2. TypeOK' /\ LockHeld'
  BY <1>1, TypeInstall, LockInstall DEF Knows, At
<1>3. RetiredSwept' /\ CandidateStable' /\ TargetKnown'
  <2>1. Knows(i)'
    BY <1>1, InstallKnows DEF TypeOK
  <2>2. \A j \in Installers : j # i => Knows(j)'
    BY <1>1, OthersKnow
  <2>3. \A j \in Installers : Knows(j)'
    BY <2>1, <2>2
  <2>4. QED
    BY <2>3, KnowsAll
<1>4. RecordBacked' /\ CopiesBacked'
  BY <1>1, <1>2, InstallRecords
<1>5. BootableKept'
  BY <1>1, InstallKeepsBootable
<1>6. CommitBacked'
  BY <1>3 DEF CommitBacked, TargetKnown, At
<1>7. IncomingSwept' /\ DirectoriesBounded'
  <2>1. IncomingSwept' /\ OneIncoming'
    BY <1>2, InstallKeepsDirectories
  <2>2. OnePartial'
    BY InstallKeepsPartials DEF OnePartial
  <2>3. QED
    BY <2>1, <2>2, <1>3
<1>8. QED
  BY <1>2, <1>3, <1>4, <1>5, <1>6, <1>7

LEMMA SurroundingsKeep ==
    ASSUME IndInv,
           \/ \E r \in Release : Publish(r)
           \/ \E q \in Policies : SetPolicy(q)
           \/ \E q \in Procs : Killed(q)
           \/ \E k \in packages \cup {NoRelease} : Reboot(k)
    PROVE  IndInv'
<1> USE DEF IndInv, DirectoriesBounded
<1>1. /\ UNCHANGED <<partials, incoming, retired, available, doc, packages, grubTop>>
      /\ running' \in {running} \cup packages \cup {NoRelease}
  BY DEF Publish, SetPolicy, Killed, Reboot, cacheVars, rootVars, kernelVars
<1>2. TypeOK' /\ LockHeld'
  BY TypeSurroundings, LockSurroundings
<1>3. RetiredSwept' /\ CandidateStable' /\ TargetKnown'
  BY SurroundingsKeepKnowledge, KnowsAll
<1>4. BootableKept' /\ RecordBacked' /\ DirectoriesBounded'
  BY <1>1, <1>3 DEF BootableKept, RecordBacked, Backed, OnePartial, OneIncoming
<1>5. \A p \in Procs : /\ snap'[p] \in {snap[p], NoDoc}
                       /\ pc'[p] \in {pc[p], "idle"}
  BY DEF Publish, SetPolicy, Killed, Reboot, Exit, Goto, TypeOK, procVars
<1>6. CopiesBacked'
  BY <1>1, <1>5 DEF CopiesBacked, Backed, NoDoc
<1>7. CommitBacked'
  BY <1>3 DEF CommitBacked, TargetKnown, At
<1>8. IncomingSwept'
  BY <1>1, <1>5 DEF IncomingSwept, At, Procs
<1>9. QED
  BY <1>2, <1>3, <1>4, <1>6, <1>7, <1>8

LEMMA InvInit == Init => IndInv
<1> SUFFICES ASSUME Init PROVE IndInv
  OBVIOUS
<1>1. TypeOK /\ LockHeld
  BY TypeInit, LockInit
<1>2. CandidateStable /\ TargetKnown /\ CommitBacked /\ IncomingSwept
  BY DEF Init, CandidateStable, TargetKnown, CommitBacked, IncomingSwept, At, Procs
<1>3. BootableKept
  BY DEF Init, BootableKept
<1>4. RecordBacked /\ CopiesBacked
  BY DEF Init, RecordBacked, CopiesBacked, Backed, NoDoc
<1>5. DirectoriesBounded
  BY DEF Init, DirectoriesBounded, OnePartial, OneIncoming, RetiredSwept, Procs
<1>6. QED
  BY <1>1, <1>2, <1>3, <1>4, <1>5 DEF IndInv

LEMMA InvStep == IndInv /\ [Next]_vars => IndInv'
<1> SUFFICES ASSUME IndInv, [Next]_vars PROVE IndInv'
  OBVIOUS
<1>1. CASE \E c \in Checkers : CheckBegin(c) \/ CheckStep(c) \/ CheckFault(c)
  BY <1>1, CheckKeeps
<1>2. CASE \E i \in Installers : Install(i) \/ InstallFault(i)
  BY <1>2, InstallKeeps
<1>3. CASE \/ \E r \in Release : Publish(r)
           \/ \E q \in Policies : SetPolicy(q)
           \/ \E q \in Procs : Killed(q)
           \/ \E k \in packages \cup {NoRelease} : Reboot(k)
  BY <1>3, SurroundingsKeep
<1>4. CASE UNCHANGED vars
  <2> USE <1>4 DEF vars, procVars, cacheVars, rootVars, kernelVars, IndInv
  <2>1. TypeOK' /\ BootableKept' /\ DirectoriesBounded' /\ IncomingSwept'
    BY DEF TypeOK, BootableKept, DirectoriesBounded, OnePartial, OneIncoming,
           RetiredSwept, IncomingSwept, At
  <2>2. LockHeld' /\ RecordBacked' /\ CopiesBacked'
    BY DEF LockHeld, Inside, RecordBacked, CopiesBacked, Backed
  <2>3. CandidateStable' /\ TargetKnown' /\ CommitBacked'
    BY DEF CandidateStable, TargetKnown, CommitBacked, At, Candidate, SourcesOf
  <2>4. QED
    BY <2>1, <2>2, <2>3
<1>5. QED
  BY <1>1, <1>2, <1>3, <1>4 DEF Next, Progress, Fault

-----------------------------------------------------------------------------
(* The theorems *)

\* IndInv is an invariant of the updater: it holds at first and every step, of
\* either stage, of a fault or of the surroundings, preserves it.
THEOREM Invariance == Spec => []IndInv
  BY InvInit, InvStep, PTL DEF Spec

\* Every variable of the updater keeps its type (install_command and
\* check_command, scripts/update-local.py).
THEOREM TypeCorrect == Spec => []TypeOK
<1>1. IndInv => TypeOK
  BY DEF IndInv
<1>2. QED
  BY <1>1, Invariance, PTL

\* update.lock makes the two stages mutually exclusive (update_lock,
\* scripts/update-local.py:492-516): no two processes are inside at a time.
THEOREM MutualExclusion ==
    Spec => [](\A p, q \in Procs : Inside(p) /\ Inside(q) => p = q)
<1>1. IndInv => \A p, q \in Procs : Inside(p) /\ Inside(q) => p = q
  BY Exclusive DEF IndInv
<1>2. QED
  BY <1>1, Invariance, PTL

\* What verify_release accepted in the root stage is what the package tool is
\* given and what is recorded, whatever other processes, kills and restarts do.
THEOREM CandidateIsStable == Spec => []CandidateStable
<1>1. IndInv => CandidateStable
  BY DEF IndInv
<1>2. QED
  BY <1>1, Invariance, PTL

\* prune_project_kernels never removes the running kernel or the top-level GRUB
\* entry, for every history length and every choice of kernel at a restart.
THEOREM MachineStaysBootable == Spec => []BootableKept
<1>1. IndInv => BootableKept
  BY DEF IndInv
<1>2. QED
  BY <1>1, Invariance, PTL

\* The installation recorded in state.json never runs ahead of dpkg, in spite of
\* the rewrites of state.json outside the lock.
THEOREM RecordIsBacked == Spec => []RecordBacked
<1>1. IndInv => RecordBacked
  BY DEF IndInv
<1>2. QED
  BY <1>1, Invariance, PTL

\* The final update_json of install_command records a release that is installed,
\* that GRUB starts, and for which this boot carries the restart marker.
THEOREM CommitIsBacked == Spec => []CommitBacked
<1>1. IndInv => CommitBacked
  BY DEF IndInv
<1>2. QED
  BY <1>1, Invariance, PTL

\* cleanup_stale_paths and copy_staged_to_root bound the release-sized
\* directories, however many runs are interrupted, and wherever.
THEOREM DirectoriesStayBounded == Spec => []DirectoriesBounded
<1>1. IndInv => DirectoriesBounded
  BY DEF IndInv
<1>2. QED
  BY <1>1, Invariance, PTL

\* Only one step of an installation moves the top-level GRUB entry.
LEMMA GrubMoves ==
    ASSUME NEW i \in Installers, Install(i) \/ InstallFault(i), ~InstallGrub(i)
    PROVE  grubTop' = grubTop
<1> USE DEF kernelVars
<1>1. CASE InstallEntry(i) \/ InstallFault(i)
  BY <1>1 DEF InstallEntry, InstallStart, InstallPrepare, InstallBusy, InstallLock,
              InstallFault, InstallError, InstallDefer, InstallPackagesFail,
              InstallPruneFail, InstallReplaceFail, InstallInterrupted
<1>2. CASE \/ InstallCopy(i) \/ InstallNothing(i) \/ InstallVerify(i)
           \/ InstallMismatch(i) \/ InstallAlready(i) \/ InstallRetire(i)
           \/ InstallReplace(i) \/ InstallKeep(i) \/ InstallOffer(i)
  BY <1>2 DEF InstallCopy, InstallNothing, InstallVerify, InstallMismatch,
              InstallAlready, InstallRetire, InstallReplace, InstallKeep, InstallOffer
<1>3. CASE \/ InstallUnpack(i) \/ InstallPrune(i) \/ InstallMark(i)
           \/ InstallDiscard(i) \/ InstallCommit(i) \/ InstallCleanUp(i)
           \/ InstallRecordFailure(i)
  BY <1>3 DEF InstallUnpack, InstallPrune, InstallMark, InstallDiscard,
              InstallCommit, InstallCleanUp, InstallRecordFailure
<1>4. QED
  BY <1>1, <1>2, <1>3 DEF Install, InstallStep

\* A step that moves the entry moves it to a release that is behind no kernel.
LEMMA GrubForward ==
    ASSUME IndInv, [Next]_vars, grubTop' # grubTop
    PROVE  grubTop' # NoRelease /\ ~IsOlder(grubTop', SourcesOf(packages))
<1>1. PICK i \in Installers : InstallGrub(i)
  <2>1. CASE \E c \in Checkers : CheckBegin(c) \/ CheckStep(c) \/ CheckFault(c)
    BY <2>1, CheckFrame
  <2>2. CASE \E i \in Installers : Install(i) \/ InstallFault(i)
    BY <2>2, GrubMoves
  <2>3. CASE \/ \E r \in Release : Publish(r)
             \/ \E q \in Policies : SetPolicy(q)
             \/ \E q \in Procs : Killed(q)
             \/ \E k \in packages \cup {NoRelease} : Reboot(k)
    BY <2>3 DEF Publish, SetPolicy, Killed, Reboot, kernelVars
  <2>4. CASE UNCHANGED vars
    BY <2>4 DEF vars, kernelVars
  <2>5. QED
    BY <2>1, <2>2, <2>3, <2>4 DEF Next, Progress, Fault
<1>2. /\ grubTop' = target[i] /\ target[i] \in Release
      /\ \A p \in packages : p.src <= target[i].src
  BY <1>1, KnowsAll DEF IndInv, DirectoriesBounded, InstallGrub, Knows, At
<1>3. \A p \in packages : p.src \in Int /\ target[i].src \in Int
  BY <1>2, ReleaseAssumption DEF IndInv, TypeOK, Release, Source
<1>4. \A v \in SourcesOf(packages) : ~(target[i].src < v)
  BY <1>2, <1>3 DEF SourcesOf
<1>5. QED
  BY <1>2, <1>4, ReleaseAssumption DEF IsOlder

\* The top-level GRUB entry is never moved to a release of an older Ubuntu source
\* version than an installed project kernel (the floor verify_release checks).
THEOREM NeverDowngrades == Spec => NoDowngrade
<1>1. IndInv /\ [Next]_vars =>
         [grubTop' # grubTop =>
            grubTop' # NoRelease /\ ~IsOlder(grubTop', SourcesOf(packages))]_vars
  BY GrubForward
<1>2. QED
  BY <1>1, Invariance, PTL DEF Spec, NoDowngrade

-----------------------------------------------------------------------------
(* The order of releases *)

\* A nonempty set of naturals has a least element.
LEMMA LeastNatural ==
    ASSUME NEW S \in SUBSET Nat, S # {}
    PROVE  \E k \in S : \A j \in S : k <= j
<1> DEFINE less == {p \in Nat \X Nat : p[1] < p[2]}
<1>1. IsWellFoundedOn(less, Nat)
  BY NatLessThanWellFounded, Zenon DEF OpToRel
<1>2. PICK k \in S : \A j \in S : ~(<<j, k>> \in less)
  BY <1>1, WFMin, Zenon
<1>3. ASSUME NEW j \in S PROVE k <= j
  <2>1. <<j, k>> \notin less
    BY <1>2
  <2>2. QED
    BY <2>1
<1>4. QED
  BY <1>3

\* Releases are ordered: a nonempty set of them has an oldest.
LEMMA OldestExists ==
    ASSUME NEW S \in SUBSET Release, S # {}
    PROVE  \E r \in S : \A s \in S : s # r => Newer(s, r)
<1>1. \A r \in Release : r.src \in Nat /\ r.var \in Nat
  BY ReleaseAssumption DEF Release, Source
<1>2. \A r, s \in Release : r.src = s.src /\ r.var = s.var => r = s
  BY DEF Release
<1> DEFINE srcs == {r.src : r \in S}
<1>3. srcs \in SUBSET Nat /\ srcs # {}
  BY <1>1
<1>4. PICK m \in srcs : \A n \in srcs : m <= n
  <2> HIDE DEF srcs
  <2> QED BY <1>3, LeastNatural
<1> DEFINE vs == {r.var : r \in {s \in S : s.src = m}}
<1>5. vs \in SUBSET Nat /\ vs # {}
  BY <1>1, <1>4
<1>6. PICK v \in vs : \A n \in vs : v <= n
  <2> HIDE DEF vs
  <2> QED BY <1>5, LeastNatural
<1>7. PICK r \in S : r.src = m /\ r.var = v
  BY <1>6
<1>8. ASSUME NEW s \in S, s # r PROVE Newer(s, r)
  <2>1. m <= s.src /\ m \in Nat /\ s.src \in Nat
    BY <1>1, <1>3, <1>4
  <2>2. s.src = m => v <= s.var /\ v # s.var /\ v \in Nat /\ s.var \in Nat
    BY <1>1, <1>2, <1>5, <1>6, <1>7, <1>8
  <2>3. QED
    BY <2>1, <2>2, <1>7 DEF Newer
<1>9. QED
  BY <1>7, <1>8

\* There are finitely many releases.
LEMMA ReleaseFinite == IsFiniteSet(Release)
<1> DEFINE pairs == Source \X (0..MaxVariant)
           f == [r \in Release |-> <<r.src, r.var>>]
<1>1. IsFiniteSet(pairs)
  <2>1. IsFiniteSet(Source) /\ IsFiniteSet(0..MaxVariant)
    BY FS_Interval, ReleaseAssumption DEF Source
  <2>2. QED
    BY <2>1, FS_Product
<1>2. f \in Injection(Release, pairs)
  <2>1. f \in [Release -> pairs]
    BY DEF Release
  <2>2. ASSUME NEW r \in Release, NEW s \in Release, f[r] = f[s]
        PROVE  r = s
    <3>1. r.src = s.src /\ r.var = s.var
      BY <2>2
    <3>2. QED
      BY <3>1 DEF Release
  <2>3. QED
    BY <2>1, <2>2 DEF Injection, IsInjective
<1>3. QED
  BY <1>1, <1>2, FS_Injection

\* Of more kernels than the history keeps the oldest would have that many newer
\* ones beside it.
LEMMA HistoricalBounded ==
    ASSUME packages \subseteq Release, NEW t
    PROVE  IsFiniteSet(Historical(t)) /\ Cardinality(Historical(t)) <= History
<1> DEFINE S == packages \ {t}
           N == Historical(t)
<1>1. N \subseteq S /\ S \subseteq Release
  BY DEF Historical
<1>2. IsFiniteSet(S) /\ IsFiniteSet(N) /\ Cardinality(N) \in Nat
  BY <1>1, ReleaseFinite, FS_Subset, FS_CardinalityType
<1> SUFFICES ASSUME Cardinality(N) > History PROVE FALSE
  BY <1>2, ConfigAssumption
<1>3. N # {}
  BY <1>2, FS_EmptySet, ConfigAssumption
<1>4. PICK r \in N : \A s \in N : s # r => Newer(s, r)
  BY <1>1, <1>3, OldestExists
<1> DEFINE A == {s \in S : Newer(s, r)}
<1>5. N \ {r} \subseteq A
  BY <1>1, <1>4
<1>6. IsFiniteSet(A) /\ Cardinality(A) \in Nat
  BY <1>2, FS_Subset, FS_CardinalityType
<1>7. Cardinality(N \ {r}) = Cardinality(N) - 1
  BY <1>2, <1>4, FS_RemoveElement
<1>8. Cardinality(N \ {r}) <= Cardinality(A)
  BY <1>5, <1>6, FS_Subset
<1>9. Cardinality(A) < History
  BY <1>4 DEF Historical
<1>10. QED
  BY <1>2, <1>6, <1>7, <1>8, <1>9, ConfigAssumption

-----------------------------------------------------------------------------
(* What pruning leaves *)

LEMMA RetainedBounded ==
    ASSUME TypeOK, NEW t
    PROVE  Cardinality(Retained(t)) <= History + 2
<1> DEFINE H == Historical(t)
           K == (H \cup {t}) \cup {running}
<1>1. IsFiniteSet(H) /\ Cardinality(H) <= History /\ Cardinality(H) \in Nat
  BY HistoricalBounded, FS_CardinalityType DEF TypeOK
<1>2. IsFiniteSet(H \cup {t}) /\ Cardinality(H \cup {t}) <= History + 1
  <2>1. /\ IsFiniteSet(H \cup {t})
        /\ Cardinality(H \cup {t}) = IF t \in H THEN Cardinality(H)
                                                 ELSE Cardinality(H) + 1
    BY <1>1, FS_AddElement
  <2>2. QED
    BY <1>1, <2>1, ConfigAssumption
<1>3. IsFiniteSet(K) /\ Cardinality(K) <= History + 2
  <2> DEFINE G == H \cup {t}
  <2>1. Cardinality(G) \in Nat
    BY <1>2, FS_CardinalityType
  <2>2. /\ IsFiniteSet(G \cup {running})
        /\ Cardinality(G \cup {running}) = IF running \in G THEN Cardinality(G)
                                                   ELSE Cardinality(G) + 1
    BY <1>2, FS_AddElement
  <2>3. QED
    BY <1>2, <2>1, <2>2, ConfigAssumption
<1>4. Retained(t) \subseteq K
  BY DEF Retained
<1>5. Cardinality(Retained(t)) <= Cardinality(K)
  BY <1>3, <1>4, FS_Subset
<1>6. Cardinality(Retained(t)) \in Nat /\ Cardinality(K) \in Nat
  BY <1>3, <1>4, FS_Subset, FS_CardinalityType
<1>7. QED
  BY <1>3, <1>5, <1>6, ConfigAssumption

\* After the pruning a run changes no package, and nobody else does.
LEMMA InstallKeepsPruned ==
    ASSUME IndInv, PackagesPruned, NEW i \in Installers,
           Install(i) \/ InstallFault(i)
    PROVE  PackagesPruned'
<1> DEFINE after == {"pruned", "marked", "discarded"}
<1>1. TypeOK /\ LockHeld /\ Installers \subseteq Procs
  BY DEF IndInv, Procs
<1>2. pc'[i] \in after => Cardinality(packages') <= History + 2
  <2> USE <1>1 DEF At, Goto, TypeOK, Procs
  <2>1. CASE InstallPrune(i)
    BY <2>1, RetainedBounded DEF InstallPrune
  <2>2. CASE InstallMark(i) \/ InstallDiscard(i)
    BY <2>2 DEF InstallMark, InstallDiscard, PackagesPruned, kernelVars
  <2>3. CASE InstallEntry(i) \/ InstallCopy(i) \/ InstallVerify(i) \/ InstallCleanUp(i)
    BY <2>3 DEF InstallEntry, InstallStart, InstallPrepare, InstallBusy,
       InstallLock, InstallCopy, InstallVerify, InstallCleanUp, Exit
  <2>4. CASE \/ InstallRetire(i) \/ InstallReplace(i) \/ InstallKeep(i)
             \/ InstallUnpack(i) \/ InstallGrub(i)
    BY <2>4 DEF InstallRetire, InstallReplace, InstallKeep, InstallUnpack,
       InstallGrub
  <2>5. CASE \/ InstallNothing(i) \/ InstallMismatch(i) \/ InstallAlready(i)
             \/ InstallOffer(i) \/ InstallCommit(i) \/ InstallRecordFailure(i)
    BY <2>5 DEF InstallNothing, InstallMismatch, InstallAlready, InstallOffer,
       InstallCommit, InstallRecordFailure, Return, Raise, Exit
  <2>6. CASE InstallFault(i)
    BY <2>6 DEF InstallFault, InstallError, InstallDefer, InstallPackagesFail,
       InstallPruneFail, InstallReplaceFail, InstallInterrupted, Return, Raise,
       Exit
  <2>7. QED
    BY <2>1, <2>2, <2>3, <2>4, <2>5, <2>6 DEF Install, InstallStep
<1>3. ASSUME NEW j \in Installers, j # i, pc'[j] \in after
      PROVE  Cardinality(packages') <= History + 2
  <2>1. pc[j] \in after
    BY <1>1, <1>3, InstallFrame
  <2>2. lock = j /\ pc[i] \notin InstallInside /\ lock # NoProc
    BY <1>1, <1>3, <2>1, ProcsAssumption DEF LockHeld, Inside, InstallInside, Procs
  <2>3. packages' = packages
    BY <2>2, OutsideFrame
  <2>4. QED
    BY <2>1, <2>3, <1>3 DEF PackagesPruned
<1>4. QED
  BY <1>2, <1>3 DEF PackagesPruned

LEMMA PrunedStep == IndInv /\ PackagesPruned /\ [Next]_vars => PackagesPruned'
<1> SUFFICES ASSUME IndInv, PackagesPruned, [Next]_vars PROVE PackagesPruned'
  OBVIOUS
<1>1. TypeOK /\ \A i \in Installers : i \in Procs /\ i \notin Checkers
  BY ProcsAssumption DEF IndInv, Procs
<1>2. CASE \E c \in Checkers : CheckBegin(c) \/ CheckStep(c) \/ CheckFault(c)
  <2>1. packages' = packages /\ \A i \in Installers : pc'[i] = pc[i]
    BY <1>1, <1>2, CheckFrame, CheckLocals
  <2>2. QED
    BY <2>1 DEF PackagesPruned
<1>3. CASE \E i \in Installers : Install(i) \/ InstallFault(i)
  BY <1>3, InstallKeepsPruned
<1>4. CASE \/ \E r \in Release : Publish(r)
           \/ \E q \in Policies : SetPolicy(q)
           \/ \E q \in Procs : Killed(q)
           \/ \E k \in packages \cup {NoRelease} : Reboot(k)
  <2>1. packages' = packages /\ \A i \in Installers : pc'[i] \in {pc[i], "idle"}
    BY <1>1, <1>4 DEF Publish, SetPolicy, Killed, Reboot, Exit, Goto, TypeOK,
       procVars, kernelVars
  <2>2. QED
    BY <2>1 DEF PackagesPruned
<1>5. CASE UNCHANGED vars
  BY <1>5 DEF vars, procVars, kernelVars, PackagesPruned
<1>6. QED
  BY <1>2, <1>3, <1>4, <1>5 DEF Next, Progress, Fault

\* prune_project_kernels bounds the kernels on the machine, whatever has piled
\* up before: from the pruning to the commit, and so at each recorded
\* installation, History + 2 project kernels are installed at most.
THEOREM PackagesStayPruned == Spec => []PackagesPruned
<1>1. Init => PackagesPruned
  BY DEF Init, PackagesPruned, Procs
<1>2. QED
  BY <1>1, PrunedStep, Invariance, PTL DEF Spec

-----------------------------------------------------------------------------
(* Only releases of the project reach the machine, however many processes    *)
(* run.                                                                      *)

\* Steps of the root stage publish nothing.
LEMMA InstallPublishesNothing ==
    ASSUME NEW i \in Installers, Install(i) \/ InstallFault(i)
    PROVE  published' = published
  BY DEF Install, InstallEntry, InstallStart, InstallPrepare, InstallBusy,
     InstallLock, InstallStep, InstallCopy, InstallNothing, InstallVerify,
     InstallMismatch, InstallAlready, InstallRetire, InstallReplace, InstallKeep,
     InstallOffer, InstallUnpack, InstallGrub, InstallPrune, InstallMark,
     InstallDiscard, InstallCommit, InstallCleanUp, InstallRecordFailure,
     InstallFault, InstallError, InstallDefer, InstallPackagesFail,
     InstallPruneFail, InstallReplaceFail, InstallInterrupted

\* A check stages only what it has found published.
LEMMA CheckFromProject ==
    ASSUME TypeOK, FromProject, NEW c \in Checkers,
           CheckBegin(c) \/ CheckStep(c) \/ CheckFault(c)
    PROVE  FromProject' /\ published' = published
<1>1. UNCHANGED <<incoming, retired, available, doc>>
  BY CheckFrame
<1>2. published' = published
  BY DEF CheckBegin, CheckStep, CheckFault, CheckFetch, CheckDownload,
     CheckNothingNew, CheckStillStaged, CheckStage, CheckResolveError,
     CheckNoDownload, CheckReject
<1>3. \A p \in Procs : p # c =>
         pc'[p] = pc[p] /\ target'[p] = target[p] /\ snap'[p] = snap[p]
  BY CheckLocals
<1>4. /\ staged' \in published \cup {NoRelease}
      /\ pc'[c] = "downloaded" => target'[c] \in published
  <2> USE DEF FromProject, At, Goto, cacheVars, TypeOK, Procs
  <2>1. CASE CheckBegin(c)
    BY <2>1 DEF CheckBegin
  <2>2. CASE CheckFetch(c)
    BY <2>2 DEF CheckFetch
  <2>3. CASE CheckDownload(c)
    BY <2>3 DEF CheckDownload
  <2>4. CASE CheckStage(c)
    BY <2>4 DEF CheckStage, Return, Exit
  <2>5. CASE CheckNothingNew(c) \/ CheckStillStaged(c) \/ CheckFault(c)
    BY <2>5 DEF CheckNothingNew, CheckStillStaged, CheckFault, CheckResolveError,
       CheckNoDownload, CheckReject, Return, Exit
  <2>6. QED
    BY <2>1, <2>2, <2>3, <2>4, <2>5 DEF CheckStep
<1>5. \A i \in Installers : i \in Procs /\ i # c
  BY ProcsAssumption DEF Procs
<1>6. QED
  BY <1>1, <1>2, <1>3, <1>4, <1>5 DEF FromProject, At, Procs

\* What is copied, kept and installed was staged.
LEMMA InstallFromProject ==
    ASSUME IndInv, FromProject, NEW i \in Installers,
           Install(i) \/ InstallFault(i)
    PROVE  FromProject'
<1>1. /\ TypeOK /\ i \in Procs /\ i \notin Checkers
      /\ Installers \subseteq Procs /\ Checkers \subseteq Procs
  BY ProcsAssumption DEF IndInv, Procs
<1>2. Knows(i)
  BY KnowsAll DEF IndInv, DirectoriesBounded
<1>3. published' = published
  BY InstallPublishesNothing
<1>4. /\ staged' \in published \cup {NoRelease}
      /\ retired' \in published \cup {NoRelease}
      /\ available' \in published \cup {NoRelease}
      /\ incoming'[i] \in published \cup {NoRelease}
      /\ pc'[i] \in Decided \cup {"verified"} => target'[i] \in published
  <2> USE <1>1 DEF FromProject, Reads, Decided, At, Goto, cacheVars,
                   rootVars, TypeOK
  <2>1. CASE InstallEntry(i)
    BY <2>1 DEF InstallEntry, InstallStart, InstallPrepare, InstallBusy,
       InstallLock, Exit
  <2>2. CASE InstallCopy(i)
    BY <2>2 DEF InstallCopy
  <2>3. CASE InstallVerify(i)
    BY <2>3 DEF InstallVerify, Candidate
  <2>4. CASE InstallRetire(i) \/ InstallReplace(i) \/ InstallKeep(i)
    BY <2>4 DEF InstallRetire, InstallReplace, InstallKeep
  <2>5. CASE InstallUnpack(i) \/ InstallGrub(i) \/ InstallPrune(i)
    BY <2>5 DEF InstallUnpack, InstallGrub, InstallPrune
  <2>6. CASE InstallMark(i) \/ InstallDiscard(i) \/ InstallCleanUp(i)
    BY <2>6 DEF InstallMark, InstallDiscard, InstallCleanUp
  <2>7. CASE \/ InstallNothing(i) \/ InstallMismatch(i) \/ InstallAlready(i)
             \/ InstallOffer(i) \/ InstallCommit(i) \/ InstallRecordFailure(i)
    BY <2>7 DEF InstallNothing, InstallMismatch, InstallAlready, InstallOffer,
       InstallCommit, InstallRecordFailure, Return, Raise, Exit
  <2>8. CASE InstallFault(i)
    BY <2>8 DEF InstallFault, InstallError, InstallDefer, InstallPackagesFail,
       InstallPruneFail, InstallReplaceFail, InstallInterrupted, Return, Raise,
       Exit
  <2>9. QED
    BY <2>1, <2>2, <2>3, <2>4, <2>5, <2>6, <2>7, <2>8 DEF Install, InstallStep
<1>5. \A p \in Procs : p # i => pc'[p] = pc[p] /\ target'[p] = target[p]
  BY <1>1, InstallFrame
<1>6. \A j \in Installers : j # i => incoming'[j] \in published \cup {NoRelease}
  <2>1. CASE InstallLock(i)
    BY <2>1 DEF InstallLock
  <2>2. CASE ~InstallLock(i)
    BY <1>1, <2>2, InstallFrame DEF FromProject
  <2>3. QED
    BY <2>1, <2>2
<1>7. QED
  BY <1>1, <1>3, <1>4, <1>5, <1>6 DEF FromProject, At

\* A publication takes nothing back, and a process that is killed forgets what
\* it had decided.
LEMMA SurroundingsFromProject ==
    ASSUME TypeOK, FromProject,
           \/ \E r \in Release : Publish(r)
           \/ \E q \in Policies : SetPolicy(q)
           \/ \E q \in Procs : Killed(q)
           \/ \E k \in packages \cup {NoRelease} : Reboot(k)
    PROVE  FromProject'
<1>1. /\ UNCHANGED <<staged, incoming, retired, available>>
      /\ published \subseteq published'
  BY DEF Publish, SetPolicy, Killed, Reboot, cacheVars, rootVars
<1>2. \A p \in Procs :
        (pc'[p] = pc[p] /\ target'[p] = target[p]) \/ pc'[p] = "idle"
  BY DEF Publish, SetPolicy, Killed, Reboot, Exit, Goto, TypeOK, procVars
<1>3. QED
  BY <1>1, <1>2 DEF FromProject, At, Procs, Reads, Decided

LEMMA FromProjectInit == Init => FromProject
  BY DEF Init, FromProject, Reads, Decided, At, Procs

LEMMA FromProjectStep == IndInv /\ FromProject /\ [Next]_vars => FromProject'
<1> SUFFICES ASSUME IndInv, FromProject, [Next]_vars PROVE FromProject'
  OBVIOUS
<1>1. TypeOK
  BY DEF IndInv
<1>2. CASE \E c \in Checkers : CheckBegin(c) \/ CheckStep(c) \/ CheckFault(c)
  BY <1>1, <1>2, CheckFromProject
<1>3. CASE \E i \in Installers : Install(i) \/ InstallFault(i)
  BY <1>3, InstallFromProject
<1>4. CASE \/ \E r \in Release : Publish(r)
           \/ \E q \in Policies : SetPolicy(q)
           \/ \E q \in Procs : Killed(q)
           \/ \E k \in packages \cup {NoRelease} : Reboot(k)
  BY <1>1, <1>4, SurroundingsFromProject
<1>5. CASE UNCHANGED vars
  BY <1>5 DEF vars, procVars, cacheVars, rootVars, FromProject, At
<1>6. QED
  BY <1>2, <1>3, <1>4, <1>5 DEF Next, Progress, Fault

\* Nothing but releases that the project has published is ever staged, kept or
\* chosen for installation, although the resolver may name a release that was
\* never published (resolve_target falls back on the HWE kernel).
THEOREM OnlyProjectReleases == Spec => []FromProject
  BY FromProjectInit, FromProjectStep, Invariance, PTL DEF Spec

-----------------------------------------------------------------------------
(* What the machine is promised, however many root stages run.               *)

\* What a run is about to install is a published release behind no installed one.
LEMMA DecidedIsForward ==
    ASSUME IndInv, FromProject, NEW i \in Installers, pc[i] \in Decided
    PROVE  /\ target[i] \in published /\ target[i] \in Release
           /\ \A p \in packages : ~(target[i].src < p.src)
<1>1. target[i] \in Release /\ \A p \in packages : p.src <= target[i].src
  BY DEF IndInv, TargetKnown, Decided, Reads
<1>2. target[i].src \in Nat /\ \A p \in packages : p.src \in Nat
  BY <1>1, ReleaseAssumption DEF Release, Source, IndInv, TypeOK
<1>3. QED
  BY <1>1, <1>2 DEF FromProject

\* Unpacking is an arrival, the GRUB change makes a default, pruning lets leave
\* what nothing needs; every other step of a run, the ones that fail included,
\* leaves the machine as it is.
LEMMA InstallMovesMachine ==
    ASSUME IndInv, FromProject, NEW i \in Installers,
           Install(i) \/ InstallFault(i)
    PROVE  [Machine!Next]_(Machine!pvars)
<1>1. CASE InstallUnpack(i)
  <2>1. /\ packages' = packages \cup {target[i]}
        /\ UNCHANGED <<published, grubTop, running>>
        /\ pc[i] \in Decided
    BY <1>1 DEF InstallUnpack, At, Decided, Reads
  <2>2. Machine!Arrive(target[i])
    BY <2>1, DecidedIsForward DEF Machine!Arrive, Machine!Behind
  <2>3. QED
    BY <2>1, <2>2, DecidedIsForward DEF Machine!Next
<1>2. CASE InstallGrub(i)
  <2>1. /\ grubTop' = target[i]
        /\ UNCHANGED <<published, packages, running>>
        /\ pc[i] \in Decided /\ target[i] \in packages
    BY <1>2 DEF InstallGrub, At, Decided, Reads, IndInv, TargetKnown
  <2>2. Machine!BecomeDefault(target[i])
    BY <2>1, DecidedIsForward DEF Machine!BecomeDefault, Machine!Behind
  <2>3. QED
    BY <2>1, <2>2 DEF Machine!Next
<1>3. CASE InstallPrune(i) \/ InstallPruneFail(i)
  <2>1. /\ packages' = Retained(target[i])
        /\ UNCHANGED <<published, grubTop, running>>
        /\ grubTop = target[i]
    BY <1>3 DEF InstallPrune, InstallPruneFail, At, IndInv, TargetKnown
  <2>2. Machine!Leave
    BY <2>1, RetainedKeeps DEF Machine!Leave
  <2>3. QED
    BY <2>2 DEF Machine!Next
<1>4. CASE \/ InstallEntry(i) \/ InstallCopy(i) \/ InstallNothing(i)
           \/ InstallVerify(i) \/ InstallMismatch(i) \/ InstallAlready(i)
           \/ InstallRetire(i) \/ InstallReplace(i) \/ InstallKeep(i)
           \/ InstallOffer(i) \/ InstallMark(i) \/ InstallDiscard(i)
           \/ InstallCommit(i) \/ InstallCleanUp(i) \/ InstallRecordFailure(i)
           \/ InstallError(i) \/ InstallDefer(i) \/ InstallPackagesFail(i)
           \/ InstallReplaceFail(i) \/ InstallInterrupted(i)
  <2>1. UNCHANGED <<published, packages, grubTop, running>>
    BY <1>4 DEF InstallEntry, InstallStart, InstallPrepare, InstallBusy,
       InstallLock, InstallCopy, InstallNothing, InstallVerify, InstallMismatch,
       InstallAlready, InstallRetire, InstallReplace, InstallKeep, InstallOffer,
       InstallMark, InstallDiscard, InstallCommit, InstallCleanUp,
       InstallRecordFailure, InstallError, InstallDefer, InstallPackagesFail,
       InstallReplaceFail, InstallInterrupted, kernelVars
  <2>2. QED
    BY <2>1 DEF Machine!pvars
<1>5. QED
  BY <1>1, <1>2, <1>3, <1>4 DEF Install, InstallStep, InstallFault

LEMMA MachineStep ==
    IndInv /\ FromProject /\ [Next]_vars => [Machine!Next]_(Machine!pvars)
<1> SUFFICES ASSUME IndInv, FromProject, [Next]_vars
             PROVE  [Machine!Next]_(Machine!pvars)
  OBVIOUS
<1>1. CASE \E c \in Checkers : CheckBegin(c) \/ CheckStep(c) \/ CheckFault(c)
  BY <1>1, CheckFrame, CheckFromProject DEF Machine!pvars, IndInv
<1>2. CASE \E i \in Installers : Install(i) \/ InstallFault(i)
  BY <1>2, InstallMovesMachine
<1>3. ASSUME NEW r \in Release, Publish(r)
      PROVE  Machine!Publish
  BY <1>3 DEF Publish, Machine!Publish, Machine!Release, Release, Source, kernelVars
<1>4. CASE \/ \E q \in Policies : SetPolicy(q)
           \/ \E q \in Procs : Killed(q)
  BY <1>4 DEF SetPolicy, Killed, Machine!pvars, kernelVars
<1>5. ASSUME NEW k \in packages \cup {NoRelease}, Reboot(k)
      PROVE  Machine!Start(k)
  BY <1>5 DEF Reboot, Machine!Start
<1>6. CASE UNCHANGED vars
  BY <1>6 DEF vars, kernelVars, Machine!pvars
<1>7. QED
  BY <1>1, <1>2, <1>3, <1>4, <1>5, <1>6 DEF Next, Progress, Fault, Machine!Next

LEMMA MachineInit == Init => Machine!Init
<1> SUFFICES ASSUME Init PROVE Machine!Init
  OBVIOUS
<1>1. [src |-> 1, var |-> 0] \in Machine!Release
  BY ReleaseAssumption, SMT DEF Machine!Release
<1>2. published \subseteq Machine!Release
  BY <1>1 DEF Init
<1>3. /\ packages \subseteq published /\ grubTop \in packages \cup {NoRelease}
      /\ running \in packages \cup {NoRelease}
  BY DEF Init
<1>4. QED
  BY <1>2, <1>3 DEF Machine!Init

\* However many check and install processes contend, fail, crash and overwrite
\* each other's state.json, the machine sees nothing but what KernelPromise
\* allows: no kernel of another origin, no step back, nothing needed removed.
THEOREM UpdaterKeepsMachinePromise == Spec => KeepsMachinePromise
  BY MachineInit, MachineStep, OnlyProjectReleases, Invariance, PTL
     DEF Spec, KeepsMachinePromise, Machine!Spec

\* What the abstract specification alone says of its states ...
PromisedOrigin ==
    /\ packages \subseteq published
    /\ {grubTop, running} \subseteq packages \cup {NoRelease}

\* ... and of its steps: the entry that GRUB starts never becomes an older
\* source version, nor an Ubuntu kernel again.
Forward == grubTop # NoRelease => grubTop' # NoRelease /\ ~Machine!Behind(grubTop', grubTop)

LEMMA PromisedStep ==
    ASSUME PromisedOrigin, [Machine!Next]_Machine!pvars, NoRelease \notin published
    PROVE  /\ (published \subseteq published' /\ NoRelease \notin published'
                 => PromisedOrigin')
           /\ grubTop' = grubTop \/ Forward
<1> USE DEF PromisedOrigin, Forward
<1>1. CASE Machine!Publish
  BY <1>1 DEF Machine!Publish
<1>2. ASSUME NEW r \in published, Machine!Arrive(r)
      PROVE  PromisedOrigin' /\ grubTop' = grubTop
  BY <1>2 DEF Machine!Arrive
<1>3. ASSUME NEW r \in packages, Machine!BecomeDefault(r)
      PROVE  PromisedOrigin' /\ Forward
  BY <1>3 DEF Machine!BecomeDefault
<1>4. ASSUME NEW r \in packages, Machine!Record(r)
      PROVE  PromisedOrigin' /\ grubTop' = grubTop
  BY <1>4 DEF Machine!Record
<1>5. CASE Machine!Leave
  BY <1>5 DEF Machine!Leave
<1>6. ASSUME NEW k \in packages \cup {NoRelease}, Machine!Start(k)
      PROVE  PromisedOrigin' /\ grubTop' = grubTop
  BY <1>6 DEF Machine!Start
<1>7. CASE UNCHANGED Machine!pvars
  BY <1>7 DEF Machine!pvars
<1>8. QED
  BY <1>1, <1>2, <1>3, <1>4, <1>5, <1>6, <1>7 DEF Machine!Next

\* Everything the abstract specification says follows for the updater: only
\* published releases are installed, and what GRUB starts by default and what
\* runs is one of them or an Ubuntu kernel, however many root stages run.
THEOREM InstalledFromProject == Spec => []PromisedOrigin
<1>1. Machine!Init => PromisedOrigin
  BY DEF Machine!Init, PromisedOrigin
<1>2. IndInv => NoRelease \notin published
  BY ReleaseAssumption DEF IndInv, TypeOK
<1>3. [Machine!Next]_Machine!pvars => published \subseteq published'
  BY DEF Machine!Next, Machine!pvars, Machine!Publish, Machine!Arrive,
         Machine!BecomeDefault, Machine!Record, Machine!Leave, Machine!Start
<1>4. /\ PromisedOrigin /\ IndInv /\ IndInv'
      /\ [Machine!Next]_Machine!pvars
      => PromisedOrigin'
  <2>1. IndInv' => NoRelease \notin published'
    BY ReleaseAssumption DEF IndInv, TypeOK
  <2>2. QED
    BY <1>2, <1>3, <2>1, PromisedStep
<1>5. QED
  BY <1>1, <1>4, Invariance, UpdaterKeepsMachinePromise, PTL
     DEF KeepsMachinePromise, Machine!Spec

\* The top-level entry moves only forward.
THEOREM GrubMovesForward == Spec => [][Forward]_grubTop
<1>1. IndInv => NoRelease \notin published
  BY ReleaseAssumption DEF IndInv, TypeOK
<1>2. PromisedOrigin /\ IndInv /\ [Machine!Next]_Machine!pvars => [Forward]_grubTop
  BY <1>1, PromisedStep
<1>3. QED
  BY <1>2, Invariance, InstalledFromProject, UpdaterKeepsMachinePromise, PTL
     DEF KeepsMachinePromise, Machine!Spec

-----------------------------------------------------------------------------
(* The record, whoever writes it.                                            *)

\* What a run records is behind neither the packages nor, therefore, the record.
LEMMA InstallKeepsSource ==
    ASSUME IndInv, NEW i \in Installers, Install(i) \/ InstallFault(i)
    PROVE  doc'.source >= doc.source \/ StaleWriteBack(i)
<1>1. doc \in Document /\ doc.source \in Nat
  BY ReleaseAssumption DEF IndInv, TypeOK, Document
<1>2. CASE InstallCommit(i) \/ InstallAlready(i)
  <2>1. doc'.source = target[i].src /\ pc[i] \in {"verified", "discarded"}
    <3>1. CASE InstallCommit(i)
      BY <3>1 DEF InstallCommit, At
    <3>2. CASE InstallAlready(i)
      <4>1. doc' = [doc EXCEPT !.offered = NoRelease, !.source = target[i].src]
        BY <3>2 DEF InstallAlready
      <4>2. QED
        BY <1>1, <3>2, <4>1 DEF InstallAlready, At, Document
    <3>3. QED
      BY <1>2, <3>1, <3>2
  <2>2. target[i] \in Release /\ \A p \in packages : p.src <= target[i].src
    BY <2>1 DEF IndInv, TargetKnown
  <2>3. /\ target[i].src \in Nat /\ \A p \in packages : p.src \in Nat
        /\ doc.source # 0 => \E p \in packages : p.src >= doc.source
    BY <2>2, ReleaseAssumption
       DEF IndInv, TypeOK, RecordBacked, Backed, Release, Source
  <2>4. QED
    BY <1>1, <2>1, <2>2, <2>3
<1>3. CASE InstallOffer(i) \/ InstallDefer(i) \/ InstallPackagesFail(i)
  BY <1>1, <1>3 DEF InstallOffer, InstallDefer, InstallPackagesFail, Offered,
     Document
<1>4. CASE InstallPrepare(i) \/ InstallRecordFailure(i)
  BY <1>1, <1>4 DEF InstallPrepare, InstallRecordFailure, WriteBack, At,
     StaleWriteBack
<1>5. CASE \/ InstallStart(i) \/ InstallBusy(i) \/ InstallLock(i)
           \/ InstallCopy(i) \/ InstallNothing(i) \/ InstallVerify(i)
           \/ InstallMismatch(i) \/ InstallRetire(i) \/ InstallReplace(i)
           \/ InstallKeep(i) \/ InstallUnpack(i) \/ InstallGrub(i)
           \/ InstallPrune(i) \/ InstallMark(i) \/ InstallDiscard(i)
           \/ InstallCleanUp(i) \/ InstallError(i) \/ InstallPruneFail(i)
           \/ InstallReplaceFail(i) \/ InstallInterrupted(i)
  <2>1. doc' = doc
    BY <1>5 DEF InstallStart, InstallBusy, InstallLock, InstallCopy,
       InstallNothing, InstallVerify, InstallMismatch, InstallRetire,
       InstallReplace, InstallKeep, InstallUnpack, InstallGrub, InstallPrune,
       InstallMark, InstallDiscard, InstallCleanUp, InstallError,
       InstallPruneFail, InstallReplaceFail, InstallInterrupted
  <2>2. QED
    BY <1>1, <2>1
<1>6. QED
  BY <1>2, <1>3, <1>4, <1>5 DEF Install, InstallEntry, InstallStep, InstallFault

\* However many root stages run, the recorded source version goes back only when
\* record_install_progress or the failure handler writes back a copy that
\* another one has since replaced: no commit and no clean-up records less.
THEOREM SourceLostByWriteBackOnly == Spec => SourceKept
<1>1. IndInv /\ [Next]_vars =>
         [doc'.source >= doc.source
            \/ \E i \in Installers : StaleWriteBack(i)]_vars
  <2> SUFFICES ASSUME IndInv, [Next]_vars
               PROVE  doc'.source >= doc.source
                        \/ \E i \in Installers : StaleWriteBack(i)
    OBVIOUS
  <2>1. doc.source \in Nat
    BY ReleaseAssumption DEF IndInv, TypeOK, Document
  <2>2. CASE \E i \in Installers : Install(i) \/ InstallFault(i)
    BY <2>2, InstallKeepsSource
  <2>3. CASE \/ \E c \in Checkers : CheckBegin(c) \/ CheckStep(c) \/ CheckFault(c)
             \/ \E r \in Release : Publish(r)
             \/ \E q \in Policies : SetPolicy(q)
             \/ \E q \in Procs : Killed(q)
             \/ \E k \in packages \cup {NoRelease} : Reboot(k)
             \/ UNCHANGED vars
    <3>1. doc' = doc
      BY <2>3, CheckFrame DEF Publish, SetPolicy, Killed, Reboot, vars
    <3>2. QED
      BY <2>1, <3>1
  <2>4. QED
    BY <2>2, <2>3 DEF Next, Progress, Fault
<1>2. QED
  BY <1>1, Invariance, PTL DEF Spec, SourceKept

-----------------------------------------------------------------------------
(* As long as the root stage runs once at a time, the controller implements  *)
(* KernelPromise, and never forgets a record.                                *)

LEMMA RecordOwnedInit == Init => RecordOwned
  BY ReleaseAssumption
     DEF Init, RecordOwned, Reads, Decided, NoDoc, Procs

\* A check does not touch state.json.
LEMMA CheckOwns ==
    ASSUME TypeOK, RecordOwned, NEW c \in Checkers,
           CheckBegin(c) \/ CheckStep(c) \/ CheckFault(c)
    PROVE  RecordOwned'
<1>1. UNCHANGED doc
  BY CheckFrame
<1>2. \A i \in Installers : i \in Procs /\ i # c
  BY ProcsAssumption DEF Procs
<1>3. \A i \in Installers :
         pc'[i] = pc[i] /\ target'[i] = target[i] /\ snap'[i] = snap[i]
  BY <1>2, CheckLocals
<1>4. QED
  BY <1>1, <1>3 DEF RecordOwned, Recorded, VariantUpdate

\* While one root stage takes a step, the others are and stay idle.
LEMMA OthersIdle ==
    ASSUME TypeOK, Alone, Alone', NEW i \in Installers,
           Install(i) \/ InstallFault(i), NEW j \in Installers, j # i
    PROVE  pc[j] = "idle" /\ pc'[j] = "idle"
<1>1. i \in Procs /\ j \in Procs
  BY DEF Procs
<1>2. pc'[j] = pc[j]
  BY <1>1, InstallFrame
<1>3. pc[i] # "idle" \/ pc'[i] # "idle"
  BY <1>1 DEF TypeOK, At, Goto, Exit, Install, InstallEntry, InstallStart,
     InstallPrepare, InstallBusy, InstallLock, InstallStep, InstallCopy,
     InstallNothing, InstallVerify, InstallMismatch, InstallAlready,
     InstallRetire, InstallReplace, InstallKeep, InstallOffer, InstallUnpack,
     InstallGrub, InstallPrune, InstallMark, InstallDiscard, InstallCommit,
     InstallCleanUp, InstallRecordFailure, InstallFault, InstallError,
     InstallDefer, InstallPackagesFail, InstallPruneFail, InstallReplaceFail,
     InstallInterrupted, Discarding, InstallInside
<1>4. QED
  BY <1>2, <1>3 DEF Alone

\* A run that is alone writes back what it has read, and what it has decided on
\* is not recorded.
LEMMA InstallOwns ==
    ASSUME IndInv, Alone, Alone', RecordOwned, NEW i \in Installers,
           Install(i) \/ InstallFault(i)
    PROVE  RecordOwned'
<1> DEFINE Own == /\ pc[i] \in Reads => snap[i] = doc
                  /\ pc[i] \in Decided => ~Recorded(target[i], doc)
<1>1. TypeOK /\ i \in Procs /\ i \notin Checkers
  BY ProcsAssumption DEF IndInv, Procs
<1>2. /\ doc.kernel # NoRelease => doc.kernel.src = doc.source
      /\ Own
  BY DEF RecordOwned
<1>3. /\ doc'.kernel # NoRelease => doc'.kernel.src = doc'.source
      /\ Own'
  <2> USE <1>1, <1>2 DEF Reads, Decided, At, Goto, TypeOK, procVars
  <2>1. CASE UNCHANGED doc /\ pc'[i] \notin Reads
    BY <2>1
  <2>2. CASE InstallStart(i) \/ InstallCopy(i) \/ InstallCleanUp(i)
    BY <2>2 DEF InstallStart, InstallCopy, InstallCleanUp
  <2>3. CASE InstallPrepare(i) \/ InstallRecordFailure(i)
    BY <2>3 DEF InstallPrepare, InstallRecordFailure, WriteBack, Exit
  <2>4. CASE InstallBusy(i) \/ InstallLock(i)
    BY <2>4 DEF InstallBusy, InstallLock, Exit
  <2>5. CASE InstallVerify(i)
    BY <2>5 DEF InstallVerify
  <2>6. CASE InstallRetire(i) \/ InstallKeep(i)
    BY <2>6 DEF InstallRetire, InstallKeep
  <2>7. CASE InstallReplace(i) \/ InstallUnpack(i) \/ InstallGrub(i)
    BY <2>7 DEF InstallReplace, InstallUnpack, InstallGrub
  <2>8. CASE InstallPrune(i) \/ InstallMark(i) \/ InstallDiscard(i)
    BY <2>8 DEF InstallPrune, InstallMark, InstallDiscard, kernelVars
  <2>9. CASE InstallNothing(i) \/ InstallMismatch(i)
    BY <2>9 DEF InstallNothing, InstallMismatch, Return, Raise, Exit
  <2>10. CASE InstallAlready(i)
    <3>1. snap[i] = doc /\ doc.source = target[i].src
      BY <2>10 DEF InstallAlready, Recorded
    <3>2. doc' = [doc EXCEPT !.offered = NoRelease, !.source = doc.source]
      BY <2>10, <3>1 DEF InstallAlready
    <3>3. doc'.kernel = doc.kernel /\ doc'.source = doc.source
      BY <3>2 DEF Document
    <3>4. pc'[i] = "idle"
      BY <2>10 DEF InstallAlready, Return, Exit
    <3>5. QED
      BY <3>3, <3>4
  <2>11. CASE InstallOffer(i) \/ InstallDefer(i) \/ InstallPackagesFail(i)
    <3>1. doc' = Offered(i) /\ pc'[i] \in {"idle", "failing"}
      BY <2>11 DEF InstallOffer, InstallDefer, InstallPackagesFail, Return,
         Raise, Exit
    <3>2. doc'.kernel = doc.kernel /\ doc'.source = doc.source
      BY <3>1 DEF Offered, Document
    <3>3. QED
      BY <3>1, <3>2
  <2>12. CASE InstallCommit(i)
    BY <2>12 DEF InstallCommit, Return, Exit
  <2>13. CASE \/ InstallError(i) \/ InstallPruneFail(i)
              \/ InstallReplaceFail(i) \/ InstallInterrupted(i)
    BY <2>13 DEF InstallError, InstallPruneFail, InstallReplaceFail,
       InstallInterrupted, Return, Raise, Exit
  <2>14. QED
    BY <2>2, <2>3, <2>4, <2>5, <2>6, <2>7, <2>8, <2>9, <2>10, <2>11, <2>12,
       <2>13 DEF Install, InstallEntry, InstallStep, InstallFault
<1>4. \A j \in Installers : j # i => pc'[j] = "idle"
  BY <1>1, OthersIdle
<1>5. QED
  BY <1>3, <1>4 DEF RecordOwned, Reads, Decided

\* A process that is killed forgets what it had read.
LEMMA SurroundingsOwn ==
    ASSUME TypeOK, RecordOwned,
           \/ \E r \in Release : Publish(r)
           \/ \E q \in Policies : SetPolicy(q)
           \/ \E q \in Procs : Killed(q)
           \/ \E k \in packages \cup {NoRelease} : Reboot(k)
    PROVE  RecordOwned'
<1>1. doc' = doc
  BY DEF Publish, SetPolicy, Killed, Reboot
<1>2. \A p \in Procs :
        \/ pc'[p] = pc[p] /\ target'[p] = target[p] /\ snap'[p] = snap[p]
        \/ pc'[p] = "idle"
  BY DEF Publish, SetPolicy, Killed, Reboot, Exit, Goto, TypeOK, procVars
<1>3. QED
  BY <1>1, <1>2 DEF RecordOwned, Procs, Reads, Decided, Recorded, VariantUpdate

\* What a run is about to install is not behind what is recorded; what it is
\* about to record is later.
LEMMA DecidedIsLater ==
    ASSUME IndInv, FromProject, RecordOwned,
           NEW i \in Installers, pc[i] \in Decided
    PROVE  /\ doc.source <= target[i].src
           /\ doc.kernel # NoRelease =>
                /\ doc.kernel.src = doc.source
                /\ Newer(target[i], doc.kernel)
<1>1. target[i] \in Release /\ \A p \in packages : p.src <= target[i].src
  BY DEF IndInv, TargetKnown, Decided, Reads
<1>2. packages \subseteq Release /\ doc \in Document
  BY DEF IndInv, TypeOK
<1>3. /\ target[i].src \in Nat /\ doc.source \in Nat
      /\ \A p \in packages : p.src \in Nat
  BY <1>1, <1>2, ReleaseAssumption DEF Release, Source, Document
<1>4. doc.source <= target[i].src
  BY <1>1, <1>3 DEF IndInv, RecordBacked, Backed
<1>5. ~Recorded(target[i], doc)
      /\ (doc.kernel # NoRelease => doc.kernel.src = doc.source)
  BY DEF RecordOwned
<1>6. doc.kernel # NoRelease => Newer(target[i], doc.kernel)
  BY <1>3, <1>4, <1>5 DEF Recorded, VariantUpdate, Newer
<1>7. QED
  BY <1>4, <1>5, <1>6

\* Nothing KernelPromise speaks of is changed by a check.
LEMMA CheckPromises ==
    ASSUME TypeOK, FromProject, NEW c \in Checkers,
           CheckBegin(c) \/ CheckStep(c) \/ CheckFault(c)
    PROVE  UNCHANGED Promise!pvars /\ UNCHANGED doc
<1>1. UNCHANGED <<doc, packages, grubTop, running>>
  BY CheckFrame
<1>2. published' = published
  BY CheckFromProject
<1>3. QED
  BY <1>1, <1>2 DEF Promise!pvars

\* The step of RecordNeverRegresses.
RecordKept ==
    /\ doc'.source >= doc.source
    /\ doc.kernel # NoRelease =>
         doc'.kernel # NoRelease /\ ~Newer(doc.kernel, doc'.kernel)

\* A step that writes back the recorded release and source has kept the record.
LEMMA SameRecord ==
    ASSUME TypeOK, doc'.source = doc.source, doc'.kernel = doc.kernel
    PROVE  RecordKept
<1>1. doc.source \in Nat /\ doc.kernel \in MaybeRelease
  BY ReleaseAssumption DEF TypeOK, Document
<1>2. doc.kernel # NoRelease => doc.kernel.src \in Nat /\ doc.kernel.var \in Nat
  BY <1>1, ReleaseAssumption DEF MaybeRelease, Release, Source
<1>3. QED
  BY <1>1, <1>2 DEF RecordKept, Newer

\* Unpacking is an arrival, the GRUB change makes a default, pruning lets leave
\* what nothing needs, the commit records; every other step of a run, the ones
\* that fail included, is a stutter of KernelPromise.
LEMMA InstallPromises ==
    ASSUME IndInv, FromProject, RecordOwned, NEW i \in Installers,
           Install(i) \/ InstallFault(i)
    PROVE  [Promise!Next]_(Promise!pvars) /\ RecordKept
<1>1. TypeOK /\ (pc[i] \in Reads => snap[i] = doc)
  BY DEF IndInv, RecordOwned
<1>2. ASSUME UNCHANGED <<published, packages, grubTop, running>>,
             doc'.source = doc.source, doc'.kernel = doc.kernel
      PROVE  [Promise!Next]_(Promise!pvars) /\ RecordKept
  BY <1>1, <1>2, SameRecord DEF Promise!pvars
<1>3. CASE InstallUnpack(i)
  <2>1. /\ packages' = packages \cup {target[i]}
        /\ UNCHANGED <<published, grubTop, running, doc>>
        /\ pc[i] \in Decided
    BY <1>3 DEF InstallUnpack, At, Decided, Reads
  <2>2. Promise!Arrive(target[i])
    BY <2>1, DecidedIsForward, DecidedIsLater, <1>1, ReleaseAssumption
       DEF Promise!Arrive, Promise!Behind, Release, Source, TypeOK, Document
  <2>3. QED
    BY <2>1, <2>2, DecidedIsForward, SameRecord, <1>1 DEF Promise!Next
<1>4. CASE InstallGrub(i)
  <2>1. /\ grubTop' = target[i]
        /\ UNCHANGED <<published, packages, running, doc>>
        /\ pc[i] \in Decided /\ target[i] \in packages
    BY <1>4 DEF InstallGrub, At, Decided, Reads, IndInv, TargetKnown
  <2>2. Promise!BecomeDefault(target[i])
    BY <2>1, DecidedIsForward DEF Promise!BecomeDefault, Promise!Behind
  <2>3. QED
    BY <2>1, <2>2, SameRecord, <1>1 DEF Promise!Next
<1>5. CASE InstallPrune(i) \/ InstallPruneFail(i)
  <2>1. /\ packages' = Retained(target[i])
        /\ UNCHANGED <<published, grubTop, running, doc>>
        /\ grubTop = target[i]
    BY <1>5 DEF InstallPrune, InstallPruneFail, At, IndInv, TargetKnown
  <2>2. Promise!Leave
    BY <2>1, RetainedKeeps DEF Promise!Leave
  <2>3. QED
    BY <2>1, <2>2, SameRecord, <1>1 DEF Promise!Next
<1>6. CASE InstallCommit(i)
  <2>1. /\ doc'.kernel = target[i] /\ doc'.source = target[i].src
        /\ UNCHANGED <<published, packages, grubTop, running>>
        /\ pc[i] \in Decided /\ target[i] \in packages /\ grubTop = target[i]
    BY <1>6 DEF InstallCommit, At, Decided, Reads, IndInv, TargetKnown, kernelVars
  <2>2. Promise!Record(target[i])
    BY <2>1, DecidedIsLater
       DEF Promise!Record, Promise!Before, Promise!Behind, Newer
  <2>3. RecordKept
    <3>1. target[i] # NoRelease /\ target[i].src \in Nat /\ target[i].var \in Nat
      BY <2>1, DecidedIsForward, ReleaseAssumption DEF Release, Source
    <3>2. doc.kernel # NoRelease => doc.kernel.src \in Nat /\ doc.kernel.var \in Nat
      BY <1>1, ReleaseAssumption DEF TypeOK, Document, MaybeRelease, Release, Source
    <3>3. doc.source \in Nat
      BY <1>1, ReleaseAssumption DEF TypeOK, Document
    <3>4. QED
      BY <2>1, DecidedIsLater, <3>1, <3>2, <3>3 DEF RecordKept, Newer
  <2>4. QED
    BY <2>1, <2>2, <2>3 DEF Promise!Next
<1>7. CASE InstallAlready(i)
  <2>1. /\ snap[i] = doc /\ doc.source = target[i].src
        /\ doc' = [doc EXCEPT !.offered = NoRelease, !.source = target[i].src]
        /\ UNCHANGED <<published, packages, grubTop, running>>
    BY <1>1, <1>7 DEF InstallAlready, Recorded, Reads, At, kernelVars
  <2>2. doc'.source = doc.source /\ doc'.kernel = doc.kernel
    BY <1>1, <2>1 DEF TypeOK, Document
  <2>3. QED
    BY <1>2, <2>1, <2>2
<1>8. CASE InstallOffer(i) \/ InstallDefer(i) \/ InstallPackagesFail(i)
  <2>1. doc' = Offered(i) /\ UNCHANGED <<published, packages, grubTop, running>>
    BY <1>8 DEF InstallOffer, InstallDefer, InstallPackagesFail, kernelVars
  <2>2. doc'.source = doc.source /\ doc'.kernel = doc.kernel
    BY <1>1, <2>1 DEF Offered, TypeOK, Document
  <2>3. QED
    BY <1>2, <2>1, <2>2
<1>9. CASE InstallPrepare(i) \/ InstallRecordFailure(i)
  <2>1. doc' = doc /\ UNCHANGED <<published, packages, grubTop, running>>
    BY <1>1, <1>9 DEF InstallPrepare, InstallRecordFailure, WriteBack, At, Reads,
       kernelVars
  <2>2. QED
    BY <1>2, <2>1
<1>10. CASE \/ InstallStart(i) \/ InstallBusy(i) \/ InstallLock(i)
            \/ InstallCopy(i) \/ InstallNothing(i) \/ InstallVerify(i)
            \/ InstallMismatch(i) \/ InstallRetire(i) \/ InstallReplace(i)
            \/ InstallKeep(i) \/ InstallMark(i) \/ InstallDiscard(i)
            \/ InstallCleanUp(i) \/ InstallError(i) \/ InstallReplaceFail(i)
            \/ InstallInterrupted(i)
  <2>1. UNCHANGED <<published, packages, grubTop, running, doc>>
    BY <1>10 DEF InstallStart, InstallBusy, InstallLock, InstallCopy,
       InstallNothing, InstallVerify, InstallMismatch, InstallRetire,
       InstallReplace, InstallKeep, InstallMark, InstallDiscard, InstallCleanUp,
       InstallError, InstallReplaceFail, InstallInterrupted, kernelVars
  <2>2. QED
    BY <1>2, <2>1
<1>11. QED
  BY <1>3, <1>4, <1>5, <1>6, <1>7, <1>8, <1>9, <1>10
     DEF Install, InstallEntry, InstallStep, InstallFault

\* A publication and a reboot are steps of KernelPromise, the rest stutters.
LEMMA SurroundingsPromise ==
    ASSUME TypeOK,
           \/ \E r \in Release : Publish(r)
           \/ \E q \in Policies : SetPolicy(q)
           \/ \E q \in Procs : Killed(q)
           \/ \E k \in packages \cup {NoRelease} : Reboot(k)
    PROVE  [Promise!Next]_(Promise!pvars) /\ RecordKept
<1>1. doc' = doc
  BY DEF Publish, SetPolicy, Killed, Reboot
<1>2. RecordKept
  BY <1>1, SameRecord
<1>3. ASSUME NEW r \in Release, Publish(r)
      PROVE  Promise!Publish
  BY <1>3, <1>1 DEF Publish, Promise!Publish, Promise!Release, Release, Source,
     kernelVars
<1>4. CASE \/ \E q \in Policies : SetPolicy(q)
           \/ \E q \in Procs : Killed(q)
  BY <1>4, <1>1, <1>2 DEF SetPolicy, Killed, Promise!pvars, kernelVars
<1>5. ASSUME NEW k \in packages \cup {NoRelease}, Reboot(k)
      PROVE  Promise!Start(k)
  BY <1>5, <1>1 DEF Reboot, Promise!Start
<1>6. QED
  BY <1>2, <1>3, <1>4, <1>5 DEF Promise!Next

\* The inductive step: one case for each kind of step of the controller.
LEMMA PromiseStep ==
    ASSUME IndInv, FromProject, Alone, Alone', RecordOwned, [Next]_vars
    PROVE  RecordOwned' /\ [Promise!Next]_(Promise!pvars) /\ RecordKept
<1>1. TypeOK
  BY DEF IndInv
<1>2. CASE \E c \in Checkers : CheckBegin(c) \/ CheckStep(c) \/ CheckFault(c)
  BY <1>1, <1>2, CheckOwns, CheckPromises, SameRecord
<1>3. CASE \E i \in Installers : Install(i) \/ InstallFault(i)
  BY <1>3, InstallOwns, InstallPromises
<1>4. CASE \/ \E r \in Release : Publish(r)
           \/ \E q \in Policies : SetPolicy(q)
           \/ \E q \in Procs : Killed(q)
           \/ \E k \in packages \cup {NoRelease} : Reboot(k)
  BY <1>1, <1>4, SurroundingsOwn, SurroundingsPromise
<1>5. CASE UNCHANGED vars
  <2>1. UNCHANGED Promise!pvars /\ UNCHANGED doc
    BY <1>5 DEF vars, kernelVars, Promise!pvars
  <2>2. RecordOwned'
    BY <1>5 DEF vars, procVars, RecordOwned, Recorded, VariantUpdate
  <2>3. QED
    BY <1>1, <2>1, <2>2, SameRecord
<1>6. QED
  BY <1>2, <1>3, <1>4, <1>5 DEF Next, Progress, Fault

\* As long as no two root stages run at a time - however many checks, crashes,
\* failures and restarts - the updater does nothing that KernelPromise does not
\* allow.
THEOREM UpdaterKeepsPromise == Spec /\ []Alone => KeepsPromise
<1>1. Init => Promise!Init
  <2> SUFFICES ASSUME Init PROVE Promise!Init
    OBVIOUS
  <2>1. Machine!Init
    BY MachineInit
  <2>2. doc.kernel = NoRelease
    BY DEF Init, NoDoc
  <2>3. QED
    BY <2>1, <2>2 DEF Promise!Init, Machine!Init, Promise!Release, Machine!Release
<1>2. IndInv /\ FromProject /\ Alone /\ Alone' /\ RecordOwned /\ [Next]_vars
        => RecordOwned' /\ [Promise!Next]_(Promise!pvars)
  BY PromiseStep
<1>3. QED
  BY <1>1, <1>2, RecordOwnedInit, Invariance, OnlyProjectReleases, PTL
     DEF Spec, KeepsPromise, Promise!Spec

\* As long as no two root stages run at a time state.json never goes back to an
\* older release and never forgets the installed one, whatever fails or crashes.
THEOREM RecordStays == Spec /\ []Alone => RecordNeverRegresses
<1>1. IndInv /\ FromProject /\ Alone /\ Alone' /\ RecordOwned /\ [Next]_vars
        => RecordOwned' /\ [RecordKept]_vars
  BY PromiseStep
<1>2. QED
  BY <1>1, RecordOwnedInit, Invariance, OnlyProjectReleases, PTL
     DEF Spec, RecordNeverRegresses, RecordKept

-----------------------------------------------------------------------------
(* The updater as systemd and the Manager run it *)

\* The timer, the order of the two units and the bound on disturbances take
\* behaviours away and add none: what is proved of the updater holds of it.
THEOREM ScheduleRefines == SSpec => Spec
<1>1. SInit => Init
  BY DEF SInit
<1>2. [SNext]_svars => [Next]_vars
  <2>1. CASE ScheduledStart
    BY <2>1 DEF ScheduledStart, Next, Progress, Install, InstallEntry
  <2>2. CASE ScheduledStep
    BY <2>2 DEF ScheduledStep, Next, Progress, Install, InstallEntry
  <2>3. CASE Disturbance
    BY <2>3 DEF Disturbance, Next, Progress
  <2>4. CASE UNCHANGED svars
    BY <2>4 DEF svars
  <2>5. QED
    BY <2>1, <2>2, <2>3, <2>4 DEF SNext
<1>3. QED
  BY <1>1, <1>2, PTL DEF SSpec, Spec

\* In particular the invariant and what the machine is promised.
THEOREM ScheduleIsSafe == SSpec => []IndInv /\ []FromProject /\ KeepsMachinePromise
  BY ScheduleRefines, Invariance, OnlyProjectReleases, UpdaterKeepsMachinePromise,
     PTL
=============================================================================
