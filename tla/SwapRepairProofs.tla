---------------------------- MODULE SwapRepairProofs ----------------------------
(***************************************************************************)
(* Proofs about the swap repair, for any number of files.  FilesInv says   *)
(* where the old and the new file are at each step; SwapInv adds what is   *)
(* active and listed, and the properties.  Each is shown to be preserved,  *)
(* action by action.                                                       *)
(***************************************************************************)
EXTENDS SwapRepair, TLAPS

LEMMA FilesInit == Init => FilesInv
  <1> SUFFICES ASSUME Init PROVE FilesInv
    OBVIOUS
  <1> USE SwapAssumption DEF Init, MaybeFile, NothingFound
  <1>1. formatted \subseteq Files /\ active \subseteq Files
    OBVIOUS
  <1>2. TypeOK
    BY <1>1 DEF TypeOK, Lines, Steps, Rollback
  <1>3. RunShape
    BY DEF RunShape, Steps
  <1>4. QED
    BY <1>2, <1>3 DEF FilesInv

\* The rollback and the repair keep the files where the except clause looks
\* for them.
LEMMA FilesStep == FilesInv /\ [Next]_vars => FilesInv'
  <1> SUFFICES ASSUME FilesInv, [Next]_vars PROVE FilesInv'
    OBVIOUS
  <1> USE SwapAssumption
       DEF FilesInv, TypeOK, RunShape, Linked, MaybeFile, Lines, Steps,
           Rollback, Goto
  <1>1. CASE Begin
    <2>1. TypeOK'
      <3>1. before' = [img |-> img, fstab |-> fstab, active |-> img \in active]
        BY <1>1 DEF Begin
      <3>2. (img \in active) \in BOOLEAN
        OBVIOUS
      <3>3. before' \in [img : MaybeFile, fstab : Lines, active : BOOLEAN]
        BY <3>1, <3>2
      <3>4. QED
        BY <1>1, <3>3 DEF Begin, fileVars, runVars
    <2>2. RunShape'
    BY <1>1 DEF Begin, fileVars, runVars
    <2>3. QED
      BY <2>1, <2>2
  <1>2. CASE Format
    BY <1>2 DEF Format, fileVars, runVars
  <1>3. CASE SwapOff
    BY <1>3 DEF SwapOff, fileVars, runVars
  <1>4. CASE Retire
    BY <1>4 DEF Retire, fileVars, runVars
  <1>5. CASE Place
    BY <1>5 DEF Place, fileVars, runVars
  <1>6. CASE List
    BY <1>6 DEF List, fileVars, runVars
  <1>7. CASE Enable
    BY <1>7 DEF Enable, fileVars, runVars
  <1>8. CASE Drop
    BY <1>8 DEF Drop, End, fileVars, runVars
  <1>9. CASE SwapOffFail
    <2>1. TypeOK'
    BY <1>9 DEF SwapOffFail, Fail, fileVars, runVars
    <2>2. RunShape'
    BY <1>9 DEF SwapOffFail, Fail, fileVars, runVars
    <2>3. QED
      BY <2>1, <2>2
  <1>10. CASE ListFail
    BY <1>10 DEF ListFail, Fail, fileVars, runVars
  <1>11. CASE EnableFail
    <2>1. TypeOK'
    BY <1>11 DEF EnableFail, Fail, fileVars, runVars
    <2>2. RunShape'
    BY <1>11 DEF EnableFail, Fail, fileVars, runVars
    <2>3. QED
      BY <2>1, <2>2
  <1>12. CASE CallFail
    BY <1>12 DEF CallFail, Fail, fileVars, runVars
  <1>13. CASE Deactivate
    BY <1>13 DEF Deactivate, fileVars, runVars
  <1>14. CASE Restore
    BY <1>14 DEF Restore, fileVars, runVars
  <1>15. CASE Unlink
    BY <1>15 DEF Unlink, fileVars, runVars
  <1>16. CASE Bring
    BY <1>16 DEF Bring, fileVars, runVars
  <1>17. CASE Reactivate
    BY <1>17 DEF Reactivate, End, fileVars, runVars
  <1>18. CASE DeactivateFail
    BY <1>18 DEF DeactivateFail, End, fileVars, runVars
  <1>19. CASE RestoreFail
    <2>1. TypeOK'
    BY <1>19 DEF RestoreFail, fileVars, runVars
    <2>2. RunShape'
    BY <1>19 DEF RestoreFail, fileVars, runVars
    <2>3. QED
      BY <2>1, <2>2
  <1>20. CASE UnlinkFail
    BY <1>20 DEF UnlinkFail, fileVars, runVars
  <1>21. CASE BringFail
    BY <1>21 DEF BringFail, fileVars, runVars
  <1>22. CASE ReactivateFail
    BY <1>22 DEF ReactivateFail, End, fileVars, runVars
  <1>23. CASE Killed
    BY <1>23 DEF Killed, End, fileVars, runVars
  <1>24. CASE Reboot
    BY <1>24 DEF Reboot, End, fileVars, runVars
  <1>25. CASE UNCHANGED vars
    BY <1>25 DEF vars, fileVars, runVars
  <1>26. QED
    BY <1>1, <1>2, <1>3, <1>4, <1>5, <1>6, <1>7, <1>8, <1>9, <1>10, <1>11,
       <1>12, <1>13, <1>14, <1>15, <1>16, <1>17, <1>18, <1>19, <1>20, <1>21,
       <1>22, <1>23, <1>24, <1>25
       DEF Next, Repair, Undo

\* FilesInv is an invariant.
LEMMA FilesInvariant == Spec => []FilesInv
  BY FilesInit, FilesStep, PTL DEF Spec

LEMMA SwapInit == Init => SwapInv
  BY SwapAssumption
     DEF Init, SwapInv, ActiveShape, PreviousKept, RolledBack, Repaired,
         Linked, MaybeFile, Steps, Rollback, NothingFound

\* What is active stays at /swap.img, and the rollback ends where the run began.
LEMMA SwapStep == FilesInv /\ SwapInv /\ [Next]_vars => SwapInv'
  <1> SUFFICES ASSUME FilesInv, SwapInv, [Next]_vars PROVE SwapInv'
    OBVIOUS
  <1> USE SwapAssumption
       DEF FilesInv, TypeOK, RunShape, Linked, MaybeFile, Lines, Steps,
           Rollback, Goto, SwapInv, ActiveShape, PreviousKept,
           RolledBack, Repaired
  <1>1. CASE Begin
    BY <1>1 DEF Begin, fileVars, runVars
  <1>2. CASE Format
    BY <1>2 DEF Format, fileVars, runVars
  <1>3. CASE SwapOff
    BY <1>3 DEF SwapOff, fileVars, runVars
  <1>4. CASE Retire
    BY <1>4 DEF Retire, fileVars, runVars
  <1>5. CASE Place
    BY <1>5 DEF Place, fileVars, runVars
  <1>6. CASE List
    BY <1>6 DEF List, fileVars, runVars
  <1>7. CASE Enable
    BY <1>7 DEF Enable, fileVars, runVars
  <1>8. CASE Drop
    <2>1. ActiveShape'
    BY <1>8 DEF Drop, End, fileVars, runVars
    <2>2. PreviousKept'
    BY <1>8 DEF Drop, End, fileVars, runVars
    <2>3. RolledBack'
    BY <1>8 DEF Drop, End, fileVars, runVars
    <2>4. Repaired'
    BY <1>8 DEF Drop, End, fileVars, runVars
    <2>5. QED
      BY <2>1, <2>2, <2>3, <2>4
  <1>9. CASE SwapOffFail
    BY <1>9 DEF SwapOffFail, Fail, fileVars, runVars
  <1>10. CASE ListFail
    BY <1>10 DEF ListFail, Fail, fileVars, runVars
  <1>11. CASE EnableFail
    BY <1>11 DEF EnableFail, Fail, fileVars, runVars
  <1>12. CASE CallFail
    BY <1>12 DEF CallFail, Fail, fileVars, runVars
  <1>13. CASE Deactivate
    BY <1>13 DEF Deactivate, fileVars, runVars
  <1>14. CASE Restore
    BY <1>14 DEF Restore, fileVars, runVars
  <1>15. CASE Unlink
    BY <1>15 DEF Unlink, fileVars, runVars
  <1>16. CASE Bring
    BY <1>16 DEF Bring, fileVars, runVars
  <1>17. CASE Reactivate
    <2>1. ActiveShape'
    BY <1>17 DEF Reactivate, End, fileVars, runVars
    <2>2. PreviousKept'
    BY <1>17 DEF Reactivate, End, fileVars, runVars
    <2>3. RolledBack'
    BY <1>17 DEF Reactivate, End, fileVars, runVars
    <2>4. Repaired'
    BY <1>17 DEF Reactivate, End, fileVars, runVars
    <2>5. QED
      BY <2>1, <2>2, <2>3, <2>4
  <1>18. CASE DeactivateFail
    BY <1>18 DEF DeactivateFail, End, fileVars, runVars
  <1>19. CASE RestoreFail
    BY <1>19 DEF RestoreFail, fileVars, runVars
  <1>20. CASE UnlinkFail
    BY <1>20 DEF UnlinkFail, fileVars, runVars
  <1>21. CASE BringFail
    BY <1>21 DEF BringFail, fileVars, runVars
  <1>22. CASE ReactivateFail
    BY <1>22 DEF ReactivateFail, End, fileVars, runVars
  <1>23. CASE Killed
    BY <1>23 DEF Killed, End, fileVars, runVars
  <1>24. CASE Reboot
    BY <1>24 DEF Reboot, End, fileVars, runVars
  <1>25. CASE UNCHANGED vars
    BY <1>25 DEF vars, fileVars, runVars
  <1>26. QED
    BY <1>1, <1>2, <1>3, <1>4, <1>5, <1>6, <1>7, <1>8, <1>9, <1>10, <1>11,
       <1>12, <1>13, <1>14, <1>15, <1>16, <1>17, <1>18, <1>19, <1>20, <1>21,
       <1>22, <1>23, <1>24, <1>25
       DEF Next, Repair, Undo

\* Every variable keeps its type.
THEOREM SwapTypes == Spec => []TypeOK
  BY FilesInvariant, PTL DEF FilesInv

\* Both inductive invariants hold of every run.
LEMMA SwapInvariant == Spec => []SwapInv
  BY FilesInvariant, SwapInit, SwapStep, PTL DEF Spec

\* The swap file that a repair found is never deleted before its replacement is
\* in use, whatever fails, with or without effect, and wherever the run ends.
THEOREM PreviousIsKept == Spec => []PreviousKept
  BY SwapInvariant, PTL DEF SwapInv

\* A failed repair that reports no rollback error restored what it found.
THEOREM RollbackRestores == Spec => []RolledBack
  BY SwapInvariant, PTL DEF SwapInv

\* A repair that reports success replaced the file, its line and what is in use.
THEOREM RepairReplaces == Spec => []Repaired
  BY SwapInvariant, PTL DEF SwapInv
=============================================================================
