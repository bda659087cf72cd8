----------------------------- MODULE TpmBootProofs -----------------------------
(***************************************************************************)
(* Proofs about the TPM boot setup, for any number of tokens: TpmInv, the  *)
(* type invariant with what each step may rely on and the properties, is   *)
(* preserved by every action.                                              *)
(***************************************************************************)
EXTENDS TpmBoot, TLAPS

\* Every initial state satisfies the invariant.
LEMMA TpmInit == Init => TpmInv
  <1> SUFFICES ASSUME Init PROVE TpmInv
    OBVIOUS
  <1> USE DEF Init
  <1>1. TypeOK
    BY DEF TypeOK, Images, Entries, Steps, Outcomes
  <1>2. RunShape /\ BootImage /\ PreviousImageKept /\ Configured
    BY <1>1 DEF TypeOK, RunShape, BootImage, PreviousImageKept, Configured, Images
  <1>3. QED
    BY <1>1, <1>2 DEF TpmInv

\* Every step preserves the types.
LEMMA TypeStep == TpmInv /\ [Next]_vars => TypeOK'
  <1> SUFFICES ASSUME TpmInv, [Next]_vars PROVE TypeOK'
    OBVIOUS
  <1> USE DEF TpmInv, TypeOK, RunShape, Images, Entries, Steps, Outcomes, Goto,
              luksVars, bootVars, runVars
  <1>1. CASE Begin
    BY <1>1 DEF Begin
  <1>2. CASE Prove
    BY <1>2 DEF Prove
  <1>3. CASE SaveHeader
    BY <1>3 DEF SaveHeader
  <1>4. CASE Enroll
    BY <1>4 DEF Enroll, Enrolling
  <1>5. CASE TryToken
    BY <1>5 DEF TryToken
  <1>6. CASE EnrollFail
    BY <1>6 DEF EnrollFail, Enrolling, End
  <1>7. CASE Refuse
    BY <1>7 DEF Refuse, End
  <1>8. CASE List
    BY <1>8 DEF List
  <1>9. CASE Build
    BY <1>9 DEF Build
  <1>10. CASE Check
    BY <1>10 DEF Check
  <1>11. CASE Link
    BY <1>11 DEF Link
  <1>12. CASE Replace
    <2>1. [entry |-> "tpm", complete |-> TRUE] \in Images
      BY <1>12 DEF Replace
    <2>2. initrd' \in Images
      BY <1>12, <2>1 DEF Replace
    <2>3. QED
      BY <1>12, <2>1, <2>2 DEF Replace
  <1>13. CASE Finish
    BY <1>13 DEF Finish, End
  <1>14. CASE ListFail
    BY <1>14 DEF ListFail, End
  <1>15. CASE BuildFail
    BY <1>15 DEF BuildFail, Abort, End
  <1>16. CASE FinishFail
    BY <1>16 DEF FinishFail
  <1>17. CASE Revert
    BY <1>17 DEF Revert, Abort, End
  <1>18. CASE RevertFail
    BY <1>18 DEF RevertFail, Abort, End
  <1>19. CASE Restore
    BY <1>19 DEF Restore, End
  <1>20. CASE RestoreFail
    BY <1>20 DEF RestoreFail, End
  <1>21. CASE Killed
    BY <1>21 DEF Killed, End
  <1>22. CASE Reboot
    BY <1>22 DEF Reboot
  <1>23. CASE UNCHANGED vars
    BY <1>23 DEF vars
  <1>24. QED
    BY <1>1, <1>2, <1>3, <1>4, <1>5, <1>6, <1>7, <1>8, <1>9, <1>10, <1>11,
       <1>12, <1>13, <1>14, <1>15, <1>16, <1>17, <1>18, <1>19, <1>20, <1>21,
       <1>22, <1>23 DEF Next, EnrollToken, ConfigureBoot

\* Every step preserves what the next one relies on, and the properties.
LEMMA TpmStep == TpmInv /\ TypeOK' /\ [Next]_vars => TpmInv'
  <1> SUFFICES ASSUME TpmInv, TypeOK', [Next]_vars PROVE TpmInv'
    OBVIOUS
  <1> USE TpmAssumption
      DEF TpmInv, TypeOK, RunShape, BootImage, PreviousImageKept, Configured,
          Images, Entries, Steps, Outcomes, Goto, luksVars, bootVars, runVars
  <1>1. CASE Begin
    BY <1>1 DEF Begin
  <1>2. CASE Prove
    BY <1>2 DEF Prove
  <1>3. CASE SaveHeader
    BY <1>3 DEF SaveHeader
  <1>4. CASE Enroll
    BY <1>4 DEF Enroll, Enrolling
  <1>5. CASE TryToken
    BY <1>5 DEF TryToken
  <1>6. CASE EnrollFail
    BY <1>6 DEF EnrollFail, Enrolling, End
  <1>7. CASE Refuse
    BY <1>7 DEF Refuse, End
  <1>8. CASE List
    BY <1>8 DEF List
  <1>9. CASE Build
    BY <1>9 DEF Build
  <1>10. CASE Check
    BY <1>10 DEF Check
  <1>11. CASE Link
    BY <1>11 DEF Link
  <1>12. CASE Replace
    BY <1>12 DEF Replace
  <1>13. CASE Finish
    BY <1>13 DEF Finish, End
  <1>14. CASE ListFail
    BY <1>14 DEF ListFail, End
  <1>15. CASE BuildFail
    BY <1>15 DEF BuildFail, Abort, End
  <1>16. CASE FinishFail
    BY <1>16 DEF FinishFail
  <1>17. CASE Revert
    BY <1>17 DEF Revert, Abort, End
  <1>18. CASE RevertFail
    BY <1>18 DEF RevertFail, Abort, End
  <1>19. CASE Restore
    BY <1>19 DEF Restore, End
  <1>20. CASE RestoreFail
    BY <1>20 DEF RestoreFail, End
  <1>21. CASE Killed
    BY <1>21 DEF Killed, End
  <1>22. CASE Reboot
    BY <1>22 DEF Reboot
  <1>23. CASE UNCHANGED vars
    BY <1>23 DEF vars
  <1>24. QED
    BY <1>1, <1>2, <1>3, <1>4, <1>5, <1>6, <1>7, <1>8, <1>9, <1>10, <1>11,
       <1>12, <1>13, <1>14, <1>15, <1>16, <1>17, <1>18, <1>19, <1>20, <1>21,
       <1>22, <1>23 DEF Next, EnrollToken, ConfigureBoot

\* TpmInv is an invariant.
LEMMA TpmInvariant == Spec => []TpmInv
  BY TpmInit, TypeStep, TpmStep, PTL DEF Spec

\* Every variable keeps its type.
THEOREM TpmTypes == Spec => []TypeOK
  BY TpmInvariant, PTL DEF TpmInv

\* The machine always finds a complete initramfs, whatever fails.
THEOREM BootImageStays == Spec => []BootImage
  BY TpmInvariant, PTL DEF TpmInv

\* The initramfs that an enrollment found is kept until it reports success.
THEOREM PreviousImageStays == Spec => []PreviousImageKept
  BY TpmInvariant, PTL DEF TpmInv

\* An enrollment that reports success leaves a working token, a crypttab and an
\* initramfs that use it.
THEOREM SuccessIsConfigured == Spec => []Configured
  BY TpmInvariant, PTL DEF TpmInv

\* The header changes only when no token works and after it was saved.
THEOREM EnrollmentIsJustified == Spec => EnrollmentJustified
  <1>1. TpmInv /\ [Next]_vars => [tokens' # tokens => sealed = {} /\ tokens \in headers]_vars
    <2> SUFFICES ASSUME TpmInv, Next, tokens' # tokens
                 PROVE  sealed = {} /\ tokens \in headers
      BY DEF vars, luksVars
    <2>1. pc = "saved"
      BY DEF Next, EnrollToken, ConfigureBoot, luksVars, Begin, Prove, SaveHeader,
             Enroll, TryToken, EnrollFail, Refuse, List, Build, Check, Link,
             Replace, Finish, ListFail, BuildFail, FinishFail, Revert,
             RevertFail, Restore, RestoreFail, Killed, Reboot
    <2>2. QED
      BY <2>1 DEF TpmInv, RunShape
  <1>2. QED
    BY <1>1, TpmInvariant, PTL DEF Spec, EnrollmentJustified
=============================================================================
