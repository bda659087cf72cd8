-------------------------- MODULE ManagerHelperProofs --------------------------
(***************************************************************************)
(* Proofs about the Manager's helper: under its lock, TPM and MOK          *)
(* enrollment behave as each does alone, so that what is proved of one     *)
(* holds of the helper.                                                    *)
(***************************************************************************)
EXTENDS ManagerHelper, TpmBootProofs, MokEnrollmentProofs

\* Every step of the helper is a step of the TPM enrollment or changes nothing
\* of it, and likewise for the MOK enrollment.
LEMMA HelperSteps ==
    ASSUME [HNext]_hvars
    PROVE  [Next]_vars /\ [MokNext]_mokVars
<1>1. CASE EnrollTpm
  BY <1>1 DEF EnrollTpm, Next
<1>2. CASE ChangeMok
  BY <1>2 DEF ChangeMok, MokNext
<1>3. CASE VerifyTpm
  BY <1>3 DEF VerifyTpm
<1>4. CASE StartupRefresh
  BY <1>4 DEF StartupRefresh, MokNext
<1>5. CASE StartupRefreshFails
  BY <1>5 DEF StartupRefreshFails, MokNext
<1>6. CASE ManagerRestarts
  BY <1>6 DEF ManagerRestarts
<1>7. CASE MachineRestarts
  BY <1>7 DEF MachineRestarts, Next, MokNext
<1>8. CASE ChangedByHand
  BY <1>8 DEF ChangedByHand, MokNext
<1>9. CASE UNCHANGED hvars
  BY <1>9 DEF hvars
<1>10. QED
  BY <1>1, <1>2, <1>3, <1>4, <1>5, <1>6, <1>7, <1>8, <1>9 DEF HNext

\* The helper implements the specification of each enrollment.
THEOREM HelperImplements == HSpec => Spec /\ MokSpec
<1>1. HInit => Init /\ MokInit
  BY DEF HInit
<1>2. [HNext]_hvars => [Next]_vars /\ [MokNext]_mokVars
  BY HelperSteps
<1>3. QED
  BY <1>1, <1>2, PTL DEF HSpec, Spec, MokSpec

\* Every variable of both enrollments, and of the Manager, keeps its type, for
\* every set of token slots and passwords.
THEOREM HelperTypes == HSpec => []HelperTypeOK
<1> DEFINE Verdict == verified \in BOOLEAN
<1>1. HInit => Verdict
  BY DEF HInit
<1>2. Verdict /\ [HNext]_hvars => Verdict'
  <2> SUFFICES ASSUME Verdict, [HNext]_hvars
               PROVE  Verdict'
    OBVIOUS
  <2>1. CASE EnrollTpm
    BY <2>1 DEF EnrollTpm
  <2>2. CASE VerifyTpm \/ StartupRefresh
    BY <2>2 DEF VerifyTpm, StartupRefresh, TpmAnswer
  <2>3. CASE ChangeMok \/ StartupRefreshFails \/ ChangedByHand
    BY <2>3 DEF ChangeMok, StartupRefreshFails, ChangedByHand
  <2>4. CASE ManagerRestarts \/ MachineRestarts
    BY <2>4 DEF ManagerRestarts, MachineRestarts
  <2>5. CASE UNCHANGED hvars
    BY <2>5 DEF hvars
  <2>6. QED
    BY <2>1, <2>2, <2>3, <2>4, <2>5 DEF HNext
<1>3. HSpec => []Verdict
  <2> HIDE DEF Verdict
  <2> QED
    BY <1>1, <1>2, PTL DEF HSpec
<1>4. QED
  BY <1>3, HelperImplements, TpmTypes, MokTypeCorrect, PTL DEF HelperTypeOK

\* No step of an enrollment takes a token that the TPM unseals away.
LEMMA SealedGrows ==
    ASSUME EnrollToken \/ ConfigureBoot \/ Killed
    PROVE  sealed \subseteq sealed'
<1>1. CASE Enroll \/ EnrollFail
  BY <1>1 DEF Enroll, EnrollFail, Enrolling, luksVars
<1>2. CASE EnrollToken /\ ~Enroll /\ ~EnrollFail
  BY <1>2 DEF EnrollToken, Begin, Prove, SaveHeader, TryToken, Refuse, luksVars
<1>3. CASE ConfigureBoot \/ Killed
  BY <1>3 DEF ConfigureBoot, List, Build, Check, Link, Replace, Finish, ListFail,
              BuildFail, FinishFail, Revert, RevertFail, Restore, RestoreFail,
              Killed, luksVars
<1>4. QED
  BY <1>1, <1>2, <1>3

\* A TPM unlock that the Manager shows as verified works in this boot.
THEOREM VerifiedIsTrue == HSpec => []VerifiedUnlocks
<1>1. HInit => VerifiedUnlocks
  BY DEF HInit, VerifiedUnlocks
<1>2. VerifiedUnlocks /\ TpmInv' /\ [HNext]_hvars => VerifiedUnlocks'
  <2> SUFFICES ASSUME VerifiedUnlocks, TpmInv', HNext
               PROVE  VerifiedUnlocks'
    BY DEF VerifiedUnlocks, hvars, vars, luksVars
  <2>1. CASE EnrollTpm
    <3>1. sealed \subseteq sealed'
      BY <2>1, SealedGrows DEF EnrollTpm
    <3>2. outcome' = "configured" => sealed' # {}
      BY DEF TpmInv, Configured
    <3>3. QED
      BY <2>1, <3>1, <3>2 DEF EnrollTpm, VerifiedUnlocks
  <2>2. CASE VerifyTpm
    BY <2>2 DEF VerifyTpm, TpmAnswer, VerifiedUnlocks, vars, luksVars
  <2>3. CASE StartupRefresh
    BY <2>3 DEF StartupRefresh, TpmAnswer, VerifiedUnlocks, vars, luksVars
  <2>4. CASE ChangeMok \/ StartupRefreshFails \/ ChangedByHand
    BY <2>4 DEF ChangeMok, StartupRefreshFails, ChangedByHand, VerifiedUnlocks,
                vars, luksVars
  <2>5. CASE ManagerRestarts \/ MachineRestarts
    BY <2>5 DEF ManagerRestarts, MachineRestarts, VerifiedUnlocks
  <2>6. QED
    BY <2>1, <2>2, <2>3, <2>4, <2>5 DEF HNext
<1>3. QED
  BY <1>1, <1>2, HelperImplements, TpmInvariant, PTL DEF HSpec
=============================================================================
