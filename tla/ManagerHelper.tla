----------------------------- MODULE ManagerHelper -----------------------------
(***************************************************************************)
(* The privileged helper of the Manager (scripts/manager-helper.py) with   *)
(* the operations that prepare the machine's boot: TPM enrollment          *)
(* (TpmBoot) and MOK enrollment (MokEnrollment), together with verify-tpm, *)
(* startup-refresh and what the Manager keeps of their answers             *)
(* (native_backend.dart).                                                  *)
(*                                                                         *)
(* helper_lock admits one operation at a time; a second one is refused and *)
(* changes nothing.  A kill frees the lock wherever the operation was, and *)
(* a restart of the machine is one event for the firmware's request, the   *)
(* TPM, the helper and the Manager.                                        *)
(***************************************************************************)
EXTENDS TpmBoot, MokEnrollment

VARIABLE
    verified    \* _tpmUnlockVerified of the Manager that runs

hvars == <<vars, mokVars, verified>>

HInit == Init /\ MokInit /\ verified = FALSE

\* Nobody holds the helper's lock.
Unlocked == pc = "idle" /\ mokPc = "idle"

-----------------------------------------------------------------------------
(* Operations *)

\* enroll-tpm.  Its success is kept by the Manager, if that still runs.
EnrollTpm ==
    /\ mokPc = "idle"
    /\ EnrollToken \/ ConfigureBoot \/ Killed
    /\ verified' \in {verified, verified \/ outcome' = "configured"}
    /\ UNCHANGED mokVars

\* prepare-mok, inspect-mok and cancel-mok
ChangeMok ==
    /\ pc = "idle"
    /\ PrepareMok \/ InspectMok \/ CancelMok \/ Stops
    /\ UNCHANGED <<vars, verified>>

\* Mutant: that a token is enrolled is taken for an answer.
TpmAnswerEnrolled == tokens # {}

\* action_verify_tpm: some token passes.
TpmAnswer == sealed # {}

VerifyTpm ==
    /\ Unlocked
    /\ verified' = TpmAnswer
    /\ UNCHANGED <<vars, mokVars>>

\* startup-refresh: the request is inspected, and the tokens are tried when
\* crypttab asks for the TPM.  The pruning and the check between and after them
\* have modules of their own.
StartupRefresh ==
    /\ Unlocked
    /\ InspectMok
    /\ verified' = IF crypttab = "tpm" THEN TpmAnswer ELSE verified
    /\ UNCHANGED vars

\* A later part of startup-refresh fails: the Manager gets no answer, but the
\* password of an ended request is gone.
StartupRefreshFails == Unlocked /\ InspectLost /\ UNCHANGED <<vars, verified>>

-----------------------------------------------------------------------------
(* Outside *)

\* The Manager is closed and started again; its helper goes on.
ManagerRestarts ==
    /\ verified' = FALSE
    /\ UNCHANGED <<vars, mokVars>>

MachineRestarts == Reboot /\ Restart /\ verified' = FALSE

ChangedByHand == Past /\ UNCHANGED <<vars, verified>>

HNext ==
    \/ EnrollTpm \/ ChangeMok \/ VerifyTpm
    \/ StartupRefresh \/ StartupRefreshFails
    \/ ManagerRestarts \/ MachineRestarts \/ ChangedByHand

HSpec == HInit /\ [][HNext]_hvars

-----------------------------------------------------------------------------
(* Properties *)

\* Every variable of both enrollments, and of the Manager, keeps its type.
HelperTypeOK == TypeOK /\ MokTypeOK /\ verified \in BOOLEAN

\* What the Manager shows as verified is so: a token unlocks the root volume in
\* this boot, however the enrollment it was learnt from went and whatever
\* became of the Manager, its helper or the machine since.
VerifiedUnlocks == verified => sealed # {}
=============================================================================
