----------------------------- MODULE MokEnrollment -----------------------------
(***************************************************************************)
(* The enrollment of the project's Machine Owner Key as                    *)
(* scripts/manager-helper.py prepares, inspects and cancels it.  A request *)
(* lives in firmware variables (mokutil), its one-time password in a state *)
(* file; MokManager asks for the password at the next restart.  The two    *)
(* are never written together: a command or a write may fail, with or      *)
(* without effect, the helper can be killed, and MokManager may drop a     *)
(* request.  The user may have made one by hand before (README, "Manual    *)
(* project MOK path").                                                     *)
(*                                                                         *)
(* The helper's lock admits one operation at a time.  Requests for other   *)
(* keys make every operation refuse and are left out.                      *)
(***************************************************************************)

CONSTANTS
    Passwords,  \* what generate_mok_password may return
    ByHand,     \* the password of a request made by hand
    Legacy,     \* a stored password of the old format
    None        \* no password

ASSUME MokAssumption ==
    /\ None \notin Passwords \cup {ByHand, Legacy}
    /\ {ByHand, Legacy} \cap Passwords = {}
    /\ ByHand # Legacy

VARIABLES
    enrolled,
    request,    \* the password of the pending request, None: no request
    stored,     \* one_time_password in the state file, None: no file
    made,       \* passwords generated so far: none is generated twice
    mokPc,
    answer      \* the helper's last answer, while nothing has changed since

mokVars == <<enrolled, request, stored, made, mokPc, answer>>

Says(status, password) == answer' = [status |-> status, password |-> password]
Silent == Says("none", None)
MokGoto(l) == mokPc' = l

\* The key is enrolled or not, or a request was made by hand.
MokInit ==
    /\ enrolled \in BOOLEAN
    /\ request \in IF enrolled THEN {None} ELSE {None, ByHand}
    /\ stored = None
    /\ made = {}
    /\ mokPc = "idle"
    /\ answer = [status |-> "none", password |-> None]

-----------------------------------------------------------------------------
(* prepare-mok *)

\* Mutant: the state file of an enrolled key stays.
FindEnrolledKept ==
    /\ mokPc = "idle" /\ enrolled
    /\ Says("enrolled", None)
    /\ UNCHANGED <<enrolled, request, stored, made, mokPc>>

\* prepare-mok and inspect-mok: the key is enrolled already.
FindEnrolled ==
    /\ mokPc = "idle" /\ enrolled
    /\ stored' = None
    /\ Says("enrolled", None)
    /\ UNCHANGED <<enrolled, request, made, mokPc>>

\* A request with a password on file is shown again, in prepare and inspect.
FindPending ==
    /\ mokPc = "idle" /\ ~enrolled /\ request # None
    /\ stored \in Passwords
    /\ Says("pending", stored)
    /\ UNCHANGED <<enrolled, request, stored, made, mokPc>>

\* inspect-mok shows a password of the old format as well.
InspectLegacy ==
    /\ mokPc = "idle" /\ ~enrolled /\ request # None
    /\ stored = Legacy
    /\ Says("pending", stored)
    /\ UNCHANGED <<enrolled, request, stored, made, mokPc>>

\* inspect-mok: there is no request.
InspectNothing ==
    /\ mokPc = "idle" /\ ~enrolled /\ request = None
    /\ stored' = None
    /\ Says("not-pending", None)
    /\ UNCHANGED <<enrolled, request, made, mokPc>>

\* The file is removed but the caller gets no answer: the helper is killed, or a
\* later part of startup-refresh fails.
InspectLost ==
    /\ mokPc = "idle"
    /\ enrolled \/ request = None
    /\ stored' = None
    /\ Silent
    /\ UNCHANGED <<enrolled, request, made, mokPc>>

\* Mutant: every pending request is replaced.
ReplaceAnyRequest ==
    /\ mokPc = "idle" /\ ~enrolled /\ request # None
    /\ MokGoto("revoking")
    /\ Silent
    /\ UNCHANGED <<enrolled, request, stored, made>>

\* prepare-mok: a request whose password is not on file is to be replaced.
ReplaceRequest ==
    /\ mokPc = "idle" /\ ~enrolled /\ request # None
    /\ stored \notin Passwords
    /\ MokGoto("revoking")
    /\ Silent
    /\ UNCHANGED <<enrolled, request, stored, made>>

\* mokutil --revoke-import
Revoke ==
    /\ mokPc = "revoking"
    /\ request' = None
    /\ MokGoto("revoked")
    /\ UNCHANGED <<enrolled, stored, made, answer>>

\* MOK_STATE_PATH.unlink
Forget ==
    /\ mokPc = "revoked"
    /\ stored' = None
    /\ MokGoto("importing")
    /\ UNCHANGED <<enrolled, request, made, answer>>

\* prepare-mok: there is no request.
PrepareFirst ==
    /\ mokPc = "idle" /\ ~enrolled /\ request = None
    /\ MokGoto("importing")
    /\ Silent
    /\ UNCHANGED <<enrolled, request, stored, made>>

\* mokutil --import with the hash of a new password
Import ==
    /\ mokPc = "importing"
    /\ \E p \in Passwords \ made :
         request' = p /\ made' = made \cup {p}
    /\ MokGoto("imported")
    /\ UNCHANGED <<enrolled, stored, answer>>

\* The password of this run is the one just imported.
Store ==
    /\ mokPc = "imported"
    /\ stored' = request
    /\ MokGoto("idle")
    /\ Says("pending", request)
    /\ UNCHANGED <<enrolled, request, made>>

-----------------------------------------------------------------------------
(* cancel-mok *)

Cancel ==
    /\ mokPc = "idle" /\ request # None
    /\ MokGoto("cancelling")
    /\ Silent
    /\ UNCHANGED <<enrolled, request, stored, made>>

CancelRevoke ==
    /\ mokPc = "cancelling"
    /\ request' = None
    /\ MokGoto("cancelled")
    /\ UNCHANGED <<enrolled, stored, made, answer>>

CancelForget ==
    /\ mokPc = "cancelled"
    /\ stored' = None
    /\ MokGoto("idle")
    /\ Says("not-pending", None)
    /\ UNCHANGED <<enrolled, request, made>>

\* A command or a write fails, before or after its effect, or the helper is
\* killed: there is no answer.
Stops ==
    /\ mokPc # "idle"
    /\ \/ UNCHANGED stored
       \/ mokPc = "imported" /\ stored' = request
       \/ mokPc = "cancelled" /\ stored' = None
    /\ MokGoto("idle")
    /\ UNCHANGED <<enrolled, request, made, answer>>

-----------------------------------------------------------------------------
(* Outside *)

\* A restart; MokManager enrolls the key of a request, or the request stays or
\* goes.
Restart ==
    /\ \/ request # None /\ enrolled' = TRUE /\ request' = None
       \/ enrolled' = enrolled /\ request' \in {request, None}
    /\ MokGoto("idle")
    /\ Silent
    /\ UNCHANGED <<stored, made>>

\* The key is deleted by hand; an older Manager has left a state file.
Past ==
    /\ mokPc = "idle"
    /\ \/ enrolled' = FALSE /\ UNCHANGED stored
       \/ made = {} /\ stored' = Legacy /\ UNCHANGED enrolled
    /\ Silent
    /\ UNCHANGED <<request, made, mokPc>>

InspectMok == FindEnrolled \/ FindPending \/ InspectLegacy \/ InspectNothing

PrepareMok ==
    \/ FindEnrolled \/ FindPending
    \/ ReplaceRequest \/ Revoke \/ Forget \/ PrepareFirst \/ Import \/ Store

CancelMok == Cancel \/ CancelRevoke \/ CancelForget

MokNext ==
    \/ InspectMok \/ InspectLost \/ PrepareMok \/ CancelMok
    \/ Stops \/ Restart \/ Past

MokSpec == MokInit /\ [][MokNext]_mokVars

-----------------------------------------------------------------------------
(* Properties *)

\* Every variable has its type.
MokTypeOK ==
    /\ enrolled \in BOOLEAN
    /\ request \in Passwords \cup {ByHand, None}
    /\ stored \in Passwords \cup {Legacy, None}
    /\ made \subseteq Passwords
    /\ mokPc \in {"idle", "revoking", "revoked", "importing", "imported",
               "cancelling", "cancelled"}
    /\ \/ answer \in [status : {"none", "enrolled", "not-pending"}, password : {None}]
       \/ answer \in [status : {"pending"}, password : Passwords \cup {Legacy}]

\* "Confirm the pending state and same password are recovered without creating
\* another request": preparing again never revokes a request whose password is
\* on file, and never imports over a pending one.
KnownRequestKept ==
    [][(mokPc = "revoking" \/ mokPc = "importing") /\ request \notin {None, request'} =>
          stored # request]_mokVars

\* "deletes the one-time password state": whatever was interrupted before, once
\* the helper has reported an enrolled or absent request no password is kept.
NoPasswordLeft ==
    answer.status \in {"enrolled", "not-pending"} => stored = None

\* The inductive invariant: what each step may rely on.
MokShape ==
    /\ mokPc # "idle" => answer.status = "none"
    /\ mokPc = "imported" => request \in Passwords
    /\ mokPc = "revoking" => stored \notin Passwords
    /\ mokPc = "importing" => request = None
    /\ mokPc = "revoked" => request = None

MokInv == MokTypeOK /\ MokShape /\ NoPasswordLeft
=============================================================================
