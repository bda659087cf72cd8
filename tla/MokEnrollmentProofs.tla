-------------------------- MODULE MokEnrollmentProofs --------------------------
(***************************************************************************)
(* Proofs about the MOK enrollment, for every set of passwords.            *)
(***************************************************************************)
EXTENDS MokEnrollment, TLAPS

\* The helper's answers, as the model writes them, have their type.
LEMMA AnswerTyped ==
    /\ \A s \in {"none", "enrolled", "not-pending"} :
         [status |-> s, password |-> None]
            \in [status : {"none", "enrolled", "not-pending"}, password : {None}]
    /\ \A p \in Passwords \cup {Legacy} :
         [status |-> "pending", password |-> p]
            \in [status : {"pending"}, password : Passwords \cup {Legacy}]
  OBVIOUS

LEMMA MokInitInv == MokInit => MokInv
  BY MokAssumption DEF MokInit, MokInv, MokTypeOK, MokShape, NoPasswordLeft

\* inspect-mok, and with it what prepare-mok has in common with it.
LEMMA InspectKeeps ==
    ASSUME MokInv, InspectMok \/ InspectLost
    PROVE  MokInv'
<1> USE MokAssumption DEF MokInv, MokTypeOK, MokShape, NoPasswordLeft
<1>1. CASE FindEnrolled
  BY <1>1 DEF FindEnrolled, Says
<1>2. CASE FindPending
  BY <1>2 DEF FindPending, Says
<1>3. CASE InspectLegacy
  BY <1>3 DEF InspectLegacy, Says
<1>4. CASE InspectNothing
  BY <1>4 DEF InspectNothing, Says
<1>5. CASE InspectLost
  BY <1>5 DEF InspectLost, Silent, Says
<1>6. QED
  BY <1>1, <1>2, <1>3, <1>4, <1>5 DEF InspectMok

\* The request is replaced, or made, step by step.
LEMMA PrepareKeeps ==
    ASSUME MokInv, PrepareMok
    PROVE  MokInv'
<1> USE MokAssumption DEF MokInv, MokTypeOK, MokShape, NoPasswordLeft, MokGoto
<1>1. CASE FindEnrolled \/ FindPending
  BY <1>1, InspectKeeps DEF InspectMok
<1>2. CASE ReplaceRequest
  BY <1>2 DEF ReplaceRequest, Silent, Says
<1>3. CASE Revoke
  BY <1>3 DEF Revoke
<1>4. CASE Forget
  BY <1>4 DEF Forget
<1>5. CASE PrepareFirst
  BY <1>5 DEF PrepareFirst, Silent, Says
<1>6. CASE Import
  BY <1>6 DEF Import
<1>7. CASE Store
  BY <1>7 DEF Store, Says
<1>8. QED
  BY <1>1, <1>2, <1>3, <1>4, <1>5, <1>6, <1>7 DEF PrepareMok

\* cancel-mok, and an operation that stops in between.
LEMMA CancelKeeps ==
    ASSUME MokInv, CancelMok \/ Stops
    PROVE  MokInv'
<1> USE MokAssumption DEF MokInv, MokTypeOK, MokShape, NoPasswordLeft, MokGoto
<1>1. CASE Cancel
  BY <1>1 DEF Cancel, Silent, Says
<1>2. CASE CancelRevoke
  BY <1>2 DEF CancelRevoke
<1>3. CASE CancelForget
  BY <1>3 DEF CancelForget, Says
<1>4. CASE Stops
  BY <1>4 DEF Stops
<1>5. QED
  BY <1>1, <1>2, <1>3, <1>4 DEF CancelMok

\* Restarts and what is done by hand.
LEMMA OutsideKeeps ==
    ASSUME MokInv, Restart \/ Past
    PROVE  MokInv'
<1> USE MokAssumption DEF MokInv, MokTypeOK, MokShape, NoPasswordLeft, MokGoto,
                          Silent, Says
<1>1. CASE Restart
  BY <1>1 DEF Restart
<1>2. CASE Past
  BY <1>2 DEF Past
<1>3. QED
  BY <1>1, <1>2

\* Every reachable state satisfies the inductive invariant.
THEOREM MokInvariance == MokSpec => []MokInv
<1>1. MokInit => MokInv
  BY MokInitInv
<1>2. MokInv /\ [MokNext]_mokVars => MokInv'
  <2> SUFFICES ASSUME MokInv, [MokNext]_mokVars PROVE MokInv'
    OBVIOUS
  <2>1. CASE MokNext
    BY <2>1, InspectKeeps, PrepareKeeps, CancelKeeps, OutsideKeeps DEF MokNext
  <2>2. CASE UNCHANGED mokVars
    BY <2>2 DEF mokVars, MokInv, MokTypeOK, MokShape, NoPasswordLeft
  <2>3. QED
    BY <2>1, <2>2
<1>3. QED
  BY <1>1, <1>2, PTL DEF MokSpec

\* Every variable of the MOK enrollment keeps its type.
THEOREM MokTypeCorrect == MokSpec => []MokTypeOK
<1>1. MokInv => MokTypeOK
  BY DEF MokInv
<1>2. QED
  BY <1>1, MokInvariance, PTL

\* Once the helper has answered that the key is enrolled, or that no request is
\* pending, no one-time password is on file, whatever was interrupted before.
THEOREM NoPasswordOutlives == MokSpec => []NoPasswordLeft
<1>1. MokInv => NoPasswordLeft
  BY DEF MokInv
<1>2. QED
  BY <1>1, MokInvariance, PTL

\* A request whose password is on file is neither revoked nor imported over.
THEOREM KnownRequestStays == MokSpec => KnownRequestKept
<1>1. MokInv => ((mokPc = "revoking" \/ mokPc = "importing")
                  /\ request \notin {None, request'} => stored # request)
  <2> SUFFICES ASSUME MokInv,
                      mokPc = "revoking" \/ mokPc = "importing",
                      request \notin {None, request'}, stored = request
               PROVE  FALSE
    OBVIOUS
  <2>1. mokPc = "revoking" /\ stored \notin Passwords
    BY DEF MokInv, MokShape
  <2>2. request \in {ByHand}
    BY <2>1 DEF MokInv, MokTypeOK
  <2>3. QED
    BY <2>2, MokAssumption DEF MokInv, MokTypeOK
<1>2. QED
  BY <1>1, MokInvariance, PTL DEF MokSpec, KnownRequestKept
=============================================================================
