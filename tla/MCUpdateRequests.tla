---------------------------- MODULE MCUpdateRequests ---------------------------
(* The Manager's update operations, instantiated for TLC.                     *)
EXTENDS UpdateRequests

TheChecks   == {"chk", "mgr"}
TheInstalls == {"ins", "req"}
ThePolicies == {"manual", "automatic-install"}
=============================================================================
