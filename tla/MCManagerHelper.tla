---------------------------- MODULE MCManagerHelper ----------------------------
(* The Manager's helper, instantiated for TLC.                                *)
EXTENDS ManagerHelper, TLC

\* Token slots, and generated passwords, are interchangeable.
SlotSymmetry == Permutations(Tokens) \cup Permutations(Passwords)
=============================================================================
