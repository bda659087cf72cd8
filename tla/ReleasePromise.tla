---------------------------- MODULE ReleasePromise ----------------------------
(***************************************************************************)
(* What the project promises of its releases, with no word of workflows,   *)
(* drafts, partial files, lists or notifiers: what is released stays       *)
(* released, a machine stages nothing else, and the user hears of nothing  *)
(* else either.                                                            *)
(***************************************************************************)
EXTENDS Naturals

CONSTANT MaxTag

Tag == 1..MaxTag

VARIABLES
    released,       \* releases that anybody can see
    staged,         \* the release that is staged on the machine, 0: none
    announced       \* releases that the user was told of

Init == released = {} /\ staged = 0 /\ announced = {}

Release(t) ==
    /\ released' = released \cup {t}
    /\ UNCHANGED <<staged, announced>>

Stage(t) ==
    /\ staged = 0
    /\ staged' = t
    /\ UNCHANGED <<released, announced>>

\* For another one, or none: what is staged is never replaced in place.
Unstage ==
    /\ staged' = 0
    /\ UNCHANGED <<released, announced>>

Announce(t) ==
    /\ announced' = announced \cup {t}
    /\ UNCHANGED <<released, staged>>

Next ==
    \/ \E t \in Tag \ released : Release(t)
    \/ \E t \in released : Stage(t) \/ Announce(t)
    \/ Unstage

Spec == Init /\ [][Next]_<<released, staged, announced>>
=============================================================================
