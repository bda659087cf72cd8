---------------------------- MODULE KernelPromise ----------------------------
(***************************************************************************)
(* What the local updater promises about the kernels of the machine, with  *)
(* no word of stages, locks, directories or crashes: project kernels       *)
(* arrive only from published releases and never behind what is installed, *)
(* the top-level GRUB entry moves only forward, old kernels go only when   *)
(* nothing needs them, and an installation is recorded once it is what the *)
(* machine will start, never to be forgotten.                              *)
(***************************************************************************)
EXTENDS Integers

CONSTANTS MaxSource, MaxVariant, NoRelease

Release == [src : 1..MaxSource, var : 0..MaxVariant]

VARIABLES
    published,      \* releases of the project
    packages,       \* project kernels installed
    grubTop,        \* the top-level GRUB entry, NoRelease: an Ubuntu kernel
    running,        \* the running kernel, NoRelease: an Ubuntu kernel
    recorded        \* the installation recorded in state.json

pvars == <<published, packages, grubTop, running, recorded>>

Behind(r, s) == r.src < s.src
Before(r, s) == Behind(r, s) \/ (r.src = s.src /\ r.var < s.var)

Init ==
    /\ published \subseteq Release
    /\ packages \subseteq published
    /\ grubTop \in packages \cup {NoRelease}
    /\ running \in packages \cup {NoRelease}
    /\ recorded = NoRelease

Publish ==
    /\ \E r \in Release \ published : published' = published \cup {r}
    /\ UNCHANGED <<packages, grubTop, running, recorded>>

\* The packages of a published release arrive, unless a newer source version
\* is installed or recorded.
Arrive(r) ==
    /\ \A p \in packages : ~Behind(r, p)
    /\ recorded # NoRelease => ~Behind(r, recorded)
    /\ packages' = packages \cup {r}
    /\ UNCHANGED <<published, grubTop, running, recorded>>

\* An installed release that is behind none becomes the top-level entry.
BecomeDefault(r) ==
    /\ \A p \in packages : ~Behind(r, p)
    /\ grubTop' = r
    /\ UNCHANGED <<published, packages, running, recorded>>

\* Kernels that neither run nor start by default are removed.
Leave ==
    /\ packages' \subseteq packages
    /\ {grubTop, running} \cap packages \subseteq packages'
    /\ UNCHANGED <<published, grubTop, running, recorded>>

\* The release the machine will start is recorded, in place of none or of an
\* earlier one.
Record(r) ==
    /\ r = grubTop
    /\ recorded # NoRelease => Before(recorded, r)
    /\ recorded' = r
    /\ UNCHANGED <<published, packages, grubTop, running>>

Start(k) ==
    /\ running' = k
    /\ UNCHANGED <<published, packages, grubTop, recorded>>

Next ==
    \/ Publish
    \/ \E r \in published : Arrive(r)
    \/ \E r \in packages : BecomeDefault(r) \/ Record(r)
    \/ Leave
    \/ \E k \in packages \cup {NoRelease} : Start(k)

Spec == Init /\ [][Next]_pvars
=============================================================================
