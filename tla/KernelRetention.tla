---------------------------- MODULE KernelRetention ----------------------------
(***************************************************************************)
(* Two programs remove kernel packages: the updater, after it installed a  *)
(* release (scripts/update-local.py, under update.lock), and the Manager's *)
(* helper, on a new retention setting, at each start of the Manager and on *)
(* request (scripts/manager-helper.py, under a lock of its own).  Neither  *)
(* lock keeps the other program out: what one has read, the other changes. *)
(*                                                                         *)
(* A kernel is its rank among the project's releases; 0 is the official    *)
(* Ubuntu kernel, which neither program touches.  The updater is the part  *)
(* of UpdateController from an accepted target on, which is not older than *)
(* any installed project kernel (NoDowngrade there), with the steps of     *)
(* set-default-kernel.sh told apart.  A dpkg run is one step: dpkg has a   *)
(* lock.                                                                   *)
(***************************************************************************)
EXTENDS Naturals, FiniteSets

CONSTANTS
    Newest,     \* the newest release that is ever published
    Histories   \* the values PROJECT_KERNEL_HISTORY takes

ASSUME RetentionAssumption ==
    /\ Newest \in Nat
    /\ Histories \subseteq Nat \ {0}

Official == 0
Kernels == 1..Newest
AnyKernel == Kernels \cup {Official}

VARIABLES
    installed,  \* project kernels whose packages are installed
    running,
    top,        \* GRUB_TOP_LEVEL in 99-s4lockdown.cfg, Official: no such file
    recorded,   \* installed_kernel_release of state.json, Official: none
    history,    \* PROJECT_KERNEL_HISTORY in the configuration
    asked,      \* kernels the user had removed
    upc, target, limit, undo, superseded,       \* the updater's run
    hpc, previous, listed, guarded, doomed      \* the helper's run

machine == <<installed, running, top, recorded, history, asked>>
updater == <<upc, target, limit, undo, superseded>>
helper  == <<hpc, previous, listed, guarded, doomed>>
vars == <<machine, updater, helper>>

UpdaterSteps == {"ready", "unpacked", "selecting", "selected", "pruning", "pruned"}
HelperSteps == {"listing", "guarding", "choosing", "asked", "removing", "removingAsked"}

\* sorted(..., newest first)[:n]
NewestOf(S, n) == {k \in S : Cardinality({j \in S : j > k}) < n}

Init ==
    /\ installed \in SUBSET Kernels \ {{}}
    /\ running \in installed \cup {Official}
    /\ top \in installed \cup {Official}
    /\ recorded \in installed \cup {Official}
    /\ history \in Histories
    /\ asked = {}
    /\ upc = "idle" /\ target = Official /\ limit = 0
    /\ undo = Official /\ superseded = {}
    /\ hpc = "idle" /\ previous = 0
    /\ listed = {} /\ guarded = {} /\ doomed = {}

-----------------------------------------------------------------------------
(* The updater *)

UGoto(l) == upc' = l

UEnd ==
    /\ UGoto("idle")
    /\ target' = Official /\ limit' = 0 /\ undo' = Official /\ superseded' = {}

\* The target is accepted: the newest published release, which the release list
\* still names when the user has had it removed.
Accept ==
    /\ upc = "idle"
    /\ \E t \in Kernels :
         /\ \A k \in installed \cup asked \cup {recorded} : t >= k
         /\ t # recorded
         /\ target' = t
    /\ limit' = history
    /\ UGoto("ready")
    /\ UNCHANGED <<machine, undo, superseded, helper>>

\* dpkg --install, or the packages are installed already
Unpack ==
    /\ upc = "ready"
    /\ installed' = installed \cup {target}
    /\ asked' = asked \ {target}
    /\ UGoto("unpacked")
    /\ UNCHANGED <<running, top, recorded, history, target, limit, undo,
                   superseded, helper>>

\* set-default-kernel.sh installs its configuration ...
Select ==
    /\ upc = "unpacked" /\ target \in installed
    /\ undo' = top
    /\ top' = target
    /\ UGoto("selecting")
    /\ UNCHANGED <<installed, running, recorded, history, asked, target, limit,
                   superseded, helper>>

\* ... and update-grub takes it up,
Selected ==
    /\ upc = "selecting" /\ target \in installed
    /\ UGoto("selected")
    /\ UNCHANGED <<machine, target, limit, undo, superseded, helper>>

\* or the previous configuration is restored (restore_configuration).
Unselect ==
    /\ upc = "selecting"
    /\ top' = undo
    /\ UEnd
    /\ UNCHANGED <<installed, running, recorded, history, asked, helper>>

\* Mutant: the running kernel is pruned like the others.
ChooseSupersededRunning ==
    /\ upc = "selected" /\ target \in installed
    /\ superseded' = installed \ (NewestOf(installed \ {target}, limit) \cup {target})
    /\ UGoto("pruning")
    /\ UNCHANGED <<machine, target, limit, undo, helper>>

\* prune_project_kernels of the updater: dpkg-query ...
ChooseSuperseded ==
    /\ upc = "selected" /\ target \in installed
    /\ superseded' = installed \ (NewestOf(installed \ {target}, limit)
                                     \cup {target, running})
    /\ UGoto("pruning")
    /\ UNCHANGED <<machine, target, limit, undo, helper>>

\* ... and dpkg --remove
Prune ==
    /\ upc = "pruning"
    /\ installed' = installed \ superseded
    /\ UGoto("pruned")
    /\ UNCHANGED <<running, top, recorded, history, asked, target, limit, undo,
                   superseded, helper>>

\* The commit of state.json
Record ==
    /\ upc = "pruned"
    /\ recorded' = target
    /\ UEnd
    /\ UNCHANGED <<installed, running, top, history, asked, helper>>

\* A command fails, a package is missing, the process is killed.
UpdaterStops ==
    /\ upc # "idle"
    /\ UEnd
    /\ UNCHANGED <<machine, helper>>

-----------------------------------------------------------------------------
(* The helper *)

HGoto(l) == hpc' = l

HEnd ==
    /\ HGoto("idle")
    /\ previous' = 0 /\ listed' = {} /\ guarded' = {} /\ doomed' = {}

\* Mutant: the value is not checked.
RetainUnchecked ==
    /\ hpc = "idle"
    /\ previous' = history
    /\ history' \in Histories \cup {0}
    /\ HGoto("listing")
    /\ UNCHANGED <<installed, running, top, recorded, asked, listed, guarded,
                   doomed, updater>>

\* set-kernel-retention writes the new limit; startup-refresh uses the old one.
Retain ==
    /\ hpc = "idle"
    /\ previous' = history
    /\ history' \in Histories
    /\ HGoto("listing")
    /\ UNCHANGED <<installed, running, top, recorded, asked, listed, guarded,
                   doomed, updater>>

\* prune_project_kernels of the helper: installed_kernel_packages ...
ListPackages ==
    /\ hpc = "listing"
    /\ listed' = installed
    /\ HGoto("guarding")
    /\ UNCHANGED <<machine, previous, guarded, doomed, updater>>

\* ... os.uname and configured_grub_top_level_release ...
GuardTop ==
    /\ hpc = "guarding"
    /\ guarded' = {running, top}
    /\ HGoto("choosing")
    /\ UNCHANGED <<machine, previous, listed, doomed, updater>>

\* Mutants: the slice is one short; one long.
ChooseOneShort ==
    /\ hpc = "choosing"
    /\ LET historical == listed \ (guarded \cup {recorded})
       IN  doomed' = historical \ NewestOf(historical, history - 1)
    /\ guarded' = guarded \cup {recorded}
    /\ HGoto("removing")
    /\ UNCHANGED <<machine, previous, listed, updater>>

ChooseOneMore ==
    /\ hpc = "choosing"
    /\ LET historical == listed \ (guarded \cup {recorded})
       IN  doomed' = historical \ NewestOf(historical, history + 1)
    /\ guarded' = guarded \cup {recorded}
    /\ HGoto("removing")
    /\ UNCHANGED <<machine, previous, listed, updater>>

\* ... state.json, and the choice of what goes
Choose ==
    /\ hpc = "choosing"
    /\ LET historical == listed \ (guarded \cup {recorded})
       IN  doomed' = historical \ NewestOf(historical, history)
    /\ guarded' = guarded \cup {recorded}
    /\ HGoto("removing")
    /\ UNCHANGED <<machine, previous, listed, updater>>

\* dpkg --remove, when there is something to remove
Remove ==
    /\ hpc = "removing"
    /\ installed' = installed \ doomed
    /\ HEnd
    /\ UNCHANGED <<running, top, recorded, history, asked, updater>>

\* A failed setting puts the previous limit back; the packages may be gone
\* already (update-grub fails after dpkg).
RetainFail ==
    /\ hpc \in {"listing", "guarding", "choosing", "removing"}
    /\ history' = previous
    /\ \/ UNCHANGED installed
       \/ hpc = "removing" /\ installed' = installed \ doomed
    /\ HEnd
    /\ UNCHANGED <<running, top, recorded, asked, updater>>

\* remove-kernel: neither the running nor the selected kernel ...
Ask ==
    /\ hpc = "idle"
    /\ \E k \in Kernels \ {running, top} : doomed' = {k}
    /\ HGoto("asked")
    /\ UNCHANGED <<machine, previous, listed, guarded, updater>>

\* ... and another project kernel must stay.
AskListed ==
    /\ hpc = "asked"
    /\ doomed \subseteq installed /\ Cardinality(installed) >= 2
    /\ HGoto("removingAsked")
    /\ UNCHANGED <<machine, previous, listed, guarded, doomed, updater>>

RemoveAsked ==
    /\ hpc = "removingAsked"
    /\ installed' = installed \ doomed
    /\ asked' = asked \cup doomed
    /\ HEnd
    /\ UNCHANGED <<running, top, recorded, history, updater>>

\* A command fails, a check refuses, the helper is killed.
HelperStops ==
    /\ hpc # "idle"
    /\ HEnd
    /\ UNCHANGED <<machine, updater>>

-----------------------------------------------------------------------------
\* The machine restarts: GRUB starts the top-level kernel, or, when that is
\* gone, one that is there.
Reboot ==
    /\ running' \in IF top \in installed THEN {top} ELSE installed \cup {Official}
    /\ UEnd /\ HEnd
    /\ UNCHANGED <<installed, top, recorded, history, asked>>

UpdaterNext ==
    \/ Accept \/ Unpack \/ Select \/ Selected \/ Unselect
    \/ ChooseSuperseded \/ Prune \/ Record \/ UpdaterStops

HelperNext ==
    \/ Retain \/ ListPackages \/ GuardTop \/ Choose \/ Remove \/ RetainFail
    \/ Ask \/ AskListed \/ RemoveAsked \/ HelperStops

Next == UpdaterNext \/ HelperNext \/ Reboot

Spec == Init /\ [][Next]_vars

-----------------------------------------------------------------------------
(* Properties *)

\* Every variable has its type.
TypeOK ==
    /\ installed \subseteq Kernels
    /\ running \in AnyKernel /\ top \in AnyKernel /\ recorded \in AnyKernel
    /\ history \in Histories
    /\ asked \subseteq Kernels
    /\ upc \in {"idle"} \cup UpdaterSteps
    /\ target \in AnyKernel /\ limit \in Histories \cup {0} /\ undo \in AnyKernel
    /\ superseded \subseteq Kernels
    /\ hpc \in {"idle"} \cup HelperSteps
    /\ previous \in Histories \cup {0}
    /\ listed \subseteq Kernels /\ guarded \subseteq AnyKernel
    /\ doomed \subseteq Kernels

\* Whatever the two programs do at the same time, the running kernel stays
\* installed.
RunningKept == running \in installed \cup {Official}

\* "Cleanup never removes the newly installed kernel": until the updater has
\* recorded it, only the user can have it removed, whatever the helper read
\* before it was installed.
NewKernelKept ==
    upc \in UpdaterSteps \ {"ready"} => target \in installed \cup asked

\* A retention run that ends well leaves, of the kernels it listed, no more than
\* the setting allows beside those that were protected.
RetentionApplied ==
    [][hpc = "removing" /\ hpc' = "idle" /\ installed' # installed =>
          Cardinality((installed' \cap listed) \ guarded) <= history]_vars

\* "preserving every boot safety target": retention alone never removes the
\* kernel that GRUB is configured to start.
\* FAILS: the helper may read a selection that the updater then takes back.
TopLevelKept == top \in installed \cup asked \cup {Official}

-----------------------------------------------------------------------------
(* The abstract specification *)

\* A kernel as KernelPromise has it; the official one is none of the project's.
Rel(k) == [src |-> k, var |-> 0]

Promise == INSTANCE KernelPromise
             WITH MaxSource <- Newest, MaxVariant <- 0, NoRelease <- Rel(Official),
                  published <- {Rel(k) : k \in Kernels},
                  packages <- {Rel(k) : k \in installed},
                  grubTop <- Rel(top), running <- Rel(running),
                  recorded <- Rel(Official)

\* Two programs that remove kernels side by side keep what one promises: what
\* runs or starts by default is never removed, kernels arrive behind none, and
\* the entry moves only forward.
KeepsMachinePromise == Promise!Spec

\* What it depends on: no selection is taken back (a failed update-grub), and
\* the user has no kernel removed.
NothingUndone == [][~Unselect /\ ~RemoveAsked]_vars

-----------------------------------------------------------------------------
(* The inductive invariant *)

\* Nothing that either program is about to remove is the running kernel, or
\* what the updater is putting in place.
PlansSpareRunning ==
    /\ hpc = "choosing" => running \in guarded
    /\ running \notin doomed
    /\ running \notin superseded

PlansSpareTarget ==
    /\ upc = "idle" => superseded = {}
    /\ target \notin superseded
    /\ hpc = "removing" /\ upc # "idle" => target \notin doomed

\* The target is the newest of the kernels that are installed or that the helper
\* has seen installed.
TargetIsNewest ==
    upc # "idle" =>
        /\ target \in Kernels
        /\ \A k \in installed \cup asked \cup listed : target >= k
        /\ hpc = "removingAsked" => \A k \in doomed : target >= k

\* What the helper has listed, and more so what it is about to remove, has a
\* newer kernel that is installed or was removed by hand.
NewerStays ==
    /\ \A k \in listed : \E j \in installed \cup asked : j >= k
    /\ hpc = "removing" => \A k \in doomed : \E j \in installed \cup asked : j > k
    /\ hpc = "removingAsked" =>
          \A k \in doomed : \E j \in installed \cup asked : j >= k

HelperShape ==
    /\ hpc \in {"listing", "guarding", "choosing", "removing"} =>
          previous \in Histories
    /\ hpc \notin {"removing", "asked", "removingAsked"} => doomed = {}
    /\ hpc = "removing" => doomed \subseteq listed
    /\ hpc \in {"idle", "listing", "asked", "removingAsked"} => listed = {}

RetentionInv ==
    /\ TypeOK /\ RunningKept /\ NewKernelKept
    /\ PlansSpareRunning /\ PlansSpareTarget /\ TargetIsNewest /\ NewerStays
    /\ HelperShape

\* What the helper has chosen to remove leaves no more than the setting allows.
ChoiceApplies ==
    hpc = "removing" => Cardinality((listed \ guarded) \ doomed) <= history

\* In behaviours where no selection is taken back: the updater's target is what
\* GRUB starts from its selection on, and a selection that the helper did not
\* see is the newest kernel.
SelectionSpared ==
    /\ TopLevelKept
    /\ upc \in UpdaterSteps \ {"ready", "unpacked"} => top = target
    /\ hpc = "choosing" => top \in guarded \/ \A k \in listed : top >= k
    /\ hpc = "removing" => top \notin doomed
=============================================================================
