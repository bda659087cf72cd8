-------------------------- MODULE UpdateRefinement --------------------------
(***************************************************************************)
(* The two-stage updater keeps the promise of KernelPromise.  The recorded  *)
(* installation is the installed_kernel_release of state.json, everything  *)
(* else is the machine itself.                                             *)
(*                                                                         *)
(* The record is kept as long as the root stage runs once at a time; the   *)
(* README says what two of them do to it.  What is promised of the machine *)
(* is kept however many run.                                               *)
(***************************************************************************)
EXTENDS UpdateController

Promise == INSTANCE KernelPromise WITH recorded <- doc.kernel

\* Every behaviour of the updater is one the abstract specification allows.
KeepsPromise == Promise!Spec

\* The same with nothing said of the record.
Machine == INSTANCE KernelPromise WITH recorded <- NoRelease

\* Whatever is recorded, and however many root stages contend for update.lock
\* and overwrite each other's state.json: kernels arrive only from published
\* releases and never behind an installed one, the top-level GRUB entry moves
\* only forward, and what runs or starts by default is never removed.
KeepsMachinePromise == Machine!Spec

\* No two runs of the root stage at a time: systemd runs one of a unit, but
\* s4lockdown-update.service and s4lockdown-update-install.service are two.
Alone == \A i, j \in Installers : pc[i] # "idle" /\ pc[j] # "idle" => i = j

-----------------------------------------------------------------------------
(* What makes it so *)

\* Where install_command works with the copy of state.json that it has read,
\* and where it has decided to install.
Reads   == {"preparing", "copied", "verified", "swapping", "ready", "unpacked",
            "installed", "pruned", "marked", "discarded", "recording"}
Decided == Reads \ {"preparing", "copied", "verified", "recording"}

\* Every release on the machine's disks was published by the project, whatever
\* the HWE resolver answers.
FromProject ==
    /\ {staged, retired, available} \subseteq published \cup {NoRelease}
    /\ \A c \in Checkers : At(c, "downloaded") => target[c] \in published
    /\ \A i \in Installers :
          /\ incoming[i] \in published \cup {NoRelease}
          /\ pc[i] \in Decided \cup {"verified"} => target[i] \in published

\* As long as every run is alone, nobody else writes state.json, which records
\* one release as a whole; what a run goes on to install is not what is recorded.
RecordOwned ==
    /\ doc.kernel # NoRelease => doc.kernel.src = doc.source
    /\ \A i \in Installers :
          /\ pc[i] \in Reads => snap[i] = doc
          /\ pc[i] \in Decided => ~Recorded(target[i], doc)

\* A run writes back a copy of state.json that the file no longer holds.
StaleWriteBack(i) ==
    /\ pc[i] \in {"preparing", "recording"}
    /\ snap[i] # doc /\ doc' = snap[i]

\* Nothing else takes the recorded source version back.
SourceKept == [][doc'.source >= doc.source
                   \/ \E i \in Installers : StaleWriteBack(i)]_vars

\* A successful run leaves PROJECT_KERNEL_HISTORY old kernels at most beside the
\* new and the running one.
PackagesPruned ==
    \A i \in Installers :
        pc[i] \in {"pruned", "marked", "discarded"} =>
            Cardinality(packages) <= History + 2
=============================================================================
