------------------------------ MODULE SwapRepair ------------------------------
(***************************************************************************)
(* The swap repair of scripts/manager-helper.py (action_repair_swap): a    *)
(* new swap file is made beside /swap.img, takes its place and its line in *)
(* /etc/fstab, is switched on, and only then the old file is deleted.  Any *)
(* call may fail, and a command that is killed at its time limit may have  *)
(* had its effect all the same; the except clause then undoes what was     *)
(* done.  The helper can be killed and the machine can lose power anywhere.*)
(*                                                                         *)
(* The helper's own lock keeps a second repair out, so there is one run at *)
(* a time.  Swap devices other than /swap.img are not touched.             *)
(***************************************************************************)
EXTENDS FiniteSets

CONSTANTS
    Files,      \* the swap files that the disk has room for
    NoFile

ASSUME SwapAssumption == NoFile \notin Files

MaybeFile == Files \cup {NoFile}

\* The line of /etc/fstab for /swap.img: none, somebody else's, the Manager's.
Lines == {"none", "other", "managed"}

VARIABLES
    img,        \* the file at /swap.img
    spare,      \* files under generated names: temporaries and backups, of
                \* this run and of runs that were killed
    formatted,  \* files that mkswap has been run on
    active,     \* files the kernel swaps to
    fstab,
    pc,
    fresh,      \* the file this run makes
    backup,     \* the file this run moved aside, NoFile: none (old_moved)
    enabled,    \* new_active
    clean,      \* no rollback error so far
    before,     \* what this run found: img, fstab and whether img was active
    outcome     \* how the last run ended

fileVars == <<img, spare, formatted>>
runVars  == <<fresh, backup, enabled, before>>
vars == <<fileVars, active, fstab, pc, runVars, clean, outcome>>

Steps == {"made", "formatted", "emptied", "vacant", "placed", "listed", "enabled"}
Rollback == {"deactivating", "restoring", "unlinking", "returning", "reactivating"}

NothingFound == [img |-> NoFile, fstab |-> "none", active |-> FALSE]

\* The files that have a name.
Linked == spare \cup ({img} \ {NoFile})

\* A fresh Ubuntu installation: a swap file in use and listed, or none, or one
\* that lost its line or its signature.
Init ==
    /\ img \in MaybeFile
    /\ formatted \in SUBSET ({img} \ {NoFile})
    /\ fstab \in {"none", "other"}
    /\ active \in {{}, formatted}
    /\ spare = {}
    /\ pc = "idle"
    /\ fresh = NoFile /\ backup = NoFile
    /\ enabled = FALSE /\ clean = TRUE
    /\ before = NothingFound
    /\ outcome = "none"

-----------------------------------------------------------------------------
(* The repair *)

Goto(l) == pc' = l

\* The except clause: a replacement believed active is deactivated first.
Fail == Goto(IF enabled THEN "deactivating" ELSE "restoring")

\* There is room for a new file (statvfs); what is to be restored is noted.
Begin ==
    /\ pc = "idle"
    /\ \E f \in Files \ (Linked \cup active) :
         /\ fresh' = f
         /\ spare' = spare \cup {f}
         /\ formatted' = formatted \ {f}
    /\ before' = [img |-> img, fstab |-> fstab, active |-> img \in active]
    /\ backup' = NoFile /\ enabled' = FALSE /\ clean' = TRUE
    /\ outcome' = "none"
    /\ Goto("made")
    /\ UNCHANGED <<img, active, fstab>>

\* fallocate and mkswap
Format ==
    /\ pc = "made"
    /\ formatted' = formatted \cup {fresh}
    /\ Goto("formatted")
    /\ UNCHANGED <<img, spare, active, fstab, runVars, clean, outcome>>

\* Mutant: /proc/swaps is not consulted.
SwapOffSkipped ==
    /\ pc = "formatted"
    /\ Goto("emptied")
    /\ UNCHANGED <<fileVars, active, fstab, runVars, clean, outcome>>

\* swapoff /swap.img, when /proc/swaps listed it
SwapOff ==
    /\ pc = "formatted"
    /\ active' = IF before.active THEN active \ {img} ELSE active
    /\ Goto("emptied")
    /\ UNCHANGED <<fileVars, fstab, runVars, clean, outcome>>

SwapOffFail ==
    /\ pc = "formatted" /\ before.active
    /\ \/ UNCHANGED active
       \/ active' = active \ {img}
    /\ Fail
    /\ UNCHANGED <<fileVars, fstab, runVars, clean, outcome>>

\* Mutant: it is not asked whether there is a file to move.
RetireAnything ==
    /\ pc = "emptied"
    /\ backup' = img
    /\ spare' = spare \cup {img}
    /\ img' = NoFile
    /\ Goto("vacant")
    /\ UNCHANGED <<formatted, active, fstab, fresh, enabled, before, clean,
                   outcome>>

\* os.replace(MANAGED_SWAP_PATH, backup), when there was a file
Retire ==
    /\ pc = "emptied"
    /\ backup' = img
    /\ spare' = spare \cup ({img} \ {NoFile})
    /\ img' = NoFile
    /\ Goto("vacant")
    /\ UNCHANGED <<formatted, active, fstab, fresh, enabled, before, clean,
                   outcome>>

\* os.replace(temporary, MANAGED_SWAP_PATH)
Place ==
    /\ pc = "vacant"
    /\ img' = fresh
    /\ spare' = spare \ {fresh}
    /\ Goto("placed")
    /\ UNCHANGED <<formatted, active, fstab, runVars, clean, outcome>>

\* write_atomic(FSTAB_PATH, ...)
List ==
    /\ pc = "placed"
    /\ fstab' = "managed"
    /\ Goto("listed")
    /\ UNCHANGED <<fileVars, active, runVars, clean, outcome>>

\* It may raise after the file has been replaced (the directory's fsync).
ListFail ==
    /\ pc = "placed"
    /\ \/ UNCHANGED fstab
       \/ fstab' = "managed"
    /\ Fail
    /\ UNCHANGED <<fileVars, active, runVars, clean, outcome>>

\* Mutant: the old file is deleted as soon as the new one is in its place.
EnableEarlyDrop ==
    /\ pc = "listed"
    /\ spare' = spare \ {backup} /\ backup' = NoFile
    /\ \/ active' = active \cup {img} /\ enabled' = TRUE /\ Goto("enabled")
       \/ UNCHANGED <<active, enabled>> /\ Fail
    /\ UNCHANGED <<img, formatted, fstab, fresh, before, clean, outcome>>

\* swapon --priority 100 /swap.img
Enable ==
    /\ pc = "listed"
    /\ active' = active \cup {img}
    /\ enabled' = TRUE
    /\ Goto("enabled")
    /\ UNCHANGED <<fileVars, fstab, fresh, backup, before, clean, outcome>>

EnableFail ==
    /\ pc = "listed"
    /\ \/ UNCHANGED active
       \/ active' = active \cup {img}
    /\ Fail
    /\ UNCHANGED <<fileVars, fstab, runVars, clean, outcome>>

\* The run is over: the finally clause removes a temporary that is left.
End(result) ==
    /\ Goto("idle")
    /\ outcome' = result

\* backup.unlink()
Drop ==
    /\ pc = "enabled"
    /\ spare' = spare \ {backup}
    /\ backup' = NoFile
    /\ End("repaired")
    /\ UNCHANGED <<img, formatted, active, fstab, fresh, enabled, before, clean>>

\* A call without effect fails: chmod, fallocate, mkswap, a rename, unlink.
CallFail ==
    /\ \/ pc \in {"made", "vacant"}
       \/ pc = "emptied" /\ img # NoFile
       \/ pc = "enabled" /\ backup # NoFile
    /\ Fail
    /\ UNCHANGED <<fileVars, active, fstab, runVars, clean, outcome>>

-----------------------------------------------------------------------------
(* The rollback *)

\* swapoff of the replacement
Deactivate ==
    /\ pc = "deactivating"
    /\ active' = active \ {img}
    /\ Goto("restoring")
    /\ UNCHANGED <<fileVars, fstab, runVars, clean, outcome>>

\* "replacement remains active ...; previous file retained": nothing else is
\* undone.
DeactivateFail ==
    /\ pc = "deactivating"
    /\ \/ UNCHANGED active
       \/ active' = active \ {img}
    /\ clean' = FALSE
    /\ End("failed")
    /\ UNCHANGED <<fileVars, fstab, runVars>>

\* Mutant: the line that the run wrote stays.
RestoreNothing ==
    /\ pc = "restoring"
    /\ Goto("unlinking")
    /\ UNCHANGED <<fileVars, active, fstab, runVars, clean, outcome>>

\* write_atomic(FSTAB_PATH, original_fstab)
Restore ==
    /\ pc = "restoring"
    /\ fstab' = before.fstab
    /\ Goto("unlinking")
    /\ UNCHANGED <<fileVars, active, runVars, clean, outcome>>

RestoreFail ==
    /\ pc = "restoring"
    /\ \/ UNCHANGED fstab
       \/ fstab' = before.fstab
    /\ clean' = FALSE
    /\ Goto("unlinking")
    /\ UNCHANGED <<fileVars, active, runVars, outcome>>

\* The replacement is unlinked, when it had been placed (new_installed).  The
\* kernel refuses to unlink, and to rename over, a file it swaps to: one that a
\* failed swapon has activated all the same stays.
Unlink ==
    /\ pc = "unlinking"
    /\ ~(img = fresh /\ img \in active)
    /\ img' = IF img = fresh THEN NoFile ELSE img
    /\ Goto("returning")
    /\ UNCHANGED <<spare, formatted, active, fstab, runVars, clean, outcome>>

UnlinkFail ==
    /\ pc = "unlinking" /\ img = fresh
    /\ clean' = FALSE
    /\ Goto("returning")
    /\ UNCHANGED <<fileVars, active, fstab, runVars, outcome>>

\* os.replace(backup, MANAGED_SWAP_PATH), when the old file was moved
Bring ==
    /\ pc = "returning"
    /\ backup # NoFile => img \notin active
    /\ IF backup # NoFile
         THEN img' = backup /\ spare' = spare \ {backup}
         ELSE UNCHANGED <<img, spare>>
    /\ Goto("reactivating")
    /\ UNCHANGED <<formatted, active, fstab, runVars, clean, outcome>>

BringFail ==
    /\ pc = "returning" /\ backup # NoFile
    /\ clean' = FALSE
    /\ Goto("reactivating")
    /\ UNCHANGED <<fileVars, active, fstab, runVars, outcome>>

\* swapon with the previous priority: it fails when the file is active still.
Reactivate ==
    /\ pc = "reactivating"
    /\ IF before.active /\ img \notin active \cup {NoFile}
         THEN active' = active \cup {img}
         ELSE UNCHANGED active
    /\ clean' = (clean /\ (before.active => img \notin active))
    /\ spare' = spare \ {fresh}
    /\ End("failed")
    /\ UNCHANGED <<img, formatted, fstab, runVars>>

ReactivateFail ==
    /\ pc = "reactivating" /\ before.active /\ img # NoFile
    /\ \/ UNCHANGED active
       \/ active' = active \cup {img}
    /\ clean' = FALSE
    /\ spare' = spare \ {fresh}
    /\ End("failed")
    /\ UNCHANGED <<img, formatted, fstab, runVars>>

-----------------------------------------------------------------------------
(* Outside *)

\* The helper is killed; files, swap and fstab stay as they are.
Killed ==
    /\ pc # "idle"
    /\ End("killed")
    /\ UNCHANGED <<fileVars, active, fstab, runVars, clean>>

\* Power loss or restart: at boot the file that fstab names is switched on, if
\* it is there and has a signature.
Reboot ==
    /\ End("killed")
    /\ active' = IF fstab # "none" /\ img \in formatted THEN {img} ELSE {}
    /\ UNCHANGED <<fileVars, fstab, runVars, clean>>

Repair ==
    \/ Begin \/ Format \/ SwapOff \/ Retire \/ Place \/ List \/ Enable \/ Drop
    \/ SwapOffFail \/ ListFail \/ EnableFail \/ CallFail

Undo ==
    \/ Deactivate \/ Restore \/ Unlink \/ Bring \/ Reactivate
    \/ DeactivateFail \/ RestoreFail \/ UnlinkFail \/ BringFail \/ ReactivateFail

Next == Repair \/ Undo \/ Killed \/ Reboot

Spec == Init /\ [][Next]_vars

-----------------------------------------------------------------------------
(* Properties *)

\* Every variable has its type.
TypeOK ==
    /\ img \in MaybeFile
    /\ spare \subseteq Files
    /\ formatted \subseteq Files
    /\ active \subseteq Files
    /\ fstab \in Lines
    /\ pc \in {"idle"} \cup Steps \cup Rollback
    /\ fresh \in MaybeFile
    /\ backup \in MaybeFile
    /\ enabled \in BOOLEAN
    /\ clean \in BOOLEAN
    /\ before \in [img : MaybeFile, fstab : Lines, active : BOOLEAN]
    /\ outcome \in {"none", "repaired", "failed", "killed"}

\* The swap file a run found is not deleted before its replacement is formatted,
\* in place, in fstab and in use: whatever fails, whenever the helper is killed
\* or the power goes, the file is still there under some name.
PreviousKept ==
    before.img # NoFile /\ before.img \notin Linked =>
        /\ img = fresh /\ img \in formatted /\ img \in active
        /\ fstab = "managed"
        /\ outcome \in {"repaired", "killed"}

\* A failed repair that reports no rollback error has left everything as it
\* found it: the file, its line in fstab, what is active, and no litter.
RolledBack ==
    outcome = "failed" /\ clean =>
        /\ img = before.img
        /\ fstab = before.fstab
        /\ (img \in active) = before.active
        /\ fresh \notin Linked \cup active
        /\ backup \notin spare

\* A repair that reports success has one new, formatted swap file in place, in
\* use and in fstab, and has left none of its files behind.
Repaired ==
    outcome = "repaired" =>
        /\ img = fresh /\ img \in formatted /\ img \in active
        /\ fstab = "managed"
        /\ before.img \notin Linked \cup active

-----------------------------------------------------------------------------
(* The inductive invariants                                                *)

\* Where the old and the new file are at each step of a run.
RunShape ==
    /\ pc # "idle" =>
          fresh \in Files /\ fresh # before.img /\ outcome = "none"
    /\ pc \in {"made", "formatted", "emptied"} =>
          img = before.img /\ backup = NoFile
    /\ pc = "vacant" => img = NoFile /\ backup = before.img
    /\ pc \in {"placed", "listed", "enabled", "deactivating"} =>
          img = fresh /\ backup = before.img
    /\ pc \in {"restoring", "unlinking", "returning"} =>
          \/ img = before.img /\ backup = NoFile
          \/ img \in {NoFile, fresh} /\ backup = before.img
    /\ pc \notin {"idle", "reactivating"} => backup \in spare \cup {NoFile}
    /\ pc = "reactivating" =>
          before.img \in Linked \cup {NoFile}
    /\ pc \in Steps \ {"made"} => fresh \in formatted
    /\ pc \in Steps => enabled = (pc = "enabled")

FilesInv == TypeOK /\ RunShape

\* What is active and listed, and what a rollback without errors has restored.
ActiveShape ==
    /\ active \subseteq {img} \ {NoFile}
    /\ before.active => before.img # NoFile
    /\ pc \in {"made", "formatted"} => before.active = (img \in active)
    /\ pc \in {"emptied", "vacant", "placed", "listed"} => active = {}
    /\ pc = "enabled" => active = {img}
    /\ pc \in Rollback /\ img = before.img /\ ~before.active => active = {}
    /\ pc \in {"listed", "enabled"} => fstab = "managed"
    /\ clean /\ pc \in {"unlinking", "returning", "reactivating"} =>
          fstab = before.fstab
    /\ clean /\ pc = "returning" => img # fresh
    /\ clean /\ pc = "reactivating" => img = before.img /\ backup \notin spare

SwapInv == ActiveShape /\ PreviousKept /\ RolledBack /\ Repaired
=============================================================================
