-------------------------------- MODULE TpmBoot --------------------------------
(***************************************************************************)
(* TPM automatic unlock as scripts/manager-helper.py sets it up            *)
(* (action_enroll_tpm): the recovery password is tried, the LUKS header is *)
(* saved, a token is enrolled and tried, and then crypttab and the         *)
(* initramfs of the running project kernel are replaced by checked ones.   *)
(* Any call may fail, a command or a write may fail after it had its       *)
(* effect, the helper can be killed and the machine can restart anywhere.  *)
(*                                                                         *)
(* The helper's lock keeps a second enrollment out.  An initramfs is       *)
(* reduced to the crypttab entry in it and to whether it is complete.      *)
(***************************************************************************)
EXTENDS FiniteSets

CONSTANTS
    Tokens,     \* the token slots of the LUKS header
    NoImage

Entries == {"plain", "tpm"}     \* the root entry: without and with tpm2-device=
Images == [entry : Entries, complete : BOOLEAN]

ASSUME TpmAssumption == NoImage \notin Images

VARIABLES
    tokens,     \* the systemd-tpm2 tokens in the header
    sealed,     \* those the TPM can unseal in this boot
    headers,    \* what the header backups hold
    crypttab,
    initrd,     \* /boot/initrd.img-<release>
    candidate,  \* the image that dracut made
    previous,   \* the link to the image that is replaced
    pc,
    found,      \* tokens, crypttab and initrd when the run began
    usable,     \* some token passed: nothing is enrolled
    changed,    \* crypttab_changed
    outcome     \* how the last run ended

luksVars == <<tokens, sealed, headers>>
bootVars == <<crypttab, initrd, candidate, previous>>
runVars  == <<found, usable, changed>>
vars == <<luksVars, bootVars, pc, runVars, outcome>>

Steps == {"asked", "proven", "saved", "enrolled", "configuring", "listed",
          "built", "checked", "linked", "replaced", "reverting", "restoring"}
Outcomes == {"none", "configured", "refused", "failed", "killed"}

Goto(l) == pc' = l
End(result) == Goto("idle") /\ outcome' = result

\* configure_tpm_boot's except clause: crypttab is restored if it was changed.
Abort == IF changed THEN Goto("restoring") /\ UNCHANGED outcome ELSE End("failed")

Init ==
    /\ tokens \in SUBSET Tokens
    /\ sealed \in SUBSET tokens
    /\ headers = {}
    /\ crypttab \in Entries
    /\ initrd \in [entry : Entries, complete : {TRUE}]
    /\ candidate = NoImage /\ previous = NoImage
    /\ pc = "idle"
    /\ found = [tokens |-> tokens, crypttab |-> crypttab, initrd |-> initrd]
    /\ usable = FALSE /\ changed = FALSE
    /\ outcome = "none"

-----------------------------------------------------------------------------
(* The token *)

\* require_project_boot and inspect_tpm_tokens
Begin ==
    /\ pc = "idle"
    /\ found' = [tokens |-> tokens, crypttab |-> crypttab, initrd |-> initrd]
    /\ usable' = (sealed # {}) /\ changed' = FALSE
    /\ candidate' = NoImage /\ previous' = NoImage
    /\ outcome' = "none"
    /\ Goto("asked")
    /\ UNCHANGED <<luksVars, crypttab, initrd>>

\* The recovery password opens the volume.
Prove ==
    /\ pc = "asked"
    /\ Goto(IF usable THEN "configuring" ELSE "proven")
    /\ UNCHANGED <<luksVars, bootVars, runVars, outcome>>

\* Mutant: the header is not saved.
SaveHeaderSkipped ==
    /\ pc = "proven"
    /\ Goto("saved")
    /\ UNCHANGED <<luksVars, bootVars, runVars, outcome>>

\* backup_luks_header
SaveHeader ==
    /\ pc = "proven"
    /\ headers' = headers \cup {tokens}
    /\ Goto("saved")
    /\ UNCHANGED <<tokens, sealed, bootVars, runVars, outcome>>

\* systemd-cryptenroll; whether the TPM will unseal the token shows later.
Enrolling ==
    \E t \in Tokens \ tokens :
        /\ tokens' = tokens \cup {t}
        /\ sealed' \in {sealed, sealed \cup {t}}
        /\ UNCHANGED headers

Enroll ==
    /\ pc = "saved"
    /\ Enrolling
    /\ Goto("enrolled")
    /\ UNCHANGED <<bootVars, runVars, outcome>>

\* The command fails, or is killed at its time limit with the token enrolled.
EnrollFail ==
    /\ pc = "saved"
    /\ Enrolling \/ UNCHANGED luksVars
    /\ End("refused")
    /\ UNCHANGED <<bootVars, runVars>>

\* Mutant: the new token is not tried.
TryTokenSkipped ==
    /\ pc = "enrolled"
    /\ Goto("configuring")
    /\ UNCHANGED <<luksVars, bootVars, runVars, outcome>>

\* verify_tpm_tokens(device, added)
TryToken ==
    /\ pc = "enrolled"
    /\ (tokens \ found.tokens) \cap sealed # {}
    /\ Goto("configuring")
    /\ UNCHANGED <<luksVars, bootVars, runVars, outcome>>

\* A wrong password, no backup, a token that does not work: crypttab and the
\* initramfs have not been touched.
Refuse ==
    /\ pc \in {"asked", "proven", "enrolled"}
    /\ End("refused")
    /\ UNCHANGED <<luksVars, bootVars, runVars>>

-----------------------------------------------------------------------------
(* crypttab and the initramfs *)

\* ensure_tpm_crypttab
List ==
    /\ pc = "configuring"
    /\ crypttab' = "tpm"
    /\ changed' = (crypttab # "tpm")
    /\ Goto("listed")
    /\ UNCHANGED <<luksVars, initrd, candidate, previous, found, usable, outcome>>

\* write_atomic raises, before or after the file was replaced: crypttab_changed
\* is not assigned.
ListFail ==
    /\ pc = "configuring" /\ crypttab # "tpm"
    /\ crypttab' \in Entries
    /\ End("failed")
    /\ UNCHANGED <<luksVars, initrd, candidate, previous, runVars>>

\* dracut includes the crypttab it finds.
Build ==
    /\ pc = "listed"
    /\ candidate' \in [entry : {crypttab}, complete : BOOLEAN]
    /\ Goto("built")
    /\ UNCHANGED <<luksVars, crypttab, initrd, previous, runVars, outcome>>

\* Mutant: only the embedded crypttab is looked at.
CheckEntryOnly ==
    /\ pc = "built"
    /\ candidate.entry = "tpm"
    /\ Goto("checked")
    /\ UNCHANGED <<luksVars, bootVars, runVars, outcome>>

\* verify_encrypted_root_initramfs
Check ==
    /\ pc = "built"
    /\ candidate.complete
    /\ candidate.entry = crypttab /\ candidate.entry = "tpm"
    /\ Goto("checked")
    /\ UNCHANGED <<luksVars, bootVars, runVars, outcome>>

\* Mutant: the current image is not linked.
LinkSkipped ==
    /\ pc = "checked"
    /\ Goto("linked")
    /\ UNCHANGED <<luksVars, bootVars, runVars, outcome>>

\* os.link(target, backup)
Link ==
    /\ pc = "checked"
    /\ previous' = initrd
    /\ Goto("linked")
    /\ UNCHANGED <<luksVars, crypttab, initrd, candidate, runVars, outcome>>

\* os.replace(candidate, target)
Replace ==
    /\ pc = "linked"
    /\ initrd' = candidate
    /\ candidate' = NoImage
    /\ Goto("replaced")
    /\ UNCHANGED <<luksVars, crypttab, previous, runVars, outcome>>

\* The directory is synced; the link is removed, or stays with a warning.
Finish ==
    /\ pc = "replaced"
    /\ previous' \in {previous, NoImage}
    /\ End("configured")
    /\ UNCHANGED <<luksVars, crypttab, initrd, candidate, runVars>>

\* Nothing has been replaced yet: the finally clause removes what was made.
BuildFail ==
    /\ pc \in {"listed", "built", "checked", "linked"}
    /\ candidate' = NoImage /\ previous' = NoImage
    /\ Abort
    /\ UNCHANGED <<luksVars, crypttab, initrd, runVars>>

\* The directory's fsync fails after the replacement.
FinishFail ==
    /\ pc = "replaced"
    /\ Goto("reverting")
    /\ UNCHANGED <<luksVars, bootVars, runVars, outcome>>

\* os.replace(backup, target)
Revert ==
    /\ pc = "reverting"
    /\ initrd' = previous
    /\ previous' = NoImage
    /\ Abort
    /\ UNCHANGED <<luksVars, crypttab, candidate, runVars>>

\* keep_backup: "the previous image remains at ..."
RevertFail ==
    /\ pc = "reverting"
    /\ Abort
    /\ UNCHANGED <<luksVars, bootVars, runVars>>

\* write_atomic(CRYPTTAB_PATH, original_crypttab)
Restore ==
    /\ pc = "restoring"
    /\ crypttab' = found.crypttab
    /\ End("failed")
    /\ UNCHANGED <<luksVars, initrd, candidate, previous, runVars>>

RestoreFail ==
    /\ pc = "restoring"
    /\ crypttab' \in {crypttab, found.crypttab}
    /\ End("failed")
    /\ UNCHANGED <<luksVars, initrd, candidate, previous, runVars>>

-----------------------------------------------------------------------------
(* Outside *)

\* The helper is killed: files and header stay as they are.
Killed ==
    /\ pc # "idle"
    /\ End("killed")
    /\ UNCHANGED <<luksVars, bootVars, runVars>>

\* The machine restarts: the firmware's measurements, and with them the tokens
\* the TPM unseals, may be others.
Reboot ==
    /\ Goto("idle")
    /\ outcome' = IF pc # "idle" THEN "killed"
                  ELSE IF outcome = "configured" THEN "none" ELSE outcome
    /\ sealed' \in SUBSET tokens
    /\ UNCHANGED <<tokens, headers, bootVars, runVars>>

EnrollToken ==
    \/ Begin \/ Prove \/ SaveHeader \/ Enroll \/ TryToken
    \/ EnrollFail \/ Refuse

ConfigureBoot ==
    \/ List \/ Build \/ Check \/ Link \/ Replace \/ Finish
    \/ ListFail \/ BuildFail \/ FinishFail
    \/ Revert \/ RevertFail \/ Restore \/ RestoreFail

Next == EnrollToken \/ ConfigureBoot \/ Killed \/ Reboot

Spec == Init /\ [][Next]_vars

-----------------------------------------------------------------------------
(* Properties *)

\* Every variable has its type.
TypeOK ==
    /\ tokens \in SUBSET Tokens /\ sealed \in SUBSET tokens
    /\ headers \subseteq SUBSET Tokens
    /\ crypttab \in Entries
    /\ initrd \in Images
    /\ candidate \in Images \cup {NoImage}
    /\ previous \in Images \cup {NoImage}
    /\ pc \in {"idle"} \cup Steps
    /\ found \in [tokens : SUBSET Tokens, crypttab : Entries, initrd : Images]
    /\ usable \in BOOLEAN /\ changed \in BOOLEAN
    /\ outcome \in Outcomes

\* Whenever the machine restarts it finds a complete initramfs, and one that was
\* replaced asks the TPM.
BootImage ==
    /\ initrd.complete
    /\ initrd # found.initrd => initrd.entry = "tpm"

\* Until an enrollment reports success the initramfs it found is in place or
\* linked beside its replacement: it can be brought back by hand.
PreviousImageKept ==
    pc # "idle" \/ outcome \in {"refused", "failed", "killed"} =>
        found.initrd \in {initrd, previous}

\* The LUKS header changes only when no token works, and what it was before is
\* in a backup.
EnrollmentJustified ==
    [][tokens' # tokens => sealed = {} /\ tokens \in headers]_vars

\* A run that reports success has left a token that works, a crypttab and an
\* initramfs that ask for it.
Configured ==
    outcome = "configured" =>
        /\ sealed # {}
        /\ crypttab = "tpm"
        /\ initrd.complete /\ initrd.entry = "tpm"

-----------------------------------------------------------------------------
(* The inductive invariant: what each step may rely on.                     *)
RunShape ==
    /\ pc = "asked" => usable = (sealed # {})
    /\ pc \in {"proven", "saved"} => ~usable /\ sealed = {}
    /\ pc = "saved" => tokens \in headers
    /\ pc \in {"configuring", "listed", "built", "checked", "linked", "replaced"} =>
          sealed # {}
    /\ pc \in {"asked", "proven", "saved", "enrolled", "configuring"} =>
          initrd = found.initrd
    /\ pc \in {"listed", "built", "checked", "linked"} =>
          initrd = found.initrd /\ crypttab = "tpm"
    /\ pc \in {"checked", "linked"} => candidate = [entry |-> "tpm", complete |-> TRUE]
    /\ pc \in {"linked", "replaced", "reverting"} => previous = found.initrd
    /\ pc = "replaced" => crypttab = "tpm" /\ initrd.entry = "tpm"
    /\ pc # "idle" => outcome = "none"
    /\ found.initrd.complete
    /\ pc = "built" => candidate \in Images

TpmInv == TypeOK /\ RunShape /\ BootImage /\ PreviousImageKept /\ Configured
=============================================================================
