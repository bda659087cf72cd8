---------------------------- MODULE ReleaseDownload ----------------------------
(***************************************************************************)
(* The download of a kernel release by a check of scripts/update-local.py: *)
(* the assets of one tag come one after the other into a partial directory *)
(* that an interrupted check leaves for the next, each into a `.part` file *)
(* that is resumed with an HTTP Range request; the complete directory is   *)
(* verified and becomes staged/.  What is installed is left out, and with  *)
(* it the refusal of what is older (UpdateController).                     *)
(*                                                                         *)
(* A file is the sequence of its blocks: a block is its place in the       *)
(* asset, Damaged when it is not what was published.                       *)
(***************************************************************************)
EXTENDS ReleaseProduction, Sequences

CONSTANTS
    LastAsset,  \* assets are 1..LastAsset, in the order of their names
    Size,       \* blocks of each
    NoFile

Asset   == 1..LastAsset
Damaged == 0

ASSUME DownloadAssumption ==
    /\ LastAsset \in Nat \ {0}
    /\ Size \in [Asset -> Nat \ {0}]
    /\ NoFile \notin Seq(Nat)

VARIABLES
    check,      \* control point of the check
    dir,        \* the tag of the partial directory, 0: none
    file, part, \* the completed file and the `.part` file of each asset
    asset,      \* the asset being downloaded
    next,       \* the block the open response sends next
    staged      \* the tag of staged/, 0: none

dvars == <<check, dir, file, part, asset, next, staged>>

NoFiles == [a \in Asset |-> NoFile]

DownloadInit ==
    /\ check = "idle"
    /\ dir = 0 /\ file = NoFiles /\ part = NoFiles
    /\ asset = 1 /\ next = 1
    /\ staged = 0

CheckAt(label) == check = label
CheckTo(label) == check' = label

Whole(a) == [b \in 1..Size[a] |-> b]

-----------------------------------------------------------------------------
\* The partial directory of any other tag is removed; so is staged/, unless it
\* verifies as this one, which ends the check.
Target(t) ==
    /\ CheckAt("idle")
    /\ IF staged = t THEN UNCHANGED <<check, asset, staged>>
       ELSE CheckTo("choosing") /\ asset' = 1 /\ staged' = 0
    /\ dir' = IF dir = t \/ staged # t THEN t ELSE 0
    /\ IF dir = t THEN UNCHANGED <<file, part>>
       ELSE file' = NoFiles /\ part' = NoFiles
    /\ UNCHANGED next

\* The newest release of the list.
StartDownload(t) == IsNewest(t) /\ Target(t)

\* The list is empty or cannot be read: Ubuntu's version is looked for instead, whatever
\* this project has released.
StartFallback(t) == Target(t)

\* Mutant: a draft is a release.
ExistsDraft == dir # 0 /\ remote[dir] # "none"

\* What GitHub knows of the tag.
Exists == dir \in Published

\* "release-unavailable"
Unavailable ==
    /\ CheckAt("choosing") /\ ~Exists
    /\ CheckTo("idle")
    /\ dir' = 0 /\ file' = NoFiles /\ part' = NoFiles
    /\ UNCHANGED <<asset, next, staged>>

\* A file that is there has the size of its asset and is kept.
Missing == {a \in Asset : file[a] = NoFile}

AllKept ==
    /\ CheckAt("choosing") /\ Exists /\ Missing = {}
    /\ CheckTo("verifying")
    /\ UNCHANGED <<dir, file, part, asset, next, staged>>

\* The next asset is the first that is missing.
Choose(a) ==
    /\ CheckAt("choosing") /\ Exists
    /\ a \in Missing /\ \A b \in Missing : a <= b
    /\ asset' = a

\* os.replace(partial, destination)
Complete(a) ==
    /\ file' = [file EXCEPT ![a] = part[a]]
    /\ part' = [part EXCEPT ![a] = NoFile]
    /\ CheckTo("choosing")

\* Nothing is missing of a `.part` file.
CompletePart(a) ==
    /\ Choose(a)
    /\ part[a] # NoFile /\ Len(part[a]) = Size[a]
    /\ Complete(a)
    /\ UNCHANGED <<dir, next, staged>>

\* The asset is requested from its first block, into a new file ...
RequestAll(a) ==
    /\ Choose(a) /\ part[a] = NoFile
    /\ part' = [part EXCEPT ![a] = <<>>]
    /\ next' = 1
    /\ CheckTo("receiving")
    /\ UNCHANGED <<dir, file, staged>>

Resumable(a) ==
    /\ Choose(a) /\ part[a] # NoFile
    /\ Len(part[a]) \in 1..(Size[a] - 1)

\* ... or from the first that is missing: the server answers 206.
RequestRest(a) ==
    /\ Resumable(a)
    /\ next' = Len(part[a]) + 1
    /\ CheckTo("receiving")
    /\ UNCHANGED <<dir, file, part, staged>>

\* Mutant: any answer is appended.
RangeIgnoredAppend(a) ==
    /\ Resumable(a)
    /\ next' = 1
    /\ CheckTo("receiving")
    /\ UNCHANGED <<dir, file, part, staged>>

\* The server ignores the Range: the `.part` file is removed and the asset
\* requested again.
RangeIgnored(a) ==
    /\ Resumable(a)
    /\ part' = [part EXCEPT ![a] = NoFile]
    /\ UNCHANGED <<check, dir, file, next, staged>>

\* An empty `.part` file is neither resumed nor replaced: open("xb") raises
\* FileExistsError, and the partial directory is kept.
PartExists(a) ==
    /\ Choose(a) /\ part[a] = <<>>
    /\ CheckTo("idle")
    /\ UNCHANGED <<dir, file, part, next, staged>>

ReceiveBlock(b) ==
    /\ CheckAt("receiving")
    /\ next <= Size[asset] /\ Len(part[asset]) < Size[asset]
    /\ part' = [part EXCEPT ![asset] = Append(@, b)]
    /\ next' = next + 1
    /\ UNCHANGED <<check, dir, file, asset, staged>>

\* Mutant: a response may be longer than the asset.
ReceiveUnbounded ==
    /\ CheckAt("receiving")
    /\ part' = [part EXCEPT ![asset] = Append(@, next)]
    /\ next' = next + 1
    /\ UNCHANGED <<check, dir, file, asset, staged>>

Receive == ReceiveBlock(next)

\* The response ends, and all of the asset has come.
Finish ==
    /\ CheckAt("receiving")
    /\ next > Size[asset] /\ Len(part[asset]) = Size[asset]
    /\ Complete(asset)
    /\ UNCHANGED <<dir, asset, next, staged>>

\* Content is compared with the signed Manifest: every asset is what was
\* published, and nothing else is there.
Authentic ==
    /\ dir \in sound
    /\ \A a \in Asset : file[a] = Whole(a) /\ part[a] = NoFile

\* Mutant: a directory that does not verify is kept for the next check.
VerifyKept ==
    /\ CheckAt("verifying")
    /\ IF Authentic THEN /\ staged' = dir /\ dir' = 0
                         /\ file' = NoFiles /\ part' = NoFiles
       ELSE UNCHANGED <<staged, dir, file, part>>
    /\ CheckTo("idle")
    /\ UNCHANGED <<asset, next>>

\* replace_directory, or the partial directory is removed.
VerifyDownload ==
    /\ CheckAt("verifying")
    /\ staged' = IF Authentic THEN dir ELSE staged
    /\ dir' = 0 /\ file' = NoFiles /\ part' = NoFiles
    /\ CheckTo("idle")
    /\ UNCHANGED <<asset, next>>

-----------------------------------------------------------------------------
\* The connection fails or times out, the response is too short or too long,
\* or the check is stopped or killed: what has come is kept.
Interrupted ==
    /\ ~CheckAt("idle")
    /\ CheckTo("idle")
    /\ UNCHANGED <<dir, file, part, asset, next, staged>>

DamagedBlock == ReceiveBlock(Damaged)

ChooseAsset ==
    \/ Unavailable \/ AllKept
    \/ \E a \in Asset :
         CompletePart(a) \/ RequestAll(a) \/ RequestRest(a) \/ PartExists(a)
Transfer    == Receive \/ Finish

DownloadStep ==
    \/ \E t \in Tag : StartDownload(t) \/ (Published = {} /\ StartFallback(t))
    \/ ChooseAsset \/ Transfer \/ VerifyDownload

DownloadDisturbance ==
    \/ \E t \in Tag : StartFallback(t)
    \/ (\E a \in Asset : RangeIgnored(a)) \/ DamagedBlock

-----------------------------------------------------------------------------
(* Properties *)

Content == Seq(Nat) \cup {NoFile}

DownloadTypeOK ==
    /\ check \in {"idle", "choosing", "receiving", "verifying"}
    /\ dir \in 0..MaxTag /\ staged \in 0..MaxTag
    /\ asset \in Asset /\ next \in Nat \ {0}
    /\ file \in [Asset -> Content] /\ part \in [Asset -> Content]
    /\ \A a \in Asset : part[a] # NoFile => Len(part[a]) <= Size[a]

\* However often a download was interrupted and resumed, and whether or not the
\* server honoured the Range, no block of a file is in another's place, and a
\* file that has lost its `.part` name is complete.
InPlace ==
    \A a \in Asset :
        /\ \A f \in {file[a], part[a]} :
              f # NoFile => \A b \in 1..Len(f) : f[b] \in {b, Damaged}
        /\ file[a] # NoFile => Len(file[a]) = Size[a]

\* A check was interrupted after an asset was opened and before its first block.
EmptyPart == ~CheckAt("receiving") /\ \E a \in Asset : part[a] = <<>>

\* A release that is published is eventually staged, unless a newer one is
\* published, however often its download is interrupted: what has come is kept,
\* and a damaged download is not.  Checks that cannot read the list and turn to
\* another tag throw away what has come, and what was staged; once they are
\* over it is staged again.  An interruption before the first block of an asset
\* is the exception (ResumesAnyPart).
DownloadCompletes ==
    \A t \in Tag :
        (kind = "kernel" /\ IsNewest(t)) ~> (staged = t \/ ~IsNewest(t) \/ EmptyPart)

\* What docs/manager-vm-test.md:58-61 says: a check that is paused during an
\* asset, or interrupted, is resumed from the retained `.part` file.  One
\* without a block is never resumed: every later check of the release fails.
ResumesAnyPart ==
    \A t \in Tag :
        (kind = "kernel" /\ IsNewest(t)) ~> (staged = t \/ ~IsNewest(t))

=============================================================================
