---------------------------- MODULE ReleaseDelivery ----------------------------
(***************************************************************************)
(* Releases from the workflow that builds them to the machine: of kernel   *)
(* releases, what the updater downloads and stages; of Manager releases,   *)
(* what it announces to the user.                                          *)
(***************************************************************************)
EXTENDS ReleaseDownload, UpdateNotices

vars == <<pvars, dvars, nvars>>

Init == ProductionInit /\ DownloadInit /\ NoticeInit

Downloading(A) == kind = "kernel" /\ A /\ UNCHANGED <<pvars, nvars>>
Announcing(A)  == kind = "manager" /\ A /\ UNCHANGED <<pvars, dvars>>
Disturbance ==
    /\ disturbances < MaxDisturbances
    /\ disturbances' = disturbances + 1

Disturbed ==
    /\ Disturbance
    /\ \/ ProductionDisturbance /\ UNCHANGED <<dvars, nvars>>
       \/ /\ kind = "kernel" /\ DownloadDisturbance
          /\ UNCHANGED <<kind, upstream, build, remote, sound, nvars>>
       \/ /\ kind = "manager" /\ NoticeDisturbance
          /\ UNCHANGED <<kind, upstream, build, remote, sound, dvars>>

Producing(A) == A /\ UNCHANGED <<disturbances, dvars, nvars>>

Next ==
    \/ Producing(JobStep) \/ Producing(NewVersion)
    \/ Downloading(DownloadStep) \/ Downloading(Interrupted)
    \/ Announcing(NoticeStep) \/ Announcing(\E t \in Tag : InstallManager(t))
    \/ Disturbed

\* The kernel's workflow has a schedule: what has begun goes on, and is begun
\* again every day.  The Manager's runs when someone pushes, which nothing
\* promises.  The timer starts checks for ever, and a download is not always
\* interrupted at the same step.  Checks are far enough apart for a notifier to
\* start between two of them.
Fairness ==
    /\ WF_vars(Producing(kind = "kernel" /\ JobStep))
    /\ SF_vars(Downloading(\E t \in Tag : StartDownload(t)))
    /\ SF_vars(Downloading(ChooseAsset))
    /\ SF_vars(Downloading(Transfer))
    /\ SF_vars(Downloading(VerifyDownload))
    /\ WF_vars(Announcing(CheckStep))
    /\ SF_vars(Announcing(available # 0 /\ Start("unit")))
    /\ \A p \in Notifier : WF_vars(Announcing(NotifierStep(p)))

Spec == Init /\ [][Next]_vars /\ Fairness

TypeOK == ProductionTypeOK /\ DownloadTypeOK /\ NoticeTypeOK

-----------------------------------------------------------------------------
(* The abstract specification *)

Promise == INSTANCE ReleasePromise
             WITH released <- Published, announced <- seen

\* However runs of the workflows are cancelled, repeated and refused, no release
\* that is out is taken back or turned into a draft again; and however downloads
\* and notifiers are interrupted, and whichever tag a check turns to, the updater
\* stages and the notifiers announce only releases that are out.
KeepsReleasePromise == Promise!Spec

-----------------------------------------------------------------------------
(* What makes it so *)

\* A run edits the release that it has created.
EditsOwnDraft ==
    /\ job = "uploading" => remote[tag] = "partial"
    /\ job = "editing" => remote[tag] = "draft"

\* What the updater receives and verifies is out, and so is what it has staged;
\* while it does nothing is staged.
FetchesPublished ==
    /\ staged \in Published \cup {0}
    /\ check \in {"receiving", "verifying"} => dir \in Published
    /\ ~CheckAt("idle") => staged = 0

\* What a notifier was started for is out.
OffersPublished ==
    /\ available \in Published \cup {0}
    /\ \A p \in Notifier : candidate[p] \in Published \cup {0}

OnlyPublished == EditsOwnDraft /\ FetchesPublished /\ OffersPublished

=============================================================================
