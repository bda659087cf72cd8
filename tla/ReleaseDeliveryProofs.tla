------------------------- MODULE ReleaseDeliveryProofs -------------------------
(***************************************************************************)
(* Proofs about the delivery of releases, for any number of versions,      *)
(* assets and blocks: production, download and announcement each have an   *)
(* inductive invariant, which the steps of the others leave alone.         *)
(***************************************************************************)
EXTENDS ReleaseDelivery, TLAPS

-----------------------------------------------------------------------------
(* Production *)

\* The variables of ReleaseProduction that only its actions change.
prodVars == <<kind, upstream, build, remote, sound>>

\* The publishing job has verified the directory it is about to publish, and
\* has uploaded what it verified.
ProductionInv ==
    /\ ProductionTypeOK
    /\ job # "idle" => payload # 0
    /\ job = "verified" => Verifies
    /\ job \in {"uploading", "editing"} => tag \in sound
    /\ PublishedVerifies

ProductionNext == JobStep \/ NewVersion \/ ProductionDisturbance

\* Initially nothing is published.
LEMMA ProductionStart == ProductionInit => ProductionInv
  BY ProductionAssumption
     DEF ProductionInit, ProductionInv, ProductionTypeOK, PublishedVerifies, Published,
         Verifies, Tag, Meta, NoMeta, JobLabels

\* Every step of a workflow preserves the types.
LEMMA ProductionTypes == ProductionInv /\ ProductionNext => ProductionTypeOK'
  <1> SUFFICES ASSUME ProductionInv, ProductionNext PROVE ProductionTypeOK'
    OBVIOUS
  <1> USE DEF ProductionInv, ProductionTypeOK, JobLabels, JobAt, JobTo, build
  <1>0. NoMeta \in [Meta -> 0..2]
    BY DEF NoMeta
  <1>1. CASE Begin \/ BeginAgain \/ Create
    BY <1>0, <1>1 DEF Begin, BeginAgain, Create
  <1>2. CASE \E f \in Meta : Write(f)
    <2>1. meta' \in [Meta -> 0..2]
      <3>1. PICK f \in Meta : Write(f)
        BY <1>2
      <3>2. (IF f = "signature" /\ kind = "kernel" THEN meta["manifest"] ELSE payload) \in 0..2
        BY DEF Meta
      <3> QED
        BY <3>1, <3>2 DEF Write
    <2> QED
      BY <1>2, <2>1 DEF Write
  <1>3. CASE Check \/ Verify
    <2>1. meta' \in [Meta -> 0..2]
      BY <1>0, <1>3 DEF Check, Verify, Unsigned
    <2>2. UNCHANGED <<kind, upstream, tag, payload, remote, sound>>
      BY <1>3 DEF Check, Verify
    <2>3. job' \in JobLabels
      BY <1>3 DEF Check, Verify
    <2> QED
      BY <2>1, <2>2, <2>3
  <1>4. CASE Draft \/ Upload
    BY <1>4 DEF Draft, Upload
  <1>5. CASE DraftRefused \/ Edit
    BY <1>0, <1>5 DEF DraftRefused, Edit, Discard
  <1>6. CASE NewVersion
    BY <1>6, ProductionAssumption DEF NewVersion, Tag
  <1>7. CASE CreateFails \/ JobStops
    <2>1. meta' \in [Meta -> 0..2]
      BY <1>0, <1>7 DEF CreateFails, JobStops, Unsigned
    <2>2. UNCHANGED <<kind, upstream, tag, payload, remote, sound>> /\ job' = "idle"
      BY <1>7 DEF CreateFails, JobStops
    <2> QED
      BY <2>1, <2>2
  <1>8. CASE PayloadChanges
    <2>1. payload' \in 0..2
      BY <1>8 DEF PayloadChanges
    <2> QED
      BY <1>8, <2>1 DEF PayloadChanges
  <1> QED
    BY <1>1, <1>2, <1>3, <1>4, <1>5, <1>6, <1>7, <1>8
       DEF ProductionNext, JobStep, ProductionDisturbance

\* Every step of a workflow preserves the invariant.
LEMMA ProductionStep == ProductionInv /\ ProductionNext => ProductionInv'
  <1> SUFFICES ASSUME ProductionInv, ProductionNext PROVE ProductionInv'
    OBVIOUS
  <1>0. ProductionTypeOK'
    BY ProductionTypes
  <1> SUFFICES /\ (job # "idle" => payload # 0)'
               /\ (job = "verified" => Verifies)'
               /\ (job \in {"uploading", "editing"} => tag \in sound)'
               /\ PublishedVerifies'
    BY <1>0 DEF ProductionInv
  <1> USE DEF ProductionInv, PublishedVerifies, Published, JobAt, JobTo, build
  <1>1. CASE Begin \/ BeginAgain \/ Create
    BY <1>1 DEF Begin, BeginAgain, Create
  <1>2. CASE \E f \in Meta : Write(f)
    BY <1>2 DEF Write
  <1>3. CASE Check
    BY <1>3 DEF Check
  <1>4. CASE Verify
    BY <1>4 DEF Verify, Verifies
  <1>5. CASE Draft
    BY <1>5 DEF Draft, ProductionTypeOK
  <1>6. CASE Upload
    BY <1>6 DEF Upload, ProductionTypeOK
  <1>7. CASE DraftRefused
    BY <1>7 DEF DraftRefused, Discard
  <1>8. CASE Edit
    BY <1>8 DEF Edit, Discard, ProductionTypeOK
  <1>9. CASE NewVersion \/ PayloadChanges
    BY <1>9 DEF NewVersion, PayloadChanges, Verifies, ProductionTypeOK
  <1>10. CASE CreateFails \/ JobStops
    BY <1>10 DEF CreateFails, JobStops
  <1> QED
    BY <1>1, <1>2, <1>3, <1>4, <1>5, <1>6, <1>7, <1>8, <1>9, <1>10
       DEF ProductionNext, JobStep, ProductionDisturbance

\* The other components leave it alone.
LEMMA ProductionKept == ProductionInv /\ UNCHANGED prodVars => ProductionInv'
  BY DEF ProductionInv, ProductionTypeOK, PublishedVerifies, Published, Verifies,
         prodVars, build

-----------------------------------------------------------------------------
(* Download *)

\* What a step of the download relies on: while an asset is being received its
\* `.part` file ends where the response goes on.
DownloadInv ==
    /\ DownloadTypeOK
    /\ CheckAt("receiving") => part[asset] # NoFile /\ next = Len(part[asset]) + 1
    /\ InPlace

\* Initially there is no file.
LEMMA DownloadStart == DownloadInit => DownloadInv
  BY DownloadAssumption, ProductionAssumption
     DEF DownloadInit, DownloadInv, DownloadTypeOK, InPlace, CheckAt, NoFiles, Content,
         Asset

\* A file is not NoFile.
LEMMA FileIsThere == ASSUME NEW f \in Seq(Nat) PROVE f # NoFile
  BY DownloadAssumption

\* One more block in its place leaves every block in its place.
LEMMA AppendInPlace ==
  ASSUME NEW f \in Seq(Nat), NEW b \in {Len(f) + 1, Damaged},
         \A i \in 1..Len(f) : f[i] \in {i, Damaged}
  PROVE  /\ Append(f, b) \in Seq(Nat) /\ Len(Append(f, b)) = Len(f) + 1
         /\ \A i \in 1..Len(Append(f, b)) : Append(f, b)[i] \in {i, Damaged}
  BY DEF Damaged

DownloadNext == DownloadStep \/ Interrupted \/ DownloadDisturbance

\* Every step of the download preserves its invariant.
LEMMA DownloadInvStep ==
  DownloadInv /\ ProductionTypeOK /\ DownloadNext => DownloadInv'
  <1> SUFFICES ASSUME DownloadInv, ProductionTypeOK, DownloadNext PROVE DownloadInv'
    OBVIOUS
  <1> USE DEF DownloadInv, DownloadTypeOK, InPlace, CheckAt, CheckTo, Content
  <1>0. NoFiles \in [Asset -> Content] /\ \A a \in Asset : NoFiles[a] = NoFile
    BY DEF NoFiles
  <1>1. ASSUME NEW t \in Tag, Target(t) PROVE DownloadInv'
    <2>1. file' \in [Asset -> Content] /\ part' \in [Asset -> Content]
      BY <1>0, <1>1 DEF Target
    <2>2. t \in 0..MaxTag /\ 0 \in 0..MaxTag /\ 1 \in Asset
      BY DownloadAssumption, ProductionAssumption DEF Tag, Asset
    <2>3. /\ check' \in {"idle", "choosing"} /\ asset' \in Asset /\ next' = next
          /\ dir' \in 0..MaxTag /\ staged' \in 0..MaxTag
      BY <1>1, <2>2 DEF Target
    <2>4. \/ file' = file /\ part' = part
          \/ file' = NoFiles /\ part' = NoFiles
      BY <1>1 DEF Target
    <2> QED
      BY <1>0, <2>1, <2>3, <2>4
  <1>u. CASE Unavailable
    <2>1. 0 \in 0..MaxTag
      BY ProductionAssumption
    <2> QED
      BY <1>0, <1>u, <2>1 DEF Unavailable
  <1>2. CASE AllKept
    BY <1>2 DEF AllKept
  <1>3. ASSUME NEW a \in Asset, CompletePart(a) PROVE DownloadInv'
    BY <1>3 DEF CompletePart, Choose, Complete
  <1>4. ASSUME NEW a \in Asset, RequestAll(a) PROVE DownloadInv'
    <2>1. <<>> \in Seq(Nat) /\ Len(<<>>) = 0
      OBVIOUS
    <2>2. <<>> # NoFile
      BY <2>1, FileIsThere
    <2>3. Size[a] \in Nat
      BY DownloadAssumption
    <2> QED
      BY <1>4, <2>1, <2>2, <2>3 DEF RequestAll, Choose
  <1>5. ASSUME NEW a \in Asset, RequestRest(a) PROVE DownloadInv'
    BY <1>5, DownloadAssumption DEF RequestRest, Resumable, Choose
  <1>6. ASSUME NEW a \in Asset, RangeIgnored(a) PROVE DownloadInv'
    BY <1>6 DEF RangeIgnored, Resumable, Choose
  <1>7. ASSUME NEW a \in Asset, PartExists(a) PROVE DownloadInv'
    BY <1>7 DEF PartExists, Choose
  <1>8. ASSUME NEW b \in {next, Damaged}, ReceiveBlock(b) PROVE DownloadInv'
    <2> DEFINE f == part[asset]
    <2>1. f \in Seq(Nat) /\ b \in {Len(f) + 1, Damaged}
      BY <1>8 DEF ReceiveBlock
    <2>2. \A i \in 1..Len(f) : f[i] \in {i, Damaged}
      BY <1>8 DEF ReceiveBlock
    <2> DEFINE g == Append(f, b)
    <2>3. /\ g \in Seq(Nat) /\ Len(g) = Len(f) + 1
          /\ \A i \in 1..Len(g) : g[i] \in {i, Damaged}
      BY <2>1, <2>2, AppendInPlace
    <2>4. part' = [part EXCEPT ![asset] = g]
      BY <1>8 DEF ReceiveBlock
    <2>5. g # NoFile /\ Len(g) <= Size[asset]
      BY <1>8, <2>1, <2>3, FileIsThere, DownloadAssumption DEF ReceiveBlock
    <2> HIDE DEF f, g
    <2>6. DownloadTypeOK'
      BY <1>8, <2>3, <2>4, <2>5 DEF ReceiveBlock
    <2>7. (CheckAt("receiving") => part[asset] # NoFile /\ next = Len(part[asset]) + 1)'
      BY <1>8, <2>1, <2>3, <2>4, <2>5 DEF ReceiveBlock, f
    <2>8. InPlace'
      BY <1>8, <2>3, <2>4, <2>5 DEF ReceiveBlock
    <2> QED
      BY <2>6, <2>7, <2>8
  <1>9. CASE Finish
    BY <1>9 DEF Finish, Complete
  <1>10. CASE VerifyDownload
    BY <1>0, <1>10, ProductionAssumption DEF VerifyDownload
  <1>11. CASE Interrupted
    BY <1>11 DEF Interrupted
  <1> QED
    BY <1>1, <1>u, <1>2, <1>3, <1>4, <1>5, <1>6, <1>7, <1>8, <1>9, <1>10, <1>11
       DEF DownloadNext, DownloadStep, DownloadDisturbance, StartDownload,
           StartFallback, ChooseAsset, Transfer, Receive, DamagedBlock

\* The other components leave it alone.
LEMMA DownloadKept == DownloadInv /\ UNCHANGED dvars => DownloadInv'
  BY DEF DownloadInv, DownloadTypeOK, InPlace, CheckAt, dvars

-----------------------------------------------------------------------------
(* Announcement *)

\* At most one notifier shows a version, which is then the last shown; when none
\* does, the last shown is recorded, or was forgotten by a notifier that died.
NoticeInv ==
    /\ NoticeTypeOK
    /\ \A p, q \in Notifier : phase[p] = "showing" /\ phase[q] = "showing" => p = q
    /\ \A p \in Notifier : phase[p] = "showing" => lastShown = candidate[p]
    /\ LockFree => lastShown \in {0, notified}
    /\ ShownOnce

NoticeNext ==
    NoticeStep \/ NoticeDisturbance \/ \E t \in Tag : InstallManager(t)

NotifierNext(p) ==
    \/ Start(p) \/ NothingNew(p) \/ Show(p) \/ Record(p) \/ ShowFails(p)
    \/ NotifierDies(p)

\* Initially nothing was shown.
LEMMA NoticeStart == NoticeInit => NoticeInv
  <1> SUFFICES ASSUME NoticeInit PROVE NoticeInv
    OBVIOUS
  <1> USE DEF NoticeInit
  <1>1. 0 \in 0..MaxTag
    BY ProductionAssumption
  <1>2. NoticeTypeOK
    BY <1>1 DEF NoticeTypeOK
  <1>3. \A p \in Notifier : phase[p] # "showing"
    OBVIOUS
  <1> QED
    BY <1>2, <1>3 DEF NoticeInv, ShownOnce

\* The steps that no notifier takes.
LEMMA NoticeOthers ==
  ASSUME NoticeInv,
         \/ \E t \in 0..MaxTag : Offer(t) /\ UNCHANGED installed /\ checking' \in BOOLEAN
                              /\ UNCHANGED <<notified, notifiers>>
         \/ /\ installed' \in 0..MaxTag /\ checking' \in BOOLEAN
            /\ UNCHANGED <<files, changed, notifiers, missed>>
  PROVE  NoticeInv'
  <1> USE DEF NoticeInv, ShownOnce, LockFree, notifiers, files
  <1>1. NoticeTypeOK'
    BY DEF NoticeTypeOK, Offer
  <1> QED
    BY <1>1

\* Every step of a notifier preserves the types.
LEMMA NotifierTypes ==
  ASSUME NoticeInv, NEW p \in Notifier, NotifierNext(p)
  PROVE  NoticeTypeOK'
  <1> USE DEF NoticeInv, NoticeTypeOK, PhaseTo, Exit, files, Locked, Pending
  <1>0. candidate[p] \in 0..MaxTag
    OBVIOUS
  <1>e. ASSUME Exit(p)
        PROVE  /\ phase' \in [Notifier -> {"off", "waiting", "showing"}]
               /\ candidate' \in [Notifier -> 0..MaxTag]
    <2>1. 0 \in 0..MaxTag
      BY ProductionAssumption
    <2> QED
      BY <1>e, <2>1
  <1>1. CASE Start(p)
    <2>1. /\ phase' \in [Notifier -> {"off", "waiting", "showing"}]
          /\ candidate' \in [Notifier -> 0..MaxTag]
      BY <1>1 DEF Start
    <2>2. changed' \in BOOLEAN /\ missed' \in BOOLEAN
      BY <1>1 DEF Start
    <2> QED
      BY <1>1, <2>1, <2>2 DEF Start
  <1>2. CASE NothingNew(p) \/ ShowFails(p)
    BY <1>2, <1>e DEF NothingNew, ShowFails
  <1>3. CASE Show(p)
    <2>1. candidate[p] \in Tag
      BY <1>0, <1>3, ProductionAssumption DEF Show, ShowNew, Tag
    <2> QED
      BY <1>0, <1>3, <2>1 DEF Show, ShowNew
  <1>4. CASE Record(p)
    BY <1>0, <1>4, <1>e DEF Record
  <1>5. CASE NotifierDies(p)
    <2>1. lastShown' \in 0..MaxTag
      BY <1>5, ProductionAssumption DEF NotifierDies
    <2> QED
      BY <1>5, <1>e, <2>1 DEF NotifierDies
  <1> QED
    BY <1>1, <1>2, <1>3, <1>4, <1>5 DEF NotifierNext

\* Every step of a notifier preserves the invariant.
LEMMA NoticeNotifier ==
  ASSUME NoticeInv, NEW p \in Notifier, NotifierNext(p)
  PROVE  NoticeInv'
  <1>0. NoticeTypeOK'
    BY NotifierTypes
  <1> USE DEF NoticeInv, ShownOnce, LockFree, PhaseTo, Exit, files, Locked, Pending
  <1>t. /\ phase \in [Notifier -> {"off", "waiting", "showing"}]
        /\ candidate \in [Notifier -> 0..MaxTag]
    BY DEF NoticeTypeOK
  <1>1. CASE Start(p)
    BY <1>0, <1>t, <1>1 DEF Start
  <1>2. CASE NothingNew(p) \/ ShowFails(p)
    BY <1>0, <1>t, <1>2 DEF NothingNew, ShowFails
  <1>3. CASE Show(p)
    <2>1. lastShown # candidate[p]
      BY <1>3 DEF Show, ShowNew
    <2> QED
      BY <1>0, <1>t, <1>3, <2>1 DEF Show, ShowNew
  <1>4. CASE Record(p)
    BY <1>0, <1>t, <1>4 DEF Record
  <1>5. CASE NotifierDies(p)
    BY <1>0, <1>t, <1>5 DEF NotifierDies
  <1> QED
    BY <1>1, <1>2, <1>3, <1>4, <1>5 DEF NotifierNext

\* Every step of the announcement preserves its invariant.
LEMMA NoticeInvStep == NoticeInv /\ ProductionTypeOK /\ NoticeNext => NoticeInv'
  <1> SUFFICES ASSUME NoticeInv, ProductionTypeOK, NoticeNext PROVE NoticeInv'
    OBVIOUS
  <1> USE ProductionAssumption DEF Tag
  <1>0. 0 \in 0..MaxTag
    OBVIOUS
  <1>1. CASE BeginCheck \/ ReportFailure
    <2>1. Offer(0) /\ UNCHANGED installed /\ checking' \in BOOLEAN
      BY <1>1 DEF BeginCheck, ReportFailure
    <2>2. UNCHANGED <<notified, notifiers>>
      BY <1>1 DEF BeginCheck, ReportFailure
    <2> QED
      BY <1>0, <2>1, <2>2, NoticeOthers
  <1>2. ASSUME NEW t \in Tag, Report(t) PROVE NoticeInv'
    <2> DEFINE v == IF t > installed THEN t ELSE 0
    <2>1. v \in 0..MaxTag
      BY <1>0
    <2>2. Offer(v) /\ UNCHANGED installed /\ checking' \in BOOLEAN
      BY <1>2 DEF Report
    <2>3. UNCHANGED <<notified, notifiers>>
      BY <1>2 DEF Report
    <2> QED
      BY <2>1, <2>2, <2>3, NoticeOthers
  <1>3. ASSUME NEW t \in Tag, InstallManager(t) PROVE NoticeInv'
    BY <1>3, NoticeOthers DEF InstallManager, NoticeInv, NoticeTypeOK
  <1>4. CASE CheckDies
    BY <1>4, NoticeOthers DEF CheckDies, NoticeInv, NoticeTypeOK
  <1> QED
    BY <1>1, <1>2, <1>3, <1>4, NoticeNotifier
       DEF NoticeNext, NoticeStep, NoticeDisturbance, CheckStep, NotifierStep,
           NotifierNext

\* The other components leave it alone.
LEMMA NoticeKept == NoticeInv /\ UNCHANGED nvars => NoticeInv'
  BY DEF NoticeInv, NoticeTypeOK, ShownOnce, LockFree, nvars, files, notifiers

-----------------------------------------------------------------------------
(* All of it *)

DeliveryInv == ProductionInv /\ DownloadInv /\ NoticeInv /\ disturbances \in Nat

\* Every step of the system preserves the three invariants.
LEMMA DeliveryStep == DeliveryInv /\ [Next]_vars => DeliveryInv'
  <1> SUFFICES ASSUME DeliveryInv, [Next]_vars PROVE DeliveryInv'
    OBVIOUS
  <1> USE DEF DeliveryInv
  <1>0. ProductionTypeOK
    BY DEF ProductionInv
  <1>1. CASE Producing(JobStep) \/ Producing(NewVersion)
    BY <1>1, ProductionStep, DownloadKept, NoticeKept DEF Producing, ProductionNext
  <1>2. CASE Downloading(DownloadStep) \/ Downloading(Interrupted)
    <2>1. UNCHANGED prodVars /\ UNCHANGED nvars /\ DownloadNext /\ UNCHANGED disturbances
      BY <1>2 DEF Downloading, DownloadNext, pvars, prodVars
    <2> QED
      BY <1>0, <2>1, ProductionKept, DownloadInvStep, NoticeKept
  <1>3. CASE \/ Announcing(NoticeStep)
             \/ Announcing(\E t \in Tag : InstallManager(t))
    <2>1. UNCHANGED prodVars /\ UNCHANGED dvars /\ NoticeNext /\ UNCHANGED disturbances
      BY <1>3 DEF Announcing, NoticeNext, pvars, prodVars
    <2> QED
      BY <1>0, <2>1, ProductionKept, NoticeInvStep, DownloadKept
  <1>4. CASE Disturbed
    <2>0. disturbances' \in Nat
      BY <1>4 DEF Disturbed, Disturbance
    <2>1. CASE ProductionDisturbance /\ UNCHANGED <<dvars, nvars>>
      BY <2>0, <2>1, ProductionStep, DownloadKept, NoticeKept DEF ProductionNext
    <2>2. CASE /\ DownloadDisturbance
               /\ UNCHANGED <<kind, upstream, build, remote, sound, nvars>>
      <3>1. UNCHANGED prodVars /\ UNCHANGED nvars /\ DownloadNext
        BY <2>2 DEF DownloadNext, prodVars
      <3> QED
        BY <1>0, <2>0, <3>1, ProductionKept, DownloadInvStep, NoticeKept
    <2>3. CASE /\ NoticeDisturbance
               /\ UNCHANGED <<kind, upstream, build, remote, sound, dvars>>
      <3>1. UNCHANGED prodVars /\ UNCHANGED dvars /\ NoticeNext
        BY <2>3 DEF NoticeNext, prodVars
      <3> QED
        BY <1>0, <2>0, <3>1, ProductionKept, NoticeInvStep, DownloadKept
    <2> QED
      BY <1>4, <2>1, <2>2, <2>3 DEF Disturbed
  <1>5. CASE UNCHANGED vars
    <2>1. /\ UNCHANGED prodVars /\ UNCHANGED dvars /\ UNCHANGED nvars
          /\ UNCHANGED disturbances
      BY <1>5 DEF vars, pvars, prodVars
    <2> QED
      BY <2>1, ProductionKept, DownloadKept, NoticeKept
  <1> QED
    BY <1>1, <1>2, <1>3, <1>4, <1>5 DEF Next

\* All of this holds in every behaviour.
THEOREM Delivery == Spec => []DeliveryInv
  <1>1. Init => DeliveryInv
    BY ProductionStart, DownloadStart, NoticeStart DEF Init, DeliveryInv, ProductionInit
  <1> QED
    BY <1>1, DeliveryStep, PTL DEF Spec

\* The types of all three components.
THEOREM DeliveryTypes == Spec => []TypeOK
  <1>1. DeliveryInv => TypeOK
    BY DEF DeliveryInv, TypeOK, ProductionInv, DownloadInv, NoticeInv
  <1> QED
    BY <1>1, Delivery, PTL

\* Whatever changes between signing and publishing, what is published is what
\* was signed.
THEOREM PublishedIsSigned == Spec => []PublishedVerifies
  <1>1. DeliveryInv => PublishedVerifies
    BY DEF DeliveryInv, ProductionInv
  <1> QED
    BY <1>1, Delivery, PTL

\* However often a download is interrupted and resumed, no block of a file is in
\* another's place.
THEOREM BlocksInPlace == Spec => []InPlace
  <1>1. DeliveryInv => InPlace
    BY DEF DeliveryInv, DownloadInv
  <1> QED
    BY <1>1, Delivery, PTL

\* The notifiers do not announce a version twice in a row.
THEOREM AnnouncedOnce == Spec => []ShownOnce
  <1>1. DeliveryInv => ShownOnce
    BY DEF DeliveryInv, NoticeInv
  <1> QED
    BY <1>1, Delivery, PTL

-----------------------------------------------------------------------------
(* What is published, and what becomes of it *)

\* A workflow takes no release back: it publishes one more, or none.
LEMMA ProductionGrows ==
  ASSUME ProductionInv, EditsOwnDraft, ProductionNext
  PROVE  /\ EditsOwnDraft'
         /\ \/ Published' = Published
            \/ \E t \in Tag \ Published : Published' = Published \cup {t}
  <1> USE DEF ProductionInv, ProductionTypeOK, EditsOwnDraft, Published, JobAt, JobTo, build
  <1>1. CASE \/ Begin \/ BeginAgain \/ Create \/ (\E f \in Meta : Write(f))
             \/ Check \/ Verify \/ NewVersion \/ PayloadChanges
             \/ CreateFails \/ JobStops
    <2>1. (remote' = remote /\ job' \notin {"uploading", "editing"}) \/ NewVersion
      BY <1>1 DEF Begin, BeginAgain, Create, Write, Check, Verify, PayloadChanges,
                  CreateFails, JobStops
    <2> QED
      BY <2>1 DEF NewVersion
  <1>2. CASE Draft
    <2>1. tag \in Tag /\ remote[tag] = "none" /\ job' = "uploading" /\ tag' = tag
      BY <1>2 DEF Draft
    <2>2. remote' = [remote EXCEPT ![tag] = "partial"]
      BY <1>2 DEF Draft
    <2>3. Published' = Published
      BY <2>1, <2>2
    <2> QED
      BY <2>1, <2>2, <2>3
  <1>3. CASE Upload
    <2>1. tag \in Tag /\ remote[tag] = "partial" /\ job' = "editing" /\ tag' = tag
      BY <1>3 DEF Upload
    <2>2. remote' = [remote EXCEPT ![tag] = "draft"]
      BY <1>3 DEF Upload
    <2>3. Published' = Published
      BY <2>1, <2>2
    <2> QED
      BY <2>1, <2>2, <2>3
  <1>4. CASE DraftRefused
    BY <1>4 DEF DraftRefused, Discard
  <1>5. CASE Edit
    <2>1. tag \in Tag /\ remote[tag] = "draft" /\ job' = "idle"
      BY <1>5 DEF Edit, Discard
    <2>2. remote' = [remote EXCEPT ![tag] = "published"]
      BY <1>5 DEF Edit
    <2>3. tag \in Tag \ Published /\ Published' = Published \cup {tag}
      BY <2>1, <2>2
    <2> QED
      BY <2>1, <2>3
  <1> QED
    BY <1>1, <1>2, <1>3, <1>4, <1>5 DEF ProductionNext, JobStep, ProductionDisturbance

\* The other components publish nothing.
LEMMA ProductionStays ==
  EditsOwnDraft /\ UNCHANGED prodVars => EditsOwnDraft' /\ Published' = Published
  BY DEF EditsOwnDraft, Published, prodVars, build

\* The download stages what is out where nothing was staged, or takes away what
\* was, or neither.
LEMMA DownloadStages ==
  ASSUME ProductionInv, DownloadInv, FetchesPublished, DownloadNext,
         Published' = Published
  PROVE  /\ FetchesPublished'
         /\ \/ staged' \in {staged, 0}
            \/ staged = 0 /\ staged' \in Published
  <1> USE DEF FetchesPublished, CheckAt, CheckTo
  <1>1. ASSUME NEW t \in Tag, Target(t)
        PROVE  FetchesPublished' /\ staged' \in {staged, 0}
    BY <1>1 DEF Target
  <1>2. CASE VerifyDownload
    BY <1>2 DEF VerifyDownload
  <1>3. CASE Unavailable
    BY <1>3 DEF Unavailable
  <1>4. CASE AllKept \/ \E a \in Asset : RequestAll(a) \/ RequestRest(a)
    <2>1. /\ dir' = dir /\ staged' = staged
          /\ check = "choosing" /\ dir \in Published
      BY <1>4 DEF AllKept, RequestAll, RequestRest, Resumable, Choose, Exists
    <2> QED
      BY <2>1
  <1>5. CASE Interrupted \/ Finish
             \/ \E a \in Asset : CompletePart(a) \/ PartExists(a)
    <2>1. /\ dir' = dir /\ staged' = staged
          /\ check # "idle" /\ check' \in {"idle", "choosing"}
      BY <1>5 DEF Interrupted, Finish, CompletePart, PartExists, Choose, Complete
    <2> QED
      BY <2>1
  <1>6. CASE Receive \/ DamagedBlock \/ \E a \in Asset : RangeIgnored(a)
    <2>1. UNCHANGED <<check, dir, staged>>
      BY <1>6 DEF Receive, DamagedBlock, ReceiveBlock, RangeIgnored
    <2> QED
      BY <2>1
  <1> QED
    BY <1>1, <1>2, <1>3, <1>4, <1>5, <1>6
       DEF DownloadNext, DownloadStep, DownloadDisturbance, StartDownload,
           StartFallback, ChooseAsset, Transfer

\* The others leave the download alone, and take nothing back.
LEMMA DownloadStays ==
  FetchesPublished /\ Published \subseteq Published' /\ UNCHANGED dvars => FetchesPublished'
  BY DEF FetchesPublished, CheckAt, dvars

\* A notifier shows what is out, or nothing.
LEMMA NoticeAnnounces ==
  ASSUME NoticeInv, OffersPublished, NoticeNext, Published' = Published
  PROVE  /\ OffersPublished'
         /\ \/ seen' = seen
            \/ \E t \in Published : seen' = seen \cup {t}
  <1>0. candidate \in [Notifier -> 0..MaxTag]
    BY DEF NoticeInv, NoticeTypeOK
  <1> USE DEF OffersPublished, files, notifiers, Exit
  <1>1. CASE BeginCheck \/ ReportFailure
    BY <1>1 DEF BeginCheck, ReportFailure, Offer
  <1>2. ASSUME NEW t \in Tag, Report(t)
        PROVE  OffersPublished' /\ seen' = seen
    <2>1. t \in Published
      BY <1>2 DEF Report, IsNewest
    <2> QED
      BY <1>2, <2>1 DEF Report, Offer
  <1>3. CASE CheckDies \/ \E t \in Tag : InstallManager(t)
    BY <1>3 DEF CheckDies, InstallManager
  <1>4. ASSUME NEW p \in Notifier, Start(p)
        PROVE  OffersPublished' /\ seen' = seen
    BY <1>0, <1>4 DEF Start
  <1>5. ASSUME NEW p \in Notifier,
               NothingNew(p) \/ Record(p) \/ ShowFails(p) \/ NotifierDies(p)
        PROVE  OffersPublished' /\ seen' = seen
    <2>1. /\ candidate' = [candidate EXCEPT ![p] = 0]
          /\ available' = available /\ seen' = seen
      BY <1>5 DEF NothingNew, Record, ShowFails, NotifierDies
    <2> QED
      BY <1>0, <2>1
  <1>6. ASSUME NEW p \in Notifier, Show(p)
        PROVE  /\ OffersPublished'
               /\ \E t \in Published : seen' = seen \cup {t}
    <2>1. candidate[p] \in Published
      BY <1>6 DEF Show, ShowNew, Pending
    <2> QED
      BY <1>6, <2>1 DEF Show, ShowNew
  <1> QED
    BY <1>1, <1>2, <1>3, <1>4, <1>5, <1>6
       DEF NoticeNext, NoticeStep, NoticeDisturbance, CheckStep, NotifierStep

\* The others leave the notifiers alone, and take nothing back.
LEMMA NoticeStays ==
  OffersPublished /\ Published \subseteq Published' /\ UNCHANGED nvars => OffersPublished'
  BY DEF OffersPublished, nvars, files, notifiers

\* Nothing is published, staged or announced in the beginning.
LEMMA PromiseStart == Init => OnlyPublished /\ Promise!Init
  <1> SUFFICES ASSUME Init PROVE OnlyPublished /\ Promise!Init
    OBVIOUS
  <1>1. Published = {}
    BY DEF Init, ProductionInit, Published
  <1>2. EditsOwnDraft
    BY DEF Init, ProductionInit, EditsOwnDraft
  <1>3. FetchesPublished /\ staged = 0
    BY DEF Init, DownloadInit, FetchesPublished, CheckAt
  <1>4. OffersPublished /\ seen = {}
    BY DEF Init, NoticeInit, OffersPublished
  <1> QED
    BY <1>1, <1>2, <1>3, <1>4 DEF OnlyPublished, Promise!Init

\* The abstract state of ReleasePromise.
released == <<Published, staged, seen>>

\* Every step of the system is a step of the promise, or none.
LEMMA PromiseStep ==
  ASSUME DeliveryInv, OnlyPublished, [Next]_vars
  PROVE  OnlyPublished' /\ [Promise!Next]_released
  <1> USE DEF DeliveryInv, OnlyPublished
  <1>p. ASSUME ProductionNext, UNCHANGED <<dvars, nvars>>
        PROVE  OnlyPublished' /\ [Promise!Next]_released
    <2>1. EditsOwnDraft' /\ Published \subseteq Published'
      BY <1>p, ProductionGrows
    <2>2. FetchesPublished' /\ OffersPublished'
      BY <1>p, <2>1, DownloadStays, NoticeStays
    <2>3. UNCHANGED <<staged, seen>>
      BY <1>p DEF dvars, nvars, notifiers
    <2>4. CASE Published' = Published
      BY <2>1, <2>2, <2>3, <2>4 DEF released
    <2>5. ASSUME NEW t \in Tag \ Published, Published' = Published \cup {t}
          PROVE  Promise!Next
      BY <2>3, <2>5 DEF Promise!Next, Promise!Release, Promise!Tag, Tag
    <2> QED
      BY <1>p, <2>1, <2>2, <2>4, <2>5, ProductionGrows
  <1>d. ASSUME DownloadNext, UNCHANGED prodVars, UNCHANGED nvars
        PROVE  OnlyPublished' /\ [Promise!Next]_released
    <2>1. EditsOwnDraft' /\ Published' = Published
      BY <1>d, ProductionStays
    <2>2. OffersPublished' /\ seen' = seen
      BY <1>d, <2>1, NoticeStays DEF nvars, notifiers
    <2>3. /\ FetchesPublished'
          /\ staged' \in {staged, 0} \/ (staged = 0 /\ staged' \in Published)
      BY <1>d, <2>1, DownloadStages
    <2>4. CASE staged = 0 /\ staged' \in Published
      BY <2>1, <2>2, <2>3, <2>4 DEF Promise!Next, Promise!Stage
    <2>5. CASE staged' = 0
      BY <2>1, <2>2, <2>3, <2>5 DEF Promise!Next, Promise!Unstage
    <2> QED
      BY <2>1, <2>2, <2>3, <2>4, <2>5 DEF released
  <1>n. ASSUME NoticeNext, UNCHANGED prodVars, UNCHANGED dvars
        PROVE  OnlyPublished' /\ [Promise!Next]_released
    <2>1. EditsOwnDraft' /\ Published' = Published
      BY <1>n, ProductionStays
    <2>2. FetchesPublished' /\ staged' = staged
      BY <1>n, <2>1, DownloadStays DEF dvars
    <2>3. /\ OffersPublished'
          /\ seen' = seen \/ \E t \in Published : seen' = seen \cup {t}
      BY <1>n, <2>1, NoticeAnnounces
    <2>4. ASSUME NEW t \in Published, seen' = seen \cup {t}
          PROVE  Promise!Next
      BY <2>1, <2>2, <2>4 DEF Promise!Next, Promise!Announce
    <2> QED
      BY <2>1, <2>2, <2>3, <2>4 DEF released
  <1>1. CASE Producing(JobStep) \/ Producing(NewVersion)
    BY <1>1, <1>p DEF Producing, ProductionNext
  <1>2. CASE Downloading(DownloadStep) \/ Downloading(Interrupted)
    BY <1>2, <1>d DEF Downloading, DownloadNext, pvars, prodVars
  <1>3. CASE \/ Announcing(NoticeStep)
             \/ Announcing(\E t \in Tag : InstallManager(t))
    BY <1>3, <1>n DEF Announcing, NoticeNext, pvars, prodVars
  <1>4. CASE Disturbed
    <2>1. CASE ProductionDisturbance /\ UNCHANGED <<dvars, nvars>>
      BY <2>1, <1>p DEF ProductionNext
    <2>2. CASE /\ DownloadDisturbance
               /\ UNCHANGED <<kind, upstream, build, remote, sound, nvars>>
      BY <2>2, <1>d DEF DownloadNext, prodVars
    <2>3. CASE /\ NoticeDisturbance
               /\ UNCHANGED <<kind, upstream, build, remote, sound, dvars>>
      BY <2>3, <1>n DEF NoticeNext, prodVars
    <2> QED
      BY <1>4, <2>1, <2>2, <2>3 DEF Disturbed
  <1>5. CASE UNCHANGED vars
    <2>1. /\ UNCHANGED prodVars /\ UNCHANGED dvars /\ UNCHANGED nvars
      BY <1>5 DEF vars, pvars, prodVars
    <2>2. EditsOwnDraft' /\ Published' = Published
      BY <2>1, ProductionStays
    <2>3. FetchesPublished' /\ OffersPublished'
      BY <2>1, <2>2, DownloadStays, NoticeStays
    <2>4. UNCHANGED <<staged, seen>>
      BY <2>1 DEF dvars, nvars, notifiers
    <2> QED
      BY <2>2, <2>3, <2>4 DEF released
  <1> QED
    BY <1>1, <1>2, <1>3, <1>4, <1>5 DEF Next

\* Wherever workflows, downloads and notifiers are interrupted: a run edits only
\* the draft it has created, what the updater receives and stages is out,
\* whichever tag a check turned to, and what is offered to the user is out.
THEOREM DeliversOnlyPublished == Spec => []OnlyPublished
  <1>1. DeliveryInv /\ OnlyPublished /\ [Next]_vars => OnlyPublished'
    BY PromiseStep
  <1>2. Init => OnlyPublished
    BY PromiseStart
  <1> QED
    BY <1>1, <1>2, Delivery, PTL DEF Spec

\* The delivery implements ReleasePromise: releases are never taken back, and the
\* machine stages and announces nothing but them, wherever the release list,
\* workflows, downloads and notifiers fail.
THEOREM DeliveryKeepsPromise == Spec => KeepsReleasePromise
  <1>1. Init => Promise!Init
    BY PromiseStart
  <1>2. DeliveryInv /\ OnlyPublished /\ [Next]_vars
          => [Promise!Next]_<<Published, staged, seen>>
    BY PromiseStep DEF released
  <1> QED
    BY <1>1, <1>2, Delivery, DeliversOnlyPublished, PTL
       DEF Spec, KeepsReleasePromise, Promise!Spec

=============================================================================
