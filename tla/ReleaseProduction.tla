--------------------------- MODULE ReleaseProduction ---------------------------
(***************************************************************************)
(* How a release comes to be on GitHub: the workflows build.yml and        *)
(* manager-release.yml decide whether a version is to be built, describe   *)
(* and sign its packages in a directory (scripts/release-manifest.py       *)
(* create, scripts/manager-release.py prepare), verify the directory, and  *)
(* publish it through a draft.                                             *)
(*                                                                         *)
(* A behaviour follows the releases of one kind: the two workflows share   *)
(* neither tags nor files.  Each runs once at a time.                      *)
(***************************************************************************)
EXTENDS Naturals

CONSTANTS
    MaxTag,             \* bound: versions are 1..MaxTag, and so are their tags
    MaxDisturbances     \* bound

ASSUME ProductionAssumption ==
    /\ MaxTag \in Nat \ {0}
    /\ MaxDisturbances \in Nat

Tag  == 1..MaxTag
Meta == {"sums", "manifest", "signature"}

VARIABLES
    kind,       \* "kernel" or "manager"
    upstream,   \* the version to be released
    job, tag,   \* control point of the workflow, and its tag
    payload,    \* the packages in the directory
    meta,       \* the packages each metadata file describes, 0: no file
    remote,     \* of each tag's release on GitHub
    sound,      \* history: tags whose assets verified when they were uploaded
    disturbances

build == <<job, tag, payload, meta>>
pvars == <<kind, upstream, build, remote, sound, disturbances>>

NoMeta == [f \in Meta |-> 0]

ProductionInit ==
    /\ kind \in {"kernel", "manager"}
    /\ upstream = 1
    /\ job = "idle" /\ tag = 1 /\ payload = 0 /\ meta = NoMeta
    /\ remote = [t \in Tag |-> "none"]
    /\ sound = {}
    /\ disturbances = 0

Published == {t \in Tag : remote[t] = "published"}
IsNewest(t) == t \in Published /\ \A s \in Published : s <= t

JobAt(label) == job = label
JobTo(label) == job' = label

-----------------------------------------------------------------------------
\* Mutant: an incomplete release of any version stops the workflow.
BeginAfter ==
    /\ JobAt("idle") /\ remote[upstream] # "published"
    /\ \A t \in Tag : remote[t] \in {"none", "published"}
    /\ JobTo("creating") /\ tag' = upstream /\ payload' = 1 /\ meta' = NoMeta
    /\ UNCHANGED <<kind, upstream, remote, sound>>

\* The decision ends the run when it sees a release of this tag; a draft it may
\* not see, for its job can only read.
Begin ==
    /\ JobAt("idle") /\ remote[upstream] # "published"
    /\ JobTo("creating") /\ tag' = upstream /\ payload' = 1 /\ meta' = NoMeta
    /\ UNCHANGED <<kind, upstream, remote, sound>>

\* By hand, in the directory that an earlier attempt has left.
BeginAgain ==
    /\ JobAt("idle") /\ remote[tag] # "published" /\ payload # 0
    /\ JobTo("creating")
    /\ UNCHANGED <<kind, upstream, tag, payload, meta, remote, sound>>

\* Existing metadata is never overwritten.
Create ==
    /\ JobAt("creating")
    /\ JobTo(IF meta = NoMeta THEN "writing" ELSE "idle")
    /\ UNCHANGED <<kind, upstream, tag, payload, meta, remote, sound>>

\* SHA256SUMS, then the Manifest, then its signature; the Manager's descriptor
\* comes before its checksums, and the attestation of all files last.
Before(f) ==
    IF f = "signature" THEN {"sums", "manifest"}
    ELSE IF (f = "sums") = (kind = "manager") THEN {"sums", "manifest"} \ {f}
    ELSE {}

Write(f) ==
    /\ JobAt("writing")
    /\ meta[f] = 0 /\ \A g \in Before(f) : meta[g] # 0
    /\ meta' = [meta EXCEPT ![f] = IF f = "signature" /\ kind = "kernel"
                                   THEN meta["manifest"] ELSE payload]
    /\ UNCHANGED <<kind, upstream, job, tag, payload, remote, sound>>

\* What is signed is what is there: verify_directory, verify_command.
Verifies == \A f \in Meta : meta[f] = payload

\* A kernel release whose creation fails keeps none of its metadata.
Unsigned == meta' = IF kind = "kernel" THEN NoMeta ELSE meta

Check ==
    /\ JobAt("writing") /\ \A f \in Meta : meta[f] # 0
    /\ IF Verifies THEN JobTo("signed") /\ UNCHANGED meta
                   ELSE JobTo("idle") /\ Unsigned
    /\ UNCHANGED <<kind, upstream, tag, payload, remote, sound>>

\* Mutant: what was signed is published as it arrives.
VerifyNothing ==
    /\ JobAt("signed")
    /\ JobTo("verified")
    /\ UNCHANGED <<kind, upstream, tag, payload, meta, remote, sound>>

\* The publishing job verifies what it has received.
Verify ==
    /\ JobAt("signed")
    /\ JobTo(IF Verifies THEN "verified" ELSE "idle")
    /\ UNCHANGED <<kind, upstream, tag, payload, meta, remote, sound>>

\* gh release create --draft
Draft ==
    /\ JobAt("verified") /\ remote[tag] = "none"
    /\ remote' = [remote EXCEPT ![tag] = "partial"]
    /\ sound' = IF Verifies THEN sound \cup {tag} ELSE sound
    /\ JobTo("uploading")
    /\ UNCHANGED <<kind, upstream, tag, payload, meta>>

\* The runner is discarded, and the directory with it.
Discard == JobTo("idle") /\ payload' = 0 /\ meta' = NoMeta

\* Refusing to modify an existing release, draft or not.
DraftRefused ==
    /\ JobAt("verified") /\ remote[tag] # "none"
    /\ Discard
    /\ UNCHANGED <<kind, upstream, tag, remote, sound>>

Upload ==
    /\ JobAt("uploading")
    /\ remote' = [remote EXCEPT ![tag] = "draft"]
    /\ JobTo("editing")
    /\ UNCHANGED <<kind, upstream, tag, payload, meta, sound>>

\* gh release edit --draft=false
Edit ==
    /\ JobAt("editing")
    /\ remote' = [remote EXCEPT ![tag] = "published"]
    /\ Discard
    /\ UNCHANGED <<kind, upstream, tag, sound>>

-----------------------------------------------------------------------------
\* Ubuntu has a newer source version, or the Manager's version was raised.
NewVersion ==
    /\ upstream < MaxTag
    /\ upstream' = upstream + 1
    /\ UNCHANGED <<kind, build, remote, sound>>

\* The packages are not what they were, in the directory or after a transfer.
PayloadChanges ==
    /\ job \in {"writing", "signed"}
    /\ payload' = 3 - payload
    /\ UNCHANGED <<kind, upstream, job, tag, meta, remote, sound>>

\* create fails: a ManifestError.
CreateFails ==
    /\ JobAt("writing")
    /\ JobTo("idle") /\ Unsigned
    /\ UNCHANGED <<kind, upstream, tag, payload, remote, sound>>

\* Any step fails otherwise, or the run is cancelled or times out.
JobStops ==
    /\ ~JobAt("idle")
    /\ JobTo("idle")
    /\ UNCHANGED <<kind, upstream, tag, payload, meta, remote, sound>>

JobStep ==
    \/ Begin \/ Create \/ (\E f \in Meta : Write(f)) \/ Check \/ Verify
    \/ Draft \/ DraftRefused \/ Upload \/ Edit

ProductionDisturbance ==
    BeginAgain \/ PayloadChanges \/ CreateFails \/ JobStops

-----------------------------------------------------------------------------
(* Properties *)

JobLabels == {"idle", "creating", "writing", "signed", "verified", "uploading",
              "editing"}

ProductionTypeOK ==
    /\ kind \in {"kernel", "manager"}
    /\ upstream \in Tag /\ tag \in Tag
    /\ job \in JobLabels
    /\ payload \in 0..2 /\ meta \in [Meta -> 0..2]
    /\ remote \in [Tag -> {"none", "partial", "draft", "published"}]
    /\ sound \subseteq Tag

\* What is published is complete, and is what was signed: whatever changes
\* between signing and publishing, and wherever a run ends.
PublishedVerifies == Published \subseteq sound

\* A version of the kernel is eventually published unless a newer one takes its
\* place, or a run that ended between `gh release create` and `gh release edit`
\* has left a draft: every later run is refused.  It stands in the way of no
\* other version.
VersionPublished ==
    \A t \in Tag :
        (kind = "kernel" /\ upstream = t) ~>
            (upstream > t \/ remote[t] \in {"published", "partial", "draft"})

=============================================================================
