SPECIFICATION Spec
CONSTANTS
    MaxTag = 2
    MaxDisturbances = 2
    LastAsset = 2
    Size <- MCSize
    NoFile = NoFile
INVARIANTS TypeOK PublishedVerifies InPlace ShownOnce
PROPERTIES KeepsReleasePromise VersionPublished DownloadCompletes NoticeGiven
CHECK_DEADLOCK FALSE
