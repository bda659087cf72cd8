SPECIFICATION Spec
CONSTANTS
    MaxTag = 1
    MaxDisturbances = 0
    LastAsset = 2
    Size <- MCSize
    NoFile = NoFile
PROPERTIES ResumesAnyPart
CHECK_DEADLOCK FALSE
