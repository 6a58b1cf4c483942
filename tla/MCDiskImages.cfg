CONSTANTS
    DiskSizes <- MCDiskSizes
    DiskGuid = DiskGuid
    PartGuid = PartGuid
SPECIFICATION Spec
INVARIANTS GptGeometryConsistent ReadersFindBuiltVolume
CHECK_DEADLOCK FALSE
