CONSTANTS
    DiskSizes <- MCBuilderDisk
    DiskGuid = DiskGuid
    PartGuid = PartGuid
SPECIFICATION Spec
INVARIANT ImageKeepsDiskSize
CHECK_DEADLOCK FALSE
