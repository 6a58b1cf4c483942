CONSTANTS
    DiskSizes <- MCBuilderDisk
    DiskGuid = DiskGuid
    PartGuid = PartGuid
SPECIFICATION Spec
INVARIANT SomeGptHeaderValid
CHECK_DEADLOCK FALSE
