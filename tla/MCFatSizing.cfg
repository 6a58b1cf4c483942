CONSTANTS
    BytesPerSector = 512
    SectorsPerCluster = 8
    ReservedSectors = 32
    NumFats = 2
    PartitionSizes <- MCPartitionSizes
SPECIFICATION Spec
INVARIANT FatCoversVolume
