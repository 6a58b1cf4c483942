CONSTANTS
    BytesPerSector = 512
    SectorsPerCluster = 8
    ReservedSectors = 32
    NumFats = 2
    PartitionSizes <- BuilderPartitionSizes
SPECIFICATION Spec
INVARIANT ClusterCountIsFat32
