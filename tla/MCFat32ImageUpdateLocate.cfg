CONSTANTS
    BytesPerSector = 32
    SectorsPerCluster = 4
    ReservedSectors = 1
    NumFats = 2
    VolumeSectors <- MCVolumeSectors
    BareFiles <- MCBareFiles
    Layouts <- PartitionedLayouts
    Paths <- UpdatePaths
    Sources <- UpdateSources
SPECIFICATION Spec
INVARIANT UpdateFindsExistingFile
