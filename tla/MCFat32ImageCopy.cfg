CONSTANTS
    BytesPerSector = 32
    SectorsPerCluster = 4
    ReservedSectors = 1
    NumFats = 2
    VolumeSectors <- MCVolumeSectors
    Layouts <- GptLayout
    Paths <- CopyPaths
    Sources <- CopySources
    BareFiles <- MCBareFiles
SPECIFICATION Spec
INVARIANTS TypeOK NoCrossLinkedClusters FileReadsBack DirectoriesFitOneCluster
PROPERTIES RecordsOnlyAppended StoreRefinement
