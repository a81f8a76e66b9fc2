SPECIFICATION Spec
CONSTANTS
    IDs = {1, 2, 3}
    Resource = "core"
    OtherResource = "memory"
    MaxContainers = 2
    EntrySeqs <- MCEntrySeqs
    PodResourceRoot <- Root
INVARIANTS
    TypeOK
    LocateCorrect
PROPERTIES
    LocatorRecovers
