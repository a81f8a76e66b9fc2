SPECIFICATION FairSpec
CONSTANTS
    h1 = h1
    h2 = h2
    Nil = Nil
    Bad = Bad
    Pods = {1, 2}
    Containers = {"a", "b"}
    GPUs = {0, 1, 2}
    Present = {0, 1, 2}
    Lists <- WideAndNarrow
    Hashes = {"a", "w"}
    Hash <- WideAndNarrowHash
    Percent = 2
    MaxLinks = 2
    Claims <- MixedPods
    Annotations <- TwoAndOne
    PerDevice = TRUE
    Handlers <- MCHandlers
    Faults = {}
INVARIANTS
    LinksAccounted
    SeesAllAssumed
PROPERTIES
    GoneCollected
    AllLinksRemoved
    ContainerStarts
CHECK_DEADLOCK FALSE
