SPECIFICATION Spec
CONSTANTS
    h1 = h1
    h2 = h2
    Nil = Nil
    Bad = Bad
    Pods = {1, 2}
    Containers = {"a", "b"}
    GPUs = {0, 1}
    Present = {0, 1}
    Lists <- TwoLists
    Hashes = {"a", "b"}
    Hash <- TwoHash
    Percent = 2
    MaxLinks = 1
    Claims <- SharedBoth
    Annotations <- OneEach
    PerDevice = TRUE
    Handlers <- MCHandlers
    Faults = {"crash", "save"}
SYMMETRY HandlerSymmetry
INVARIANTS
    NoForeignGPU
    RunningLinked
    RunningRecorded
CHECK_DEADLOCK FALSE
