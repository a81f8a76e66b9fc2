SPECIFICATION Spec
CONSTANTS
    h1 = h1
    h2 = h2
    Nil = Nil
    Bad = Bad
    Pods = {1, 2}
    Containers = {"a", "b"}
    GPUs = {0, 1}
    Present = {0, 1}
    Lists <- TwoLists
    Hashes = {"a", "b"}
    Hash <- TwoHash
    Percent = 2
    MaxLinks = 1
    Claims <- BothResources
    Annotations <- OneEach
    PerDevice = TRUE
    Handlers <- MCHandlers
    Faults = {"leaked"}
SYMMETRY HandlerSymmetry
INVARIANTS
    NoForeignGPU
CHECK_DEADLOCK FALSE
