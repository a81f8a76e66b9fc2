SPECIFICATION Spec
CONSTANTS
    h1 = h1
    h2 = h2
    Nil = Nil
    Bad = Bad
    Pods = {1, 2}
    Containers = {"a", "b"}
    GPUs = {0, 1}
    Present = {0, 1}
    Lists <- OneList
    Hashes = {"a"}
    Hash <- OneHash
    Percent = 2
    MaxLinks = 1
    Claims <- CorePods
    Annotations <- OneEach
    PerDevice = TRUE
    Handlers <- MCHandlers
    Faults <- OwnFaults
SYMMETRY HandlerSymmetry
INVARIANTS
    TypeOK
    NoForeignGPU
PROPERTIES
    RecordRemovalJustified
    ImplementsGPUAccess
CHECK_DEADLOCK FALSE
